---------------------------- MODULE RelayerProofs ----------------------------
(***************************************************************************)
(* What the relayer keeps, however it crashes and whatever fails, for any   *)
(* chains, transactions, batch size and number of attempts: its cursors     *)
(* never pass an event without a job (Covered), there is one job for a      *)
(* transaction and a destination, and the jobs implement RelayQueue.  The   *)
(* last needs that the processor's snapshot of its query still tells the    *)
(* truth when it is used (Fresh), though other jobs are created meanwhile.  *)
(***************************************************************************)
EXTENDS Relayer, SequenceTheorems, WellFoundedInduction, TLAPS

-----------------------------------------------------------------------------
(* Least elements. *)

LEMMA LeastExists ==
  ASSUME NEW T \in SUBSET Nat, T # {}
  PROVE  \E x \in T : \A y \in T : x <= y
<1>1. IsWellFoundedOn(OpToRel(<, Nat), Nat)
  BY NatLessThanWellFounded
<1>2. PICK x \in T : \A y \in T : ~ (<<y, x>> \in OpToRel(<, Nat))
  BY <1>1, WFMin
<1>3. \A y \in T : ~ (y < x)
  BY <1>2 DEF OpToRel
<1> QED
  BY <1>3

Announces(tx) == \E i \in DOMAIN EventsOf[tx] : Publishes(EventsOf[tx][i])

LEMMA FirstMessageIsThere ==
  ASSUME NEW tx \in Txs, Announces(tx)
  PROVE  FirstMessage(tx) \in DOMAIN EventsOf[tx]
<1> DEFINE events == EventsOf[tx]
           T == {i \in DOMAIN events : Publishes(events[i])}
<1>1. events \in Seq(Events)
  BY TxsAssumption
<1>2. T \in SUBSET Nat /\ T # {}
  <2>1. DOMAIN events = 1..Len(events)
    BY <1>1, LenProperties
  <2> QED
    BY <2>1 DEF Announces
<1>3. \E i \in T : \A k \in T : i <= k
  BY <1>2, LeastExists
<1>4. \E i \in DOMAIN events :
        /\ Publishes(events[i])
        /\ \A k \in DOMAIN events : Publishes(events[k]) => i <= k
  BY <1>3
<1> QED
  BY <1>4 DEF FirstMessage

-----------------------------------------------------------------------------
(* The invariant. *)

ChainInv ==
  /\ blocks \in [Chains -> Seq(Txs)]
  /\ signed \subseteq Mined

\* A watcher queues only what has a message to carry.
Work ==
  {task \in WorkItems :
     task.op = "queue" => /\ task.event \in DOMAIN EventsOf[task.tx]
                          /\ Publishes(EventsOf[task.tx][task.event])}

WatcherInv ==
  /\ up \in BOOLEAN
  /\ cursor \in [Chains -> Nat]
  /\ fromBlock \in [Chains -> Nat]
  /\ toBlock \in [Chains -> Nat]
  /\ todo \in [Chains -> SUBSET Work]
  /\ \A c \in Chains : /\ cursor[c] <= Len(blocks[c])
                       /\ fromBlock[c] <= toBlock[c]
                       /\ toBlock[c] <= Len(blocks[c])

JobsInv ==
  /\ jobs \in Seq(Jobs)
  /\ \A j \in DOMAIN jobs : Announces(jobs[j].tx) /\ jobs[j].attempts <= MAX_ATTEMPTS
  /\ OneJobPerDestination

\* What the snapshot says of a job still holds, the attempt in progress apart.
Fresh(entry) ==
  /\ entry.job \in DOMAIN jobs
  /\ jobs[entry.job].status \in Open
  /\ jobs[entry.job].attempts
       = IF stage # "idle" /\ entry = Current THEN entry.attempts + 1 ELSE entry.attempts

ProcessorInv ==
  /\ stage \in {"idle", "taken", "submitted"}
  /\ batch \subseteq [job: Nat, attempts: Nat]
  /\ \A entry \in batch : Fresh(entry)
  /\ \A e, f \in batch : e.job = f.job => e = f
  /\ stage # "idle" => up /\ batch # {}

RelayInv ==
  /\ \A relay \in mempool :
       relay.tx \in signed /\ relay.tx \in Txs /\ Announces(relay.tx) /\ relay.destChain \in Chains
  /\ relayed = [c \in Chains |-> relayed[c]]
  /\ \A c \in Chains : \A m \in relayed[c] : m[1] \in signed /\ m[2] \in DOMAIN EventsOf[m[1]]

Covered(c, n) ==
  \A i \in DOMAIN EventsOf[blocks[c][n]], d \in Chains :
    MustReach(blocks[c][n], i, d) => JobExistsForTx(blocks[c][n], d)

\* In the range being processed, what has no job yet is still to be done.
InProgress(c, n) ==
  \A i \in DOMAIN EventsOf[blocks[c][n]], d \in Chains :
    MustReach(blocks[c][n], i, d) =>
      JobExistsForTx(blocks[c][n], d) \/ QueueTask(blocks[c][n], i, d) \in todo[c]

CoverInv ==
  \A c \in Chains :
    /\ \A n \in 1..cursor[c] : Covered(c, n)
    /\ \A n \in 1..fromBlock[c] : Covered(c, n)
    /\ \A n \in (fromBlock[c] + 1)..toBlock[c] : InProgress(c, n)

RInv == ChainInv /\ WatcherInv /\ JobsInv /\ ProcessorInv /\ RelayInv /\ CoverInv

LEMMA RInvType == RInv => TypeOK
<1> SUFFICES ASSUME RInv PROVE TypeOK
  OBVIOUS
<1>1. \A c \in Chains : Len(blocks[c]) \in Nat
  BY LenProperties DEF RInv, ChainInv
<1>2. \A c \in Chains :
        /\ cursor[c] \in 0..Len(blocks[c])
        /\ fromBlock[c] \in 0..Len(blocks[c])
        /\ toBlock[c] \in fromBlock[c]..Len(blocks[c])
        /\ todo[c] \subseteq WorkItems
  BY <1>1 DEF RInv, WatcherInv, Work
<1>3. \A entry \in batch : entry.job \in DOMAIN jobs /\ entry.attempts \in Nat
  BY DEF RInv, ProcessorInv, Fresh
<1> QED
  BY <1>2, <1>3 DEF RInv, ChainInv, WatcherInv, JobsInv, ProcessorInv, RelayInv, TypeOK

LEMMA RInvCovers == RInv => CursorCoversJobs
BY DEF RInv, CoverInv, Covered, CursorCoversJobs

LEMMA CurrentIsFirst ==
  ASSUME ProcessorInv, batch # {}
  PROVE  Current \in batch /\ \A other \in batch : Current.job <= other.job
<1> DEFINE T == {entry.job : entry \in batch}
<1>1. T \in SUBSET Nat /\ T # {}
  BY DEF ProcessorInv
<1>2. \E x \in T : \A y \in T : x <= y
  BY <1>1, LeastExists
<1>3. \E entry \in batch : \A other \in batch : entry.job <= other.job
  BY <1>2
<1> QED
  BY <1>3 DEF Current

-----------------------------------------------------------------------------
(* The two ways in which the jobs change, and what they do to the queue. *)

JobsKept == \A tx, d : JobExistsForTx(tx, d) => JobExistsForTx(tx, d)'

Entry(job) == [state |-> StateOf(job.status), attempts |-> job.attempts]
KeyOf(job) == <<job.tx, job.destChain>>

\* The queue has the one job of each key, if there is one.
LEMMA QueueOfJobs ==
  JobsInv =>
    /\ \A j \in DOMAIN jobs : AbstractQueue[KeyOf(jobs[j])] = Entry(jobs[j])
    /\ \A key \in Txs \X Chains :
         (\A j \in DOMAIN jobs : KeyOf(jobs[j]) # key) => AbstractQueue[key] = Q!None
    /\ AbstractQueue = [key \in Txs \X Chains |-> AbstractQueue[key]]
<1> SUFFICES ASSUME JobsInv
             PROVE  /\ \A j \in DOMAIN jobs : AbstractQueue[KeyOf(jobs[j])] = Entry(jobs[j])
                    /\ \A key \in Txs \X Chains :
                         (\A j \in DOMAIN jobs : KeyOf(jobs[j]) # key)
                           => AbstractQueue[key] = Q!None
                    /\ AbstractQueue = [key \in Txs \X Chains |-> AbstractQueue[key]]
  OBVIOUS
<1>1. DOMAIN jobs = 1..Len(jobs) /\ Len(jobs) \in Nat
  BY LenProperties DEF JobsInv
<1>2. ASSUME NEW j \in DOMAIN jobs
      PROVE  AbstractQueue[KeyOf(jobs[j])] = Entry(jobs[j])
  <2>1. jobs[j] \in Jobs
    BY <1>1, ElementOfSeq DEF JobsInv
  <2>2. KeyOf(jobs[j]) \in Txs \X Chains
    BY <2>1 DEF Jobs, KeyOf
  <2>3. \A k \in JobsFor(KeyOf(jobs[j])) : k = j
    BY DEF JobsFor, KeyOf, JobsInv, OneJobPerDestination
  <2>4. j \in JobsFor(KeyOf(jobs[j])) /\ j <= j
    BY <1>1 DEF JobsFor, KeyOf
  <2>5. (CHOOSE k \in JobsFor(KeyOf(jobs[j])) : \A l \in JobsFor(KeyOf(jobs[j])) : k <= l) = j
    BY <2>3, <2>4
  <2> QED
    BY <2>2, <2>4, <2>5 DEF AbstractQueue, Entry
<1>3. ASSUME NEW key \in Txs \X Chains, \A j \in DOMAIN jobs : KeyOf(jobs[j]) # key
      PROVE  AbstractQueue[key] = Q!None
  <2>1. JobsFor(key) = {}
    BY <1>3 DEF JobsFor, KeyOf
  <2> QED
    BY <2>1 DEF AbstractQueue, Q!None
<1>4. AbstractQueue = [key \in Txs \X Chains |-> AbstractQueue[key]]
  BY DEF AbstractQueue
<1> QED
  BY <1>2, <1>3, <1>4

\* The next queue differs from this one in the state of one key.
QueueSet(key, entry) == AbstractQueue' = [AbstractQueue EXCEPT ![key] = entry]

LEMMA QueueSetBy ==
  ASSUME JobsInv, JobsInv', NEW key \in Txs \X Chains, NEW entry,
         AbstractQueue'[key] = entry,
         \A k \in Txs \X Chains : k # key => AbstractQueue'[k] = AbstractQueue[k]
  PROVE  QueueSet(key, entry)
<1> DEFINE a == AbstractQueue
           b == AbstractQueue'
<1>1. a = [k \in Txs \X Chains |-> a[k]]
  BY QueueOfJobs
<1>2. b = [k \in Txs \X Chains |-> b[k]]
  BY DEF AbstractQueue
<1>3. b[key] = entry /\ \A k \in Txs \X Chains : k # key => b[k] = a[k]
  OBVIOUS
<1>4. b = [a EXCEPT ![key] = entry]
  <2> HIDE DEF a, b
  <2> QED
    BY <1>1, <1>2, <1>3
<1> QED
  BY <1>4 DEF QueueSet

Keyed(j) == AbstractQueue[KeyOf(jobs[j])] = Entry(jobs[j])
Empty(key) ==
  (\A j \in DOMAIN jobs : KeyOf(jobs[j]) # key) => AbstractQueue[key] = Q!None

LEMMA QueueOfNextJobs ==
  JobsInv' => /\ \A j \in DOMAIN jobs' : Keyed(j)'
              /\ \A key \in Txs \X Chains : Empty(key)'
<1>1. JobsInv => /\ \A j \in DOMAIN jobs : Keyed(j)
                 /\ \A key \in Txs \X Chains : Empty(key)
  BY QueueOfJobs DEF Keyed, Empty
<1>2. JobsInv' => (/\ \A j \in DOMAIN jobs : Keyed(j)
                   /\ \A key \in Txs \X Chains : Empty(key))'
  BY <1>1, PTL
<1> QED
  BY <1>2

\* One job is marked, and stays the job of its key.
MarkedAs(j, job) ==
  /\ DOMAIN jobs' = DOMAIN jobs
  /\ jobs'[j] = job
  /\ \A k \in DOMAIN jobs : k # j => jobs'[k] = jobs[k]

LEMMA MarkJob ==
  ASSUME JobsInv, NEW j \in DOMAIN jobs, NEW job \in Jobs,
         KeyOf(job) = KeyOf(jobs[j]), job.attempts <= MAX_ATTEMPTS,
         jobs' = [jobs EXCEPT ![j] = job]
  PROVE  /\ JobsInv' /\ JobsKept /\ MarkedAs(j, job)
         /\ KeyOf(job) \in Txs \X Chains /\ QueueSet(KeyOf(job), Entry(job))
<1>1. DOMAIN jobs = 1..Len(jobs) /\ Len(jobs) \in Nat /\ jobs \in Seq(Jobs)
  BY LenProperties DEF JobsInv
<1>2. jobs' \in Seq(Jobs) /\ MarkedAs(j, job)
  BY <1>1, ExceptSeq DEF MarkedAs
<1>3. job.tx = jobs[j].tx /\ job.destChain = jobs[j].destChain
  BY DEF KeyOf
<1>4. \A k \in DOMAIN jobs : jobs'[k].tx = jobs[k].tx /\ jobs'[k].destChain = jobs[k].destChain
  BY <1>2, <1>3 DEF MarkedAs
<1>5. JobsInv'
  <2>1. \A k \in DOMAIN jobs' : Announces(jobs'[k].tx) /\ jobs'[k].attempts <= MAX_ATTEMPTS
    BY <1>2, <1>4 DEF MarkedAs, JobsInv
  <2>2. OneJobPerDestination'
    BY <1>2, <1>4 DEF MarkedAs, JobsInv, OneJobPerDestination
  <2> QED
    BY <1>2, <2>1, <2>2 DEF JobsInv, Announces
<1>6. JobsKept
  BY <1>2, <1>4 DEF JobsKept, JobExistsForTx, MarkedAs
<1>7. KeyOf(job) \in Txs \X Chains
  BY DEF KeyOf, Jobs
<1>8. AbstractQueue'[KeyOf(job)] = Entry(job)
  <2>1. Keyed(j)'
    BY <1>2, <1>5, QueueOfNextJobs DEF MarkedAs
  <2> QED
    BY <2>1, <1>2 DEF Keyed, MarkedAs, Entry, KeyOf
<1>9. ASSUME NEW key \in Txs \X Chains, key # KeyOf(job)
      PROVE  AbstractQueue'[key] = AbstractQueue[key]
  <2>1. CASE \A k \in DOMAIN jobs : KeyOf(jobs[k]) # key
    <3>1. AbstractQueue[key] = Q!None
      BY <2>1, QueueOfJobs
    <3>2. \A k \in DOMAIN jobs' : KeyOf(jobs'[k]) # key
      BY <2>1, <1>2, <1>4 DEF MarkedAs, KeyOf
    <3>3. Empty(key)'
      BY <1>5, QueueOfNextJobs
    <3> QED
      BY <3>1, <3>2, <3>3 DEF Empty, KeyOf, Q!None
  <2>2. CASE \E k \in DOMAIN jobs : KeyOf(jobs[k]) = key
    <3>1. PICK k \in DOMAIN jobs : KeyOf(jobs[k]) = key
      BY <2>2
    <3>2. k # j
      BY <3>1, <1>9
    <3>3. Keyed(k)'
      BY <1>2, <1>5, QueueOfNextJobs DEF MarkedAs
    <3>4. jobs'[k] = jobs[k]
      BY <1>2, <3>2 DEF MarkedAs
    <3>5. AbstractQueue'[key] = Entry(jobs[k])
      BY <3>1, <3>3, <3>4 DEF Keyed, Entry, KeyOf
    <3> QED
      BY <3>1, <3>5, QueueOfJobs
  <2> QED
    BY <2>1, <2>2
<1> QED
  BY <1>2, <1>5, <1>6, <1>7, <1>8, <1>9, QueueSetBy

\* A job is created for a key that had none.
JobsAsBefore == \A k \in DOMAIN jobs : k \in DOMAIN jobs' /\ jobs'[k] = jobs[k]

LEMMA AppendJob ==
  ASSUME JobsInv, NEW job \in Jobs, Announces(job.tx), job.attempts <= MAX_ATTEMPTS,
         ~ JobExistsForTx(job.tx, job.destChain), jobs' = Append(jobs, job)
  PROVE  /\ JobsInv' /\ JobsKept /\ JobsAsBefore
         /\ JobExistsForTx(job.tx, job.destChain)'
         /\ KeyOf(job) \in Txs \X Chains
         /\ AbstractQueue[KeyOf(job)] = Q!None /\ QueueSet(KeyOf(job), Entry(job))
<1> PICK n : n = Len(jobs) + 1
  OBVIOUS
<1>1. DOMAIN jobs = 1..Len(jobs) /\ Len(jobs) \in Nat /\ jobs \in Seq(Jobs)
  BY LenProperties DEF JobsInv
<1>2. /\ jobs' \in Seq(Jobs) /\ DOMAIN jobs' = 1..n
      /\ jobs'[n] = job /\ \A k \in DOMAIN jobs : jobs'[k] = jobs[k]
  BY <1>1, AppendProperties, LenProperties
<1>3. JobsAsBefore
  BY <1>1, <1>2 DEF JobsAsBefore
<1>4. \A k \in DOMAIN jobs' : k \in DOMAIN jobs \/ k = n
  BY <1>1, <1>2
<1>5. \A k \in DOMAIN jobs : ~ (jobs[k].tx = job.tx /\ jobs[k].destChain = job.destChain)
  BY DEF JobExistsForTx
<1>6. JobsInv'
  <2>1. \A k \in DOMAIN jobs' : Announces(jobs'[k].tx) /\ jobs'[k].attempts <= MAX_ATTEMPTS
    BY <1>2, <1>4 DEF JobsInv
  <2>2. OneJobPerDestination'
    BY <1>2, <1>4, <1>5 DEF JobsInv, OneJobPerDestination
  <2> QED
    BY <1>2, <2>1, <2>2 DEF JobsInv, Announces
<1>7. JobsKept
  BY <1>3 DEF JobsKept, JobExistsForTx, JobsAsBefore
<1>8. n \in DOMAIN jobs'
  BY <1>1, <1>2
<1>9. JobExistsForTx(job.tx, job.destChain)'
  BY <1>2, <1>8 DEF JobExistsForTx
<1>10. KeyOf(job) \in Txs \X Chains
  BY DEF KeyOf, Jobs
<1>11. \A k \in DOMAIN jobs : KeyOf(jobs[k]) # KeyOf(job)
  BY <1>5 DEF KeyOf
<1>12. AbstractQueue[KeyOf(job)] = Q!None
  BY <1>10, <1>11, QueueOfJobs
<1>13. AbstractQueue'[KeyOf(job)] = Entry(job)
  <2>1. Keyed(n)'
    BY <1>6, <1>8, QueueOfNextJobs
  <2> QED
    BY <2>1, <1>2 DEF Keyed, Entry, KeyOf
<1>14. ASSUME NEW key \in Txs \X Chains, key # KeyOf(job)
       PROVE  AbstractQueue'[key] = AbstractQueue[key]
  <2>1. CASE \A k \in DOMAIN jobs : KeyOf(jobs[k]) # key
    <3>1. AbstractQueue[key] = Q!None
      BY <2>1, QueueOfJobs
    <3>2. \A k \in DOMAIN jobs' : KeyOf(jobs'[k]) # key
      BY <2>1, <1>2, <1>4, <1>14 DEF KeyOf
    <3>3. Empty(key)'
      BY <1>6, QueueOfNextJobs
    <3> QED
      BY <3>1, <3>2, <3>3 DEF Empty, KeyOf, Q!None
  <2>2. CASE \E k \in DOMAIN jobs : KeyOf(jobs[k]) = key
    <3>1. PICK k \in DOMAIN jobs : KeyOf(jobs[k]) = key
      BY <2>2
    <3>2. Keyed(k)' /\ jobs'[k] = jobs[k]
      BY <1>3, <1>6, QueueOfNextJobs DEF JobsAsBefore
    <3>3. AbstractQueue'[key] = Entry(jobs[k])
      BY <3>1, <3>2 DEF Keyed, Entry, KeyOf
    <3> QED
      BY <3>1, <3>3, QueueOfJobs
  <2> QED
    BY <2>1, <2>2
<1> QED
  BY <1>3, <1>6, <1>7, <1>9, <1>10, <1>12, <1>13, <1>14, QueueSetBy

-----------------------------------------------------------------------------
(* What a step leaves alone. *)

LEMMA KeepChain ==
  ASSUME ChainInv, UNCHANGED chainVars
  PROVE  ChainInv'
BY DEF ChainInv, chainVars, Mined

LEMMA KeepWatcher ==
  ASSUME WatcherInv, UNCHANGED <<blocks, up, watcherVars>>
  PROVE  WatcherInv'
BY DEF WatcherInv, watcherVars

LEMMA KeepJobs ==
  ASSUME JobsInv, UNCHANGED jobs
  PROVE  JobsInv' /\ JobsKept /\ JobsAsBefore
BY DEF JobsInv, OneJobPerDestination, JobsKept, JobExistsForTx, JobsAsBefore

LEMMA KeepProcessor ==
  ASSUME ProcessorInv, JobsAsBefore, UNCHANGED <<up, processorVars>>
  PROVE  ProcessorInv'
<1>1. Current' = Current
  BY DEF Current, processorVars
<1>2. \A entry \in batch : Fresh(entry)'
  BY <1>1 DEF ProcessorInv, Fresh, JobsAsBefore, processorVars
<1> QED
  BY <1>2 DEF ProcessorInv, processorVars

LEMMA KeepRelay ==
  ASSUME RelayInv, signed \subseteq signed', UNCHANGED destVars
  PROVE  RelayInv'
BY DEF RelayInv, destVars

LEMMA KeepCover ==
  ASSUME CoverInv, JobsKept, UNCHANGED <<blocks, watcherVars>>
  PROVE  CoverInv'
<1>1. \A c, n : Covered(c, n) => Covered(c, n)'
  BY DEF Covered, JobsKept, MustReach, JobType
<1>2. \A c, n : InProgress(c, n) => InProgress(c, n)'
  BY DEF InProgress, JobsKept, MustReach, JobType, QueueTask, watcherVars
<1> QED
  BY <1>1, <1>2 DEF CoverInv, watcherVars

-----------------------------------------------------------------------------
(* The chains and the networks. *)

\* A chain only gets longer.
Longer ==
  \A c \in Chains : /\ Len(blocks[c]) \in Nat /\ Len(blocks'[c]) \in Nat
                    /\ Len(blocks[c]) <= Len(blocks'[c])
                    /\ \A n \in 1..Len(blocks[c]) : blocks'[c][n] = blocks[c][n]

LEMMA StepMine ==
  ASSUME RInv, NEW tx \in Txs, Mine(tx)
  PROVE  RInv'
<1>1. blocks \in [Chains -> Seq(Txs)] /\ SourceChain[tx] \in Chains
  BY TxsAssumption DEF RInv, ChainInv
<1> DEFINE more == Append(blocks[SourceChain[tx]], tx)
<1>2. /\ more \in Seq(Txs) /\ Len(more) = Len(blocks[SourceChain[tx]]) + 1
      /\ \A n \in 1..Len(blocks[SourceChain[tx]]) : more[n] = blocks[SourceChain[tx]][n]
  BY <1>1, AppendProperties
<1>3. blocks' = [blocks EXCEPT ![SourceChain[tx]] = more]
  BY DEF Mine
<1>4. blocks' \in [Chains -> Seq(Txs)] /\ Longer
  <2>1. \A c \in Chains : Len(blocks[c]) \in Nat
    BY <1>1, LenProperties
  <2> HIDE DEF more
  <2> QED
    BY <1>1, <1>2, <1>3, <2>1 DEF Longer
<1>5. ChainInv'
  <2>1. ASSUME NEW y \in Mined PROVE y \in Mined'
    <3>1. PICK c \in Chains : \E n \in DOMAIN blocks[c] : y = blocks[c][n]
      BY <2>1 DEF Mined
    <3>2. PICK n \in DOMAIN blocks[c] : y = blocks[c][n]
      BY <3>1
    <3>3. n \in 1..Len(blocks[c]) /\ DOMAIN blocks'[c] = 1..Len(blocks'[c])
      BY <1>1, <1>4, LenProperties
    <3>4. n \in DOMAIN blocks'[c] /\ y = blocks'[c][n]
      BY <3>2, <3>3, <1>4 DEF Longer
    <3> QED
      BY <3>4 DEF Mined
  <2> QED
    BY <1>4, <2>1 DEF RInv, ChainInv, Mine
<1>6. WatcherInv'
  BY <1>4 DEF RInv, WatcherInv, Longer, Mine, watcherVars, Work
<1>7. JobsInv' /\ JobsKept /\ JobsAsBefore
  BY KeepJobs DEF RInv, Mine
<1>8. ProcessorInv' /\ RelayInv'
  BY <1>7, KeepProcessor, KeepRelay DEF RInv, Mine
<1>9. CoverInv'
  <2>1. ASSUME NEW c \in Chains, NEW n \in 1..Len(blocks[c])
        PROVE  /\ Covered(c, n) => Covered(c, n)'
               /\ InProgress(c, n) => InProgress(c, n)'
    <3>1. blocks'[c][n] = blocks[c][n] /\ todo' = todo
      BY <1>4 DEF Longer, Mine, watcherVars
    <3>2. Covered(c, n) => Covered(c, n)'
      BY <3>1, <1>7 DEF Covered, JobsKept, MustReach, JobType
    <3>3. InProgress(c, n) => InProgress(c, n)'
      BY <3>1, <1>7 DEF InProgress, JobsKept, MustReach, JobType, QueueTask
    <3> QED
      BY <3>2, <3>3
  <2>2. \A c \in Chains :
          /\ cursor[c] \in 0..Len(blocks[c]) /\ fromBlock[c] \in 0..Len(blocks[c])
          /\ toBlock[c] \in 0..Len(blocks[c])
    BY <1>4 DEF RInv, WatcherInv, Longer
  <2> QED
    BY <1>4, <2>1, <2>2 DEF RInv, CoverInv, Mine, watcherVars, Longer
<1> QED
  BY <1>5, <1>6, <1>7, <1>8, <1>9 DEF RInv

LEMMA StepSign ==
  ASSUME RInv, NEW tx \in Txs, Sign(tx)
  PROVE  RInv'
<1>1. ChainInv'
  BY DEF RInv, ChainInv, Sign, Mined
<1>2. JobsInv' /\ JobsKept /\ JobsAsBefore
  BY KeepJobs DEF RInv, Sign
<1>3. WatcherInv' /\ CoverInv'
  BY <1>2, KeepWatcher, KeepCover DEF RInv, Sign
<1>4. ProcessorInv'
  BY <1>2, KeepProcessor DEF RInv, Sign
<1>5. RelayInv'
  BY KeepRelay DEF RInv, Sign
<1> QED
  BY <1>1, <1>2, <1>3, <1>4, <1>5 DEF RInv

LEMMA StepExecute ==
  ASSUME RInv, NEW relay \in mempool, Execute(relay)
  PROVE  RInv'
<1>1. JobsInv' /\ JobsKept /\ JobsAsBefore
  BY KeepJobs DEF RInv, Execute
<1>2. ChainInv' /\ WatcherInv' /\ CoverInv'
  BY <1>1, KeepChain, KeepWatcher, KeepCover DEF RInv, Execute, chainVars
<1>3. ProcessorInv'
  BY <1>1, KeepProcessor DEF RInv, Execute
<1>4. RelayInv'
  <2>1. /\ relay.tx \in signed /\ relay.tx \in Txs /\ Announces(relay.tx)
        /\ relay.destChain \in Chains
    BY DEF RInv, RelayInv
  <2>2. MessageOf(relay)[1] \in signed
        /\ MessageOf(relay)[2] \in DOMAIN EventsOf[MessageOf(relay)[1]]
    BY <2>1, FirstMessageIsThere DEF MessageOf
  <2>3. signed' = signed /\ mempool' \subseteq mempool
    BY DEF Execute, chainVars
  <2>4. CASE ContractAccepts(relay)
    <3>1. relayed' = [relayed EXCEPT ![relay.destChain] =
                        relayed[relay.destChain] \cup {MessageOf(relay)}]
      BY <2>4 DEF Execute
    <3> DEFINE more == relayed[relay.destChain] \cup {MessageOf(relay)}
    <3>2. \A m \in more : m[1] \in signed /\ m[2] \in DOMAIN EventsOf[m[1]]
      BY <2>1, <2>2 DEF RInv, RelayInv
    <3> HIDE DEF more
    <3>3. relayed' = [relayed EXCEPT ![relay.destChain] = more]
      BY <3>1 DEF more
    <3>4. relayed = [c \in Chains |-> relayed[c]]
      BY DEF RInv, RelayInv
    <3>5. relayed' = [c \in Chains |-> relayed'[c]]
          /\ \A c \in Chains : relayed'[c] = IF c = relay.destChain THEN more ELSE relayed[c]
      BY <2>1, <3>3, <3>4
    <3> QED
      BY <2>3, <3>2, <3>5 DEF RInv, RelayInv
  <2>5. CASE ~ ContractAccepts(relay)
    BY <2>3, <2>5 DEF RInv, RelayInv, Execute
  <2> QED
    BY <2>4, <2>5
<1> QED
  BY <1>1, <1>2, <1>3, <1>4 DEF RInv

LEMMA StepDrop ==
  ASSUME RInv, NEW relay \in mempool, Drop(relay)
  PROVE  RInv'
<1>1. JobsInv' /\ JobsKept /\ JobsAsBefore
  BY KeepJobs DEF RInv, Drop
<1>2. ChainInv' /\ WatcherInv' /\ CoverInv'
  BY <1>1, KeepChain, KeepWatcher, KeepCover DEF RInv, Drop, chainVars
<1>3. ProcessorInv'
  BY <1>1, KeepProcessor DEF RInv, Drop
<1>4. RelayInv'
  BY DEF RInv, RelayInv, Drop, chainVars
<1> QED
  BY <1>1, <1>2, <1>3, <1>4 DEF RInv

-----------------------------------------------------------------------------
(* The watchers. *)

LEMMA TasksAreWork ==
  ASSUME NEW tx \in Txs, NEW i \in DOMAIN EventsOf[tx]
  PROVE  /\ Tasks(tx, i) \subseteq Work
         /\ \A d \in Chains : MustReach(tx, i, d) => QueueTask(tx, i, d) \in Tasks(tx, i)
<1> DEFINE event == EventsOf[tx][i]
           others == Chains \ {SourceChain[tx]}
<1>1. SourceChain[tx] \in Chains /\ i \in Nat \ {0} /\ event \in Events
  <2>1. EventsOf[tx] \in Seq(Events)
    BY TxsAssumption
  <2> QED
    BY <2>1, LenProperties, ElementOfSeq, TxsAssumption
<1>2. IndexTask(tx, i) \in Work
  BY <1>1 DEF IndexTask, Work, WorkItems
<1>3. ASSUME NEW d \in Chains, Publishes(event)
      PROVE  QueueTask(tx, i, d) \in Work
  BY <1>1, <1>3 DEF QueueTask, Work, WorkItems
<1>4. CASE event.kind = "PayableUpdateBroadcasted"
  <2>1. Tasks(tx, i) = {QueueTask(tx, i, d) : d \in others}
    BY <1>4 DEF Tasks
  <2>2. Publishes(event)
    BY <1>4 DEF Publishes
  <2> QED
    BY <2>1, <2>2, <1>3 DEF MustReach
<1>5. CASE event.kind = "UserPaid" /\ event.payableChain \in others
  <2>1. Tasks(tx, i) = {IndexTask(tx, i), QueueTask(tx, i, event.payableChain)}
    BY <1>5 DEF Tasks
  <2>2. Publishes(event) /\ event.payableChain \in Chains
    BY <1>5 DEF Publishes
  <2>3. Tasks(tx, i) \subseteq Work
    BY <2>1, <2>2, <1>2, <1>3
  <2>4. \A d \in Chains : MustReach(tx, i, d) => d = event.payableChain
    BY <1>5 DEF MustReach
  <2> QED
    BY <2>1, <2>3, <2>4
<1>6. CASE /\ event.kind # "PayableUpdateBroadcasted"
           /\ ~ (event.kind = "UserPaid" /\ event.payableChain \in others)
  <2>1. Tasks(tx, i) = {IndexTask(tx, i)}
    BY <1>6 DEF Tasks
  <2>2. \A d \in Chains : ~ MustReach(tx, i, d)
    BY <1>6 DEF MustReach
  <2> QED
    BY <2>1, <2>2, <1>2
<1> QED
  BY <1>4, <1>5, <1>6

LEMMA StepPoll ==
  ASSUME RInv, NEW c \in Chains, Poll(c)
  PROVE  RInv'
<1> DEFINE last == Least(Len(blocks[c]), fromBlock[c] + BatchSize)
           work == ReadLogs(c, fromBlock[c] + 1, last)
<1>1. /\ blocks \in [Chains -> Seq(Txs)] /\ Len(blocks[c]) \in Nat
      /\ fromBlock[c] \in Nat /\ fromBlock[c] < Len(blocks[c]) /\ toBlock[c] = fromBlock[c]
  BY LenProperties DEF RInv, ChainInv, WatcherInv, Poll, Polling
<1>2. last \in Nat /\ fromBlock[c] <= last /\ last <= Len(blocks[c])
  BY <1>1, NumbersAssumption DEF Least
<1>3. /\ toBlock' = [toBlock EXCEPT ![c] = last] /\ todo' = [todo EXCEPT ![c] = work]
      /\ UNCHANGED <<chainVars, up, cursor, fromBlock, receipts, jobs, processorVars, destVars>>
  BY DEF Poll
<1>4. \A n \in (fromBlock[c] + 1)..last : blocks[c][n] \in Txs
  BY <1>1, <1>2, ElementOfSeq
<1>5. work \subseteq Work
  BY <1>4, TasksAreWork DEF ReadLogs
<1>6. ASSUME NEW n \in (fromBlock[c] + 1)..last, NEW i \in DOMAIN EventsOf[blocks[c][n]],
             NEW d \in Chains, MustReach(blocks[c][n], i, d)
      PROVE  QueueTask(blocks[c][n], i, d) \in work
  BY <1>4, <1>6, TasksAreWork DEF ReadLogs
<1> HIDE DEF last, work
<1>7. JobsInv' /\ JobsKept /\ JobsAsBefore
  BY <1>3, KeepJobs DEF RInv
<1>8. ChainInv' /\ ProcessorInv' /\ RelayInv'
  BY <1>3, <1>7, KeepChain, KeepProcessor, KeepRelay DEF RInv, chainVars
<1>9. WatcherInv'
  BY <1>2, <1>3, <1>5 DEF RInv, WatcherInv, chainVars
<1>10. CoverInv'
  <2>1. \A d \in Chains : /\ toBlock'[d] = IF d = c THEN last ELSE toBlock[d]
                          /\ todo'[d] = IF d = c THEN work ELSE todo[d]
    BY <1>3 DEF RInv, WatcherInv
  <2>2. \A d, n : Covered(d, n) => Covered(d, n)'
    BY <1>3, <1>7 DEF Covered, JobsKept, MustReach, JobType, chainVars
  <2>3. \A d \in Chains : d # c => \A n : InProgress(d, n) => InProgress(d, n)'
    BY <1>3, <1>7, <2>1 DEF InProgress, JobsKept, MustReach, JobType, QueueTask, chainVars
  <2>4. \A n \in (fromBlock[c] + 1)..last : InProgress(c, n)'
    BY <1>3, <1>6, <2>1 DEF InProgress, MustReach, JobType, QueueTask, chainVars
  <2> QED
    BY <1>3, <2>1, <2>2, <2>3, <2>4 DEF RInv, CoverInv
<1> QED
  BY <1>7, <1>8, <1>9, <1>10 DEF RInv

Enqueued ==
  \/ UNCHANGED jobs
  \/ \E key \in Txs \X Chains :
       AbstractQueue[key] = Q!None /\ QueueSet(key, [state |-> "open", attempts |-> 0])

LEMMA QueueJobStep ==
  ASSUME JobsInv, NEW task \in Work, task.op = "queue", QueueJob(task)
  PROVE  /\ JobsInv' /\ JobsKept /\ JobsAsBefore /\ Enqueued
         /\ JobType(task.tx, task.event, task.destChain) # "NONE"
              => JobExistsForTx(task.tx, task.destChain)'
<1> DEFINE type == JobType(task.tx, task.event, task.destChain)
           job == [type |-> type, tx |-> task.tx, destChain |-> task.destChain,
                   status |-> "PENDING", attempts |-> 0]
<1>1. CASE type = "NONE" \/ JobExistsForTx(task.tx, task.destChain)
  <2>1. UNCHANGED jobs
    BY <1>1 DEF QueueJob
  <2> QED
    BY <1>1, <2>1, KeepJobs DEF Enqueued, JobsKept
<1>2. CASE type # "NONE" /\ ~ JobExistsForTx(task.tx, task.destChain)
  <2>1. jobs' = Append(jobs, job)
    BY <1>2 DEF QueueJob
  <2>2. type \in JobTypes
    BY <1>2 DEF JobType, JobTypes
  <2>3. job \in Jobs /\ Announces(job.tx) /\ job.attempts <= MAX_ATTEMPTS
    <3>1. task.tx \in Txs /\ task.destChain \in Chains /\ Announces(task.tx)
      BY DEF Work, WorkItems, Announces
    <3> HIDE DEF type
    <3> QED
      BY <2>2, <3>1, NumbersAssumption DEF Jobs, Statuses
  <2> HIDE DEF type
  <2>4. job.tx = task.tx /\ job.destChain = task.destChain
        /\ job.status = "PENDING" /\ job.attempts = 0
    OBVIOUS
  <2> HIDE DEF job
  <2>5. /\ JobsInv' /\ JobsKept /\ JobsAsBefore /\ JobExistsForTx(job.tx, job.destChain)'
        /\ KeyOf(job) \in Txs \X Chains
        /\ AbstractQueue[KeyOf(job)] = Q!None /\ QueueSet(KeyOf(job), Entry(job))
    BY <1>2, <2>1, <2>3, <2>4, AppendJob
  <2>6. Entry(job) = [state |-> "open", attempts |-> 0]
    BY <2>4 DEF Entry, StateOf, Open
  <2>7. Enqueued
    BY <2>5, <2>6 DEF Enqueued
  <2> QED
    BY <2>4, <2>5, <2>7 DEF JobExistsForTx
<1> QED
  BY <1>1, <1>2

LEMMA ProcessJobsKept ==
  ASSUME RInv, NEW c \in Chains, Process(c)
  PROVE  JobsInv' /\ JobsKept /\ JobsAsBefore /\ Enqueued
<1>1. PICK task \in todo[c] :
        \/ task.op = "index" /\ UNCHANGED jobs
        \/ task.op = "queue" /\ QueueJob(task)
  BY DEF Process
<1>2. task \in Work
  BY DEF RInv, WatcherInv
<1> QED
  BY <1>1, <1>2, KeepJobs, QueueJobStep DEF RInv, Enqueued

LEMMA StepProcess ==
  ASSUME RInv, NEW c \in Chains, Process(c)
  PROVE  RInv'
<1>1. PICK task \in todo[c] :
        /\ \/ task.op = "index" /\ UNCHANGED jobs
           \/ task.op = "queue" /\ QueueJob(task)
        /\ todo' = [todo EXCEPT ![c] = todo[c] \ {task}]
  BY DEF Process
<1>2. UNCHANGED <<chainVars, up, cursor, fromBlock, toBlock, processorVars, destVars>>
  BY DEF Process
<1>3. JobsInv' /\ JobsKept /\ JobsAsBefore
  BY ProcessJobsKept
<1>4. ChainInv' /\ ProcessorInv' /\ RelayInv'
  BY <1>2, <1>3, KeepChain, KeepProcessor, KeepRelay DEF RInv, chainVars
<1>5. WatcherInv'
  BY <1>1, <1>2 DEF RInv, WatcherInv, chainVars
<1>6. ASSUME NEW tx, NEW i, NEW d, MustReach(tx, i, d), task = QueueTask(tx, i, d)
      PROVE  JobExistsForTx(tx, d)'
  <2>1. task.op = "queue" /\ task.tx = tx /\ task.event = i /\ task.destChain = d
    BY <1>6 DEF QueueTask
  <2>2. JobType(tx, i, d) # "NONE"
    BY <1>6 DEF MustReach
  <2>3. task \in Work
    BY DEF RInv, WatcherInv
  <2> QED
    BY <1>1, <2>1, <2>2, <2>3, QueueJobStep DEF RInv
<1>7. CoverInv'
  <2>1. \A d \in Chains : todo'[d] = IF d = c THEN todo[d] \ {task} ELSE todo[d]
    BY <1>1 DEF RInv, WatcherInv
  <2>2. \A d, n : Covered(d, n) => Covered(d, n)'
    BY <1>2, <1>3 DEF Covered, JobsKept, MustReach, JobType, chainVars
  <2>3. ASSUME NEW d \in Chains, NEW n, InProgress(d, n)
        PROVE  InProgress(d, n)'
    <3>1. SUFFICES ASSUME NEW i \in DOMAIN EventsOf[blocks[d][n]], NEW e \in Chains,
                          MustReach(blocks[d][n], i, e)
                   PROVE  JobExistsForTx(blocks[d][n], e)'
                            \/ QueueTask(blocks[d][n], i, e) \in todo'[d]
      BY <1>2 DEF InProgress, MustReach, JobType, QueueTask, chainVars
    <3>2. CASE JobExistsForTx(blocks[d][n], e)
      BY <3>2, <1>2, <1>3 DEF JobsKept, JobExistsForTx, chainVars
    <3>3. CASE QueueTask(blocks[d][n], i, e) \in todo[d]
      <4> PICK tx : tx = blocks[d][n]
        OBVIOUS
      <4>1. blocks' = blocks
        BY <1>2 DEF chainVars
      <4>2. CASE task = QueueTask(tx, i, e)
        <5>1. JobExistsForTx(tx, e)'
          BY <3>1, <4>2, <1>6
        <5> QED
          BY <4>1, <5>1 DEF JobExistsForTx
      <4>3. CASE task # QueueTask(tx, i, e)
        BY <3>3, <4>3, <2>1
      <4> QED
        BY <4>2, <4>3
    <3> QED
      BY <2>3, <3>1, <3>2, <3>3 DEF InProgress
  <2> QED
    BY <1>2, <2>2, <2>3 DEF RInv, CoverInv
<1> QED
  BY <1>3, <1>4, <1>5, <1>7 DEF RInv

\* What is left of the cover when only a watcher moves: the same blocks, the
\* same jobs.
LEMMA SameCover ==
  ASSUME UNCHANGED <<blocks, jobs>>
  PROVE  /\ \A c, n : Covered(c, n) => Covered(c, n)'
         /\ \A c, n : InProgress(c, n) /\ todo[c] = {} => Covered(c, n)
         /\ \A c, n : InProgress(c, n) /\ todo'[c] = todo[c] => InProgress(c, n)'
<1>1. \A c, n : Covered(c, n) => Covered(c, n)'
  BY DEF Covered, JobExistsForTx, MustReach, JobType
<1>2. \A c, n : InProgress(c, n) /\ todo[c] = {} => Covered(c, n)
  BY DEF Covered, InProgress
<1>3. \A c, n : InProgress(c, n) /\ todo'[c] = todo[c] => InProgress(c, n)'
  BY DEF InProgress, JobExistsForTx, MustReach, JobType, QueueTask
<1> QED
  BY <1>1, <1>2, <1>3

LEMMA StepAdvance ==
  ASSUME RInv, NEW c \in Chains, SaveLastIndexedBlock(c) \/ SaveFails(c)
  PROVE  RInv'
<1>1. /\ todo[c] = {} /\ fromBlock' = [fromBlock EXCEPT ![c] = toBlock[c]]
      /\ (cursor' = [cursor EXCEPT ![c] = toBlock[c]] \/ cursor' = cursor)
      /\ UNCHANGED <<chainVars, up, toBlock, todo, jobs, processorVars, destVars>>
  BY DEF SaveLastIndexedBlock, SaveFails, Advance
<1>2. JobsInv' /\ JobsKept /\ JobsAsBefore
  BY <1>1, KeepJobs DEF RInv
<1>3. ChainInv' /\ ProcessorInv' /\ RelayInv'
  BY <1>1, <1>2, KeepChain, KeepProcessor, KeepRelay DEF RInv, chainVars
<1>4. WatcherInv'
  BY <1>1 DEF RInv, WatcherInv, chainVars
<1>5. CoverInv'
  <2>1. \A n \in 1..toBlock[c] : Covered(c, n)
    <3>1. fromBlock[c] \in Nat /\ toBlock[c] \in Nat
      BY DEF RInv, WatcherInv
    <3>2. UNCHANGED <<blocks, jobs>>
      BY <1>1 DEF chainVars
    <3>3. ASSUME NEW n \in 1..toBlock[c] PROVE Covered(c, n)
      <4>1. n \in 1..fromBlock[c] \/ n \in (fromBlock[c] + 1)..toBlock[c]
        BY <3>1
      <4>2. Covered(c, n) \/ InProgress(c, n)
        BY <4>1 DEF RInv, CoverInv
      <4>3. InProgress(c, n) => Covered(c, n)
        BY <1>1, <3>2, SameCover
      <4> QED
        BY <4>2, <4>3
    <3> QED
      BY <3>3
  <2>2. \A d \in Chains :
          /\ fromBlock'[d] = IF d = c THEN toBlock[c] ELSE fromBlock[d]
          /\ cursor'[d] = cursor[d] \/ (d = c /\ cursor'[d] = toBlock[c])
          /\ todo'[d] = todo[d] /\ toBlock'[d] = toBlock[d]
    BY <1>1 DEF RInv, WatcherInv
  <2>3. UNCHANGED <<blocks, jobs>>
    BY <1>1 DEF chainVars
  <2>4. ASSUME NEW d \in Chains
        PROVE  /\ \A n \in 1..cursor'[d] : Covered(d, n)'
               /\ \A n \in 1..fromBlock'[d] : Covered(d, n)'
               /\ \A n \in (fromBlock'[d] + 1)..toBlock'[d] : InProgress(d, n)'
    <3>1. CASE d = c
      <4>1. toBlock[c] \in Nat
        BY DEF RInv, WatcherInv
      <4>2. \A n \in 1..cursor'[d] : Covered(d, n)
        BY <2>1, <2>2, <3>1 DEF RInv, CoverInv
      <4>3. \A n \in 1..fromBlock'[d] : Covered(d, n)
        BY <2>1, <2>2, <3>1
      <4>4. (fromBlock'[d] + 1)..toBlock'[d] = {}
        BY <2>2, <3>1, <4>1
      <4> QED
        BY <2>3, <4>2, <4>3, <4>4, SameCover
    <3>2. CASE d # c
      BY <2>2, <2>3, <3>2, SameCover DEF RInv, CoverInv
    <3> QED
      BY <3>1, <3>2
  <2> QED
    BY <2>4 DEF CoverInv
<1> QED
  BY <1>2, <1>3, <1>4, <1>5 DEF RInv

LEMMA StepTickFails ==
  ASSUME RInv, NEW c \in Chains, TickFails(c)
  PROVE  RInv'
<1>1. /\ toBlock' = [toBlock EXCEPT ![c] = fromBlock[c]] /\ todo' = [todo EXCEPT ![c] = {}]
      /\ UNCHANGED <<chainVars, up, cursor, fromBlock, jobs, processorVars, destVars>>
  BY DEF TickFails
<1>2. JobsInv' /\ JobsKept /\ JobsAsBefore
  BY <1>1, KeepJobs DEF RInv
<1>3. ChainInv' /\ ProcessorInv' /\ RelayInv'
  BY <1>1, <1>2, KeepChain, KeepProcessor, KeepRelay DEF RInv, chainVars
<1>4. WatcherInv'
  BY <1>1 DEF RInv, WatcherInv, chainVars
<1>5. CoverInv'
  <2>1. \A d \in Chains : /\ fromBlock[d] \in Nat
                          /\ toBlock'[d] = IF d = c THEN fromBlock[c] ELSE toBlock[d]
                          /\ d # c => todo'[d] = todo[d]
    BY <1>1 DEF RInv, WatcherInv
  <2>2. UNCHANGED <<blocks, jobs>>
    BY <1>1 DEF chainVars
  <2> QED
    BY <1>1, <2>1, <2>2, SameCover DEF RInv, CoverInv
<1> QED
  BY <1>2, <1>3, <1>4, <1>5 DEF RInv

-----------------------------------------------------------------------------
(* The processor. *)

\* A step of the processor changes its own state, the jobs and the mempool.
LEMMA ProcessorStep ==
  ASSUME RInv, JobsInv', JobsKept, ProcessorInv', RelayInv',
         UNCHANGED <<chainVars, up, watcherVars>>
  PROVE  RInv'
BY KeepChain, KeepWatcher, KeepCover DEF RInv, chainVars

\* What is known of the job at hand.
LEMMA AtHand ==
  ASSUME RInv, batch # {}
  PROVE  /\ Current \in batch /\ Current.job \in DOMAIN jobs /\ Current.attempts \in Nat
         /\ CurrentJob \in Jobs /\ CurrentJob.status \in Open
         /\ CurrentJob.attempts = IF stage # "idle" THEN Current.attempts + 1
                                                    ELSE Current.attempts
         /\ CurrentJob.attempts <= MAX_ATTEMPTS
<1>1. Current \in batch
  BY CurrentIsFirst DEF RInv
<1>2. Fresh(Current) /\ Current.attempts \in Nat
  BY <1>1 DEF RInv, ProcessorInv
<1>3. DOMAIN jobs = 1..Len(jobs) /\ jobs \in Seq(Jobs)
  BY LenProperties DEF RInv, JobsInv
<1>4. CurrentJob \in Jobs
  BY <1>2, <1>3, ElementOfSeq DEF Fresh, CurrentJob
<1> QED
  BY <1>1, <1>2, <1>4 DEF Fresh, CurrentJob, RInv, JobsInv

\* The other entries of the snapshot are about other jobs.
LEMMA PutAway ==
  ASSUME RInv, batch # {}, NEW job, MarkedAs(Current.job, job),
         batch' = batch \ {Current}, stage' = "idle", up' = up
  PROVE  ProcessorInv'
<1>1. Current \in batch
  BY AtHand
<1>2. ASSUME NEW entry \in batch' PROVE Fresh(entry)'
  <2>1. entry \in batch /\ entry # Current /\ entry.job # Current.job
    BY <1>1, <1>2 DEF RInv, ProcessorInv
  <2>2. Fresh(entry)
    BY <2>1 DEF RInv, ProcessorInv
  <2> QED
    BY <2>1, <2>2 DEF Fresh, MarkedAs
<1> QED
  BY <1>2 DEF RInv, ProcessorInv

LEMMA StepStartRun ==
  ASSUME RInv, StartRun
  PROVE  RInv'
<1>1. JobsInv' /\ JobsKept
  BY KeepJobs DEF RInv, StartRun
<1>2. RelayInv'
  BY KeepRelay DEF RInv, StartRun, chainVars
<1>3. ProcessorInv'
  <2>1. /\ batch' = PendingJobs /\ stage = "idle" /\ stage' = "idle" /\ jobs' = jobs /\ up' = up
    BY DEF StartRun
  <2>2. ASSUME NEW entry \in PendingJobs
        PROVE  /\ entry \in [job: Nat, attempts: Nat] /\ entry.job \in DOMAIN jobs
               /\ jobs[entry.job].status \in Open /\ entry.attempts = jobs[entry.job].attempts
    <3>1. PICK j \in DOMAIN jobs : /\ jobs[j].status \in Open
                                   /\ entry = [job |-> j, attempts |-> jobs[j].attempts]
      BY DEF PendingJobs, Snapshot
    <3>2. jobs[j] \in Jobs /\ j \in Nat
      BY LenProperties, ElementOfSeq DEF RInv, JobsInv
    <3>3. jobs[j].attempts \in Nat
      BY <3>2 DEF Jobs
    <3> QED
      BY <3>1, <3>2, <3>3
  <2>3. \A entry \in batch' : Fresh(entry)'
    BY <2>1, <2>2 DEF Fresh
  <2>4. \A e, f \in batch' : e.job = f.job => e = f
    <3>1. \A e \in PendingJobs : e = [job |-> e.job, attempts |-> jobs[e.job].attempts]
      BY <2>2
    <3> QED
      BY <2>1, <3>1
  <2>5. batch' \subseteq [job: Nat, attempts: Nat]
    BY <2>1, <2>2
  <2> QED
    BY <2>1, <2>3, <2>4, <2>5 DEF ProcessorInv
<1> QED
  BY <1>1, <1>2, <1>3, ProcessorStep DEF StartRun

\* Marking a job with a status, and what it does to the queue.
LEMMA MarkStep ==
  ASSUME RInv, batch # {}, NEW status \in Statuses, Mark(Current.job, status)
  PROVE  /\ JobsInv' /\ JobsKept /\ \E job : MarkedAs(Current.job, job)
         /\ KeyOf(CurrentJob) \in Txs \X Chains
         /\ QueueSet(KeyOf(CurrentJob),
                     [state |-> StateOf(status), attempts |-> CurrentJob.attempts])
<1> DEFINE job == [CurrentJob EXCEPT !.status = status]
<1>1. /\ Current.job \in DOMAIN jobs /\ CurrentJob \in Jobs /\ CurrentJob.attempts <= MAX_ATTEMPTS
  BY AtHand
<1>2. /\ job \in Jobs /\ KeyOf(job) = KeyOf(CurrentJob)
      /\ job.attempts = CurrentJob.attempts /\ job.status = status
  BY <1>1 DEF Jobs, KeyOf
<1>3. jobs' = [jobs EXCEPT ![Current.job] = job]
  BY DEF Mark, CurrentJob
<1> HIDE DEF job
<1>4. /\ JobsInv' /\ JobsKept /\ MarkedAs(Current.job, job)
      /\ KeyOf(job) \in Txs \X Chains /\ QueueSet(KeyOf(job), Entry(job))
  BY <1>1, <1>2, <1>3, MarkJob DEF RInv, CurrentJob
<1>5. Entry(job) = [state |-> StateOf(status), attempts |-> CurrentJob.attempts]
  BY <1>2 DEF Entry
<1> QED
  BY <1>2, <1>4, <1>5

LEMMA StepGiveUpJob ==
  ASSUME RInv, GiveUpJob
  PROVE  RInv'
<1>1. JobsInv' /\ JobsKept /\ \E job : MarkedAs(Current.job, job)
  BY MarkStep DEF GiveUpJob, Statuses
<1>2. ProcessorInv'
  BY <1>1, PutAway DEF GiveUpJob
<1>3. RelayInv'
  BY KeepRelay DEF RInv, GiveUpJob, chainVars
<1> QED
  BY <1>1, <1>2, <1>3, ProcessorStep DEF GiveUpJob

LEMMA StepMarkDone ==
  ASSUME RInv, MarkDone
  PROVE  RInv'
<1>1. batch # {}
  BY DEF RInv, ProcessorInv, MarkDone
<1>2. JobsInv' /\ JobsKept /\ \E job : MarkedAs(Current.job, job)
  BY <1>1, MarkStep DEF MarkDone, Statuses
<1>3. ProcessorInv'
  BY <1>1, <1>2, PutAway DEF MarkDone, NextJob
<1>4. RelayInv'
  BY KeepRelay DEF RInv, MarkDone, chainVars
<1> QED
  BY <1>2, <1>3, <1>4, ProcessorStep DEF MarkDone

LEMMA StepJobFails ==
  ASSUME RInv, JobFails
  PROVE  RInv'
<1>1. batch # {}
  BY DEF RInv, ProcessorInv, JobFails
<1>2. JobsInv' /\ JobsKept /\ \E job : MarkedAs(Current.job, job)
  BY <1>1, MarkStep DEF JobFails, Statuses
<1>3. ProcessorInv'
  BY <1>1, <1>2, PutAway DEF JobFails, NextJob
<1>4. RelayInv'
  BY KeepRelay DEF RInv, JobFails, chainVars
<1> QED
  BY <1>2, <1>3, <1>4, ProcessorStep DEF JobFails

Taken(job, n) == [job EXCEPT !.status = "PROCESSING", !.attempts = n]

LEMMA TakenIsAJob ==
  ASSUME NEW job \in Jobs, NEW n \in Nat
  PROVE  /\ Taken(job, n) \in Jobs /\ Taken(job, n).status = "PROCESSING"
         /\ Taken(job, n).attempts = n /\ KeyOf(Taken(job, n)) = KeyOf(job)
<1> DEFINE marked == [job EXCEPT !.status = "PROCESSING"]
           taken == [marked EXCEPT !.attempts = n]
<1>1. marked \in Jobs /\ marked.status = "PROCESSING" /\ KeyOf(marked) = KeyOf(job)
  BY DEF Jobs, Statuses, KeyOf
<1> HIDE DEF marked
<1>2. /\ taken \in Jobs /\ taken.status = "PROCESSING" /\ taken.attempts = n
      /\ KeyOf(taken) = KeyOf(job)
  BY <1>1 DEF Jobs, KeyOf
<1>3. taken = Taken(job, n)
  BY DEF Taken, marked
<1> QED
  BY <1>2, <1>3

\* Taking a job counts an attempt.
LEMMA TakeJobStep ==
  ASSUME RInv, TakeJob
  PROVE  /\ JobsInv' /\ JobsKept
         /\ \E job : /\ MarkedAs(Current.job, job) /\ job.status \in Open
                     /\ job.attempts = Current.attempts + 1
         /\ KeyOf(CurrentJob) \in Txs \X Chains
         /\ CurrentJob.attempts < MAX_ATTEMPTS
         /\ QueueSet(KeyOf(CurrentJob), [state |-> "open", attempts |-> CurrentJob.attempts + 1])
<1> DEFINE job == Taken(CurrentJob, CurrentJob.attempts + 1)
<1>1. /\ Current.job \in DOMAIN jobs /\ CurrentJob \in Jobs /\ CurrentJob.attempts \in Nat
      /\ CurrentJob.attempts = Current.attempts /\ CurrentJob.attempts < MAX_ATTEMPTS
  <2>1. batch # {} /\ stage = "idle" /\ ~ (Current.attempts >= MAX_ATTEMPTS)
    BY DEF TakeJob, AttemptsUsedUp
  <2>2. /\ Current.job \in DOMAIN jobs /\ CurrentJob \in Jobs /\ Current.attempts \in Nat
        /\ CurrentJob.attempts = Current.attempts
    BY <2>1, AtHand
  <2> QED
    BY <2>1, <2>2, NumbersAssumption
<1>2. job \in Jobs /\ job.status = "PROCESSING"
  <2>1. CurrentJob \in Jobs /\ CurrentJob.attempts + 1 \in Nat
    BY <1>1
  <2> QED
    BY <2>1, TakenIsAJob
<1>3. KeyOf(job) = KeyOf(CurrentJob) /\ job.attempts = CurrentJob.attempts + 1
  BY <1>1, TakenIsAJob
<1>4. job.attempts <= MAX_ATTEMPTS
  BY <1>1, <1>3, NumbersAssumption
<1>5. jobs' = [jobs EXCEPT ![Current.job] = job]
  BY DEF TakeJob, MarkProcessing, CurrentJob, Taken
<1> HIDE DEF job
<1>6. /\ JobsInv' /\ JobsKept /\ MarkedAs(Current.job, job)
      /\ KeyOf(job) \in Txs \X Chains /\ QueueSet(KeyOf(job), Entry(job))
  BY <1>1, <1>2, <1>3, <1>4, <1>5, MarkJob DEF RInv, CurrentJob
<1>7. Entry(job) = [state |-> "open", attempts |-> CurrentJob.attempts + 1]
  BY <1>2, <1>3 DEF Entry, StateOf, Open
<1> QED
  BY <1>1, <1>2, <1>3, <1>6, <1>7 DEF Open

LEMMA StepTakeJob ==
  ASSUME RInv, TakeJob
  PROVE  RInv'
<1>1. PICK job : /\ MarkedAs(Current.job, job) /\ job.status \in Open
                 /\ job.attempts = Current.attempts + 1
  BY TakeJobStep
<1>2. /\ up /\ stage = "idle" /\ stage' = "taken" /\ batch # {} /\ batch' = batch /\ up' = up
  BY DEF TakeJob
<1>3. ProcessorInv'
  <2>1. Current' = Current
    BY <1>2 DEF Current
  <2>2. Current \in batch /\ Current.job \in DOMAIN jobs
    BY <1>2, AtHand
  <2>3. ASSUME NEW entry \in batch PROVE Fresh(entry)'
    <3>1. CASE entry = Current
      BY <1>1, <1>2, <2>1, <2>2, <3>1 DEF Fresh, MarkedAs
    <3>2. CASE entry # Current
      <4>1. entry.job # Current.job /\ Fresh(entry)
        BY <2>2, <3>2 DEF RInv, ProcessorInv
      <4> QED
        BY <1>1, <1>2, <2>1, <3>2, <4>1 DEF Fresh, MarkedAs
    <3> QED
      BY <3>1, <3>2
  <2> QED
    BY <1>2, <2>3 DEF RInv, ProcessorInv
<1>4. RelayInv'
  BY KeepRelay DEF RInv, TakeJob, chainVars
<1> QED
  BY <1>3, <1>4, TakeJobStep, ProcessorStep DEF TakeJob

LEMMA StepSubmit ==
  ASSUME RInv, Submit
  PROVE  RInv'
<1>1. JobsInv' /\ JobsKept /\ JobsAsBefore
  BY KeepJobs DEF RInv, Submit
<1>2. /\ up /\ stage = "taken" /\ stage' = "submitted" /\ batch' = batch /\ up' = up
      /\ jobs' = jobs /\ batch # {}
  BY DEF RInv, ProcessorInv, Submit
<1>3. ProcessorInv'
  <2>1. Current' = Current
    BY <1>2 DEF Current
  <2> QED
    BY <1>2, <2>1 DEF RInv, ProcessorInv, Fresh
<1>4. RelayInv'
  <2>1. CurrentJob \in Jobs /\ Current.job \in DOMAIN jobs
    BY <1>2, AtHand
  <2>2. /\ CurrentJob.tx \in signed /\ CurrentJob.tx \in Txs /\ CurrentJob.destChain \in Chains
        /\ Announces(CurrentJob.tx)
    BY <2>1 DEF Submit, CanFetch, RInv, JobsInv, CurrentJob, Jobs
  <2>3. /\ mempool' = mempool \cup {RelayOf(CurrentJob)} /\ signed' = signed /\ relayed' = relayed
    BY DEF Submit, chainVars
  <2>4. RelayOf(CurrentJob).tx = CurrentJob.tx
        /\ RelayOf(CurrentJob).destChain = CurrentJob.destChain
    BY DEF RelayOf
  <2> QED
    BY <2>2, <2>3, <2>4 DEF RInv, RelayInv
<1> QED
  BY <1>1, <1>3, <1>4, ProcessorStep DEF Submit

LEMMA StepRunFails ==
  ASSUME RInv, RunFails
  PROVE  RInv'
<1>1. JobsInv' /\ JobsKept
  BY KeepJobs DEF RInv, RunFails
<1>2. ProcessorInv' /\ RelayInv'
  BY KeepRelay DEF RInv, ProcessorInv, RunFails, chainVars
<1> QED
  BY <1>1, <1>2, ProcessorStep DEF RunFails

-----------------------------------------------------------------------------
(* The process. *)

LEMMA StepCrash ==
  ASSUME RInv, Crash
  PROVE  RInv'
<1>1. JobsInv' /\ JobsKept
  BY KeepJobs DEF RInv, Crash
<1>2. ChainInv' /\ RelayInv'
  BY KeepChain, KeepRelay DEF RInv, Crash, chainVars
<1>3. ProcessorInv'
  BY DEF ProcessorInv, Crash
<1>4. WatcherInv'
  <2>1. \A c \in Chains : Len(blocks[c]) \in Nat
    BY LenProperties DEF RInv, ChainInv
  <2>2. /\ up' = FALSE /\ cursor' = cursor /\ blocks' = blocks
        /\ fromBlock' = [c \in Chains |-> 0] /\ toBlock' = [c \in Chains |-> 0]
        /\ todo' = [c \in Chains |-> {}]
    BY DEF Crash, chainVars
  <2>3. todo' \in [Chains -> SUBSET Work]
    BY <2>2
  <2>4. fromBlock' \in [Chains -> Nat] /\ toBlock' \in [Chains -> Nat]
    BY <2>2
  <2>5. \A c \in Chains : /\ cursor'[c] <= Len(blocks'[c])
                          /\ fromBlock'[c] <= toBlock'[c]
                          /\ toBlock'[c] <= Len(blocks'[c])
    BY <2>1, <2>2 DEF RInv, WatcherInv
  <2> QED
    BY <2>2, <2>3, <2>4, <2>5 DEF RInv, WatcherInv, Work, WorkItems, Publishes
<1>5. CoverInv'
  BY SameCover DEF RInv, CoverInv, Crash, chainVars
<1> QED
  BY <1>1, <1>2, <1>3, <1>4, <1>5 DEF RInv

LEMMA StepRestart ==
  ASSUME RInv, Restart
  PROVE  RInv'
<1>1. JobsInv' /\ JobsKept
  BY KeepJobs DEF RInv, Restart
<1>2. ChainInv' /\ RelayInv'
  BY KeepChain, KeepRelay DEF RInv, Restart, chainVars
<1>3. ProcessorInv'
  <2>1. /\ up = FALSE /\ up' = TRUE /\ batch' = batch /\ stage' = stage /\ jobs' = jobs
    BY DEF Restart, RInv, WatcherInv, processorVars
  <2>2. Current' = Current
    BY <2>1 DEF Current
  <2> QED
    BY <2>1, <2>2 DEF RInv, ProcessorInv, Fresh
<1>4. WatcherInv'
  BY DEF RInv, WatcherInv, Restart, chainVars
<1>5. CoverInv'
  <2>1. \A c \in Chains : cursor[c] \in Nat
    BY DEF RInv, WatcherInv
  <2>2. \A c \in Chains : (cursor[c] + 1)..cursor[c] = {}
    BY <2>1
  <2> QED
    BY <2>2, SameCover DEF RInv, CoverInv, Restart, chainVars
<1> QED
  BY <1>1, <1>2, <1>3, <1>4, <1>5 DEF RInv

LEMMA StepStutter ==
  ASSUME RInv, UNCHANGED vars
  PROVE  RInv'
<1>1. JobsInv' /\ JobsKept /\ JobsAsBefore
  BY KeepJobs DEF RInv, vars
<1>2. ProcessorInv' /\ RelayInv'
  BY <1>1, KeepProcessor, KeepRelay DEF RInv, vars, chainVars
<1> QED
  BY <1>1, <1>2, ProcessorStep DEF vars

-----------------------------------------------------------------------------
(* The invariant of the specification. *)

LEMMA InitRInv == Init => RInv
<1> SUFFICES ASSUME Init PROVE RInv
  OBVIOUS
<1>1. jobs = <<>> /\ jobs \in Seq(Jobs) /\ DOMAIN jobs = {}
  BY EmptySeq, LenProperties DEF Init
<1>2. blocks \in [Chains -> Seq(Txs)] /\ \A c \in Chains : Len(blocks[c]) = 0
  BY EmptySeq, LenProperties DEF Init
<1>3. ChainInv
  BY <1>2 DEF Init, ChainInv
<1>4. WatcherInv
  <2>1. /\ up \in BOOLEAN /\ cursor \in [Chains -> Nat] /\ fromBlock \in [Chains -> Nat]
        /\ toBlock \in [Chains -> Nat] /\ todo \in [Chains -> SUBSET Work]
    BY DEF Init
  <2>2. \A c \in Chains : /\ cursor[c] <= Len(blocks[c]) /\ fromBlock[c] <= toBlock[c]
                          /\ toBlock[c] <= Len(blocks[c])
    BY <1>2 DEF Init
  <2> QED
    BY <2>1, <2>2 DEF WatcherInv
<1>5. JobsInv
  BY <1>1 DEF JobsInv, OneJobPerDestination
<1>6. ProcessorInv
  BY DEF Init, ProcessorInv
<1>7. RelayInv
  BY DEF Init, RelayInv
<1>8. CoverInv
  <2>1. \A c \in Chains : cursor[c] = 0 /\ fromBlock[c] = 0 /\ toBlock[c] = 0
    BY DEF Init
  <2> QED
    BY <2>1 DEF CoverInv
<1> QED
  BY <1>3, <1>4, <1>5, <1>6, <1>7, <1>8 DEF RInv

LEMMA StepRInv == RInv /\ [Next]_vars => RInv'
<1> SUFFICES ASSUME RInv, [Next]_vars PROVE RInv'
  OBVIOUS
<1>1. ASSUME NEW c \in Chains, Watch(c) PROVE RInv'
  BY <1>1, StepPoll, StepProcess, StepAdvance, StepTickFails DEF Watch
<1>2. CASE ProcessJobs
  BY <1>2, StepStartRun, StepGiveUpJob, StepTakeJob, StepSubmit, StepMarkDone, StepJobFails,
     StepRunFails DEF ProcessJobs
<1>3. CASE Environment
  BY <1>3, StepMine, StepSign, StepExecute, StepDrop DEF Environment
<1> QED
  BY <1>1, <1>2, <1>3, StepCrash, StepRestart, StepStutter DEF Next

LEMMA AlwaysRInv == Spec => []RInv
BY InitRInv, StepRInv, PTL DEF Spec

\* In every behaviour the variables have their types, the processor works on
\* jobs there are, and only a running process knows a range or a job in progress.
THEOREM TypeCorrect == Spec => []TypeOK
BY AlwaysRInv, RInvType, PTL

\* Whatever crashes, fails or is repeated, the saved cursor of a chain never
\* passes an event that has no job.
THEOREM CursorAlwaysCoversJobs == Spec => []CursorCoversJobs
BY AlwaysRInv, RInvCovers, PTL

\* There is never a second job for a transaction and a destination.
THEOREM AlwaysOneJob == Spec => []OneJobPerDestination
<1>1. RInv => OneJobPerDestination
  BY DEF RInv, JobsInv
<1> QED
  BY <1>1, AlwaysRInv, PTL

-----------------------------------------------------------------------------
(* The jobs implement the abstract queue. *)

LEMMA SameQueue ==
  ASSUME UNCHANGED jobs
  PROVE  UNCHANGED AbstractQueue
BY DEF AbstractQueue, JobsFor

\* A failed attempt that leaves the job open changes nothing in the queue.
LEMMA SetToSame ==
  ASSUME NEW key \in Txs \X Chains, QueueSet(key, AbstractQueue[key])
  PROVE  UNCHANGED AbstractQueue
<1> DEFINE q == AbstractQueue
<1>1. q = [k \in Txs \X Chains |-> q[k]]
  BY DEF AbstractQueue
<1>2. q' = [q EXCEPT ![key] = q[key]]
  BY DEF QueueSet
<1> HIDE DEF q
<1>3. [q EXCEPT ![key] = q[key]] = q
  BY <1>1
<1>4. q' = q
  BY <1>2, <1>3
<1> QED
  BY <1>4 DEF q

LEMMA QueueWatch ==
  ASSUME RInv, NEW c \in Chains, Watch(c)
  PROVE  [Q!Next]_AbstractQueue
<1>1. CASE Process(c)
  <2>1. Enqueued
    BY <1>1, ProcessJobsKept
  <2>2. ASSUME NEW key \in Txs \X Chains, AbstractQueue[key] = Q!None,
               QueueSet(key, [state |-> "open", attempts |-> 0])
        PROVE  Q!Next
    BY <2>2 DEF QueueSet, Q!Next, Q!Enqueue, Q!Set
  <2> QED
    BY <2>1, <2>2, SameQueue DEF Enqueued
<1>2. CASE ~ Process(c)
  <2>1. UNCHANGED jobs
    BY <1>2 DEF Watch, Poll, SaveLastIndexedBlock, SaveFails, TickFails
  <2> QED
    BY <2>1, SameQueue
<1> QED
  BY <1>1, <1>2

\* What the queue has for the job at hand.
LEMMA QueueAtHand ==
  ASSUME RInv, batch # {}
  PROVE  AbstractQueue[KeyOf(CurrentJob)] = [state |-> "open", attempts |-> CurrentJob.attempts]
<1>1. /\ Current.job \in DOMAIN jobs /\ CurrentJob.status \in Open
  BY AtHand
<1>2. AbstractQueue[KeyOf(CurrentJob)] = Entry(CurrentJob)
  BY <1>1, QueueOfJobs DEF RInv, CurrentJob
<1> QED
  BY <1>1, <1>2 DEF Entry, StateOf, Open

LEMMA QueueProcessor ==
  ASSUME RInv, ProcessJobs
  PROVE  [Q!Next]_AbstractQueue
<1> DEFINE key == KeyOf(CurrentJob)
           n == CurrentJob.attempts
<1>1. CASE StartRun \/ Submit \/ RunFails
  BY <1>1, SameQueue DEF StartRun, Submit, RunFails
<1>2. CASE GiveUpJob
  <2>1. batch # {} /\ stage = "idle" /\ Mark(Current.job, "FAILED")
        /\ Current.attempts >= MAX_ATTEMPTS
    BY <1>2 DEF GiveUpJob, AttemptsUsedUp
  <2>2. n \in Nat /\ n = MAX_ATTEMPTS
    <3>1. n = Current.attempts /\ Current.attempts \in Nat /\ n <= MAX_ATTEMPTS
      BY <2>1, AtHand
    <3> HIDE DEF n
    <3> QED
      BY <2>1, <3>1, NumbersAssumption
  <2>3. /\ AbstractQueue[key] = [state |-> "open", attempts |-> n] /\ key \in Txs \X Chains
        /\ QueueSet(key, [state |-> "failed", attempts |-> n])
    BY <2>1, QueueAtHand, MarkStep DEF Statuses, StateOf, Open
  <2> HIDE DEF key, n
  <2>4. AbstractQueue[key].state = "open" /\ AbstractQueue[key].attempts = n
    BY <2>3
  <2>5. Q!GiveUp(key)
    BY <2>2, <2>3, <2>4 DEF QueueSet, Q!GiveUp, Q!Set
  <2> QED
    BY <2>3, <2>5 DEF Q!Next
<1>3. CASE TakeJob
  <2>1. batch # {}
    BY <1>3 DEF TakeJob
  <2>2. /\ AbstractQueue[key] = [state |-> "open", attempts |-> n] /\ key \in Txs \X Chains
        /\ n < MAX_ATTEMPTS /\ QueueSet(key, [state |-> "open", attempts |-> n + 1])
    BY <1>3, <2>1, QueueAtHand, TakeJobStep
  <2> HIDE DEF key, n
  <2>3. AbstractQueue[key].state = "open" /\ AbstractQueue[key].attempts = n
    BY <2>2
  <2>4. Q!Attempt(key)
    BY <2>2, <2>3 DEF QueueSet, Q!Attempt, Q!Set
  <2> QED
    BY <2>2, <2>4 DEF Q!Next
<1>4. CASE MarkDone
  <2>1. batch # {} /\ stage # "idle" /\ Mark(Current.job, "DONE")
    BY <1>4 DEF MarkDone, RInv, ProcessorInv
  <2>2. n > 0
    BY <2>1, AtHand
  <2>3. /\ AbstractQueue[key] = [state |-> "open", attempts |-> n] /\ key \in Txs \X Chains
        /\ QueueSet(key, [state |-> "done", attempts |-> n])
    BY <2>1, QueueAtHand, MarkStep DEF Statuses, StateOf, Open
  <2> HIDE DEF key, n
  <2>4. AbstractQueue[key].state = "open" /\ AbstractQueue[key].attempts = n
    BY <2>3
  <2>5. Q!Finish(key)
    BY <2>2, <2>3, <2>4 DEF QueueSet, Q!Finish, Q!Set
  <2> QED
    BY <2>3, <2>5 DEF Q!Next
<1>5. CASE JobFails
  <2>1. batch # {} /\ stage # "idle"
    BY <1>5 DEF JobFails, RInv, ProcessorInv
  <2>2. n \in Nat /\ n = Current.attempts + 1 /\ n <= MAX_ATTEMPTS
    <3>1. CurrentJob.attempts \in Nat
      BY <2>1, AtHand DEF Jobs
    <3> QED
      BY <2>1, <3>1, AtHand
  <2>3. AbstractQueue[key] = [state |-> "open", attempts |-> n]
    BY <2>1, QueueAtHand
  <2>4. CASE AttemptsUsedUp(Current.attempts + 1)
    <3>1. Mark(Current.job, "FAILED")
      BY <1>5, <2>4 DEF JobFails
    <3>2. key \in Txs \X Chains /\ QueueSet(key, [state |-> "failed", attempts |-> n])
      BY <2>1, <3>1, MarkStep DEF Statuses, StateOf, Open
    <3> HIDE DEF key, n
    <3>3. n = MAX_ATTEMPTS
      BY <2>2, <2>4, NumbersAssumption DEF AttemptsUsedUp
    <3>4. AbstractQueue[key].state = "open" /\ AbstractQueue[key].attempts = n
      BY <2>3
    <3>5. Q!GiveUp(key)
      BY <3>2, <3>3, <3>4 DEF QueueSet, Q!GiveUp, Q!Set
    <3> QED
      BY <3>2, <3>5 DEF Q!Next
  <2>5. CASE ~ AttemptsUsedUp(Current.attempts + 1)
    <3>1. Mark(Current.job, "PENDING")
      BY <1>5, <2>5 DEF JobFails
    <3>2. key \in Txs \X Chains /\ QueueSet(key, [state |-> "open", attempts |-> n])
      BY <2>1, <3>1, MarkStep DEF Statuses, StateOf, Open
    <3>3. QueueSet(key, AbstractQueue[key])
      BY <2>3, <3>2
    <3> QED
      BY <3>2, <3>3, SetToSame
  <2> QED
    BY <2>4, <2>5
<1> QED
  BY <1>1, <1>2, <1>3, <1>4, <1>5 DEF ProcessJobs

LEMMA QueueInit == Init => Q!Init
<1> SUFFICES ASSUME Init PROVE Q!Init
  OBVIOUS
<1>1. DOMAIN jobs = {}
  BY EmptySeq, LenProperties DEF Init
<1>2. \A key \in Txs \X Chains : JobsFor(key) = {}
  BY <1>1 DEF JobsFor
<1> QED
  BY <1>2 DEF Q!Init, Q!None, AbstractQueue

LEMMA StepQueue == RInv /\ [Next]_vars => [Q!Next]_AbstractQueue
<1> SUFFICES ASSUME RInv, [Next]_vars PROVE [Q!Next]_AbstractQueue
  OBVIOUS
<1>1. CASE \E c \in Chains : Watch(c)
  BY <1>1, QueueWatch
<1>2. CASE ProcessJobs
  BY <1>2, QueueProcessor
<1>3. CASE Environment \/ Crash \/ Restart \/ UNCHANGED vars
  <2>1. UNCHANGED jobs
    BY <1>3 DEF Environment, Mine, Sign, Execute, Drop, Crash, Restart, vars
  <2> QED
    BY <2>1, SameQueue
<1> QED
  BY <1>1, <1>2, <1>3 DEF Next

\* The relayer's jobs, with its query snapshots, crashes and failed writes, are
\* a queue in which a job is attempted at most MAX_ATTEMPTS times and stays done
\* or failed.
THEOREM RelayerImplementsQueue == Spec => ImplementsQueue
<1>1. RInv /\ [Next]_vars => [Q!Next]_AbstractQueue
  BY StepQueue
<1> QED
  BY <1>1, QueueInit, AlwaysRInv, PTL DEF Spec, ImplementsQueue, Q!Spec

=============================================================================
