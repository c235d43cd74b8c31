------------------------------- MODULE Relayer -------------------------------
(***************************************************************************)
(* The relayer (src/relayer/src): one process with a watcher per chain and *)
(* one job processor.  A watcher reads the events of a range of blocks,    *)
(* writes receipts to Firestore, queues a job for every update or payment  *)
(* another chain must hear of, and then saves the end of the range as its  *)
(* cursor.  The processor takes the open jobs one after the other, fetches *)
(* what the networks signed, submits it, and marks the job.  Firestore     *)
(* survives a crash; everything else the process knows does not.  Each     *)
(* action is what runs between two awaits that matter; any await may fail. *)
(***************************************************************************)
EXTENDS Integers, Sequences, FiniteSets

CONSTANTS
  Chains,        \* ALL_CHAINS
  UnknownChain,  \* a chain of the contracts that is not one of them
  Txs,           \* transactions on those chains
  SourceChain,   \* the chain of each transaction
  EventsOf,      \* the contract events of each transaction, in log order
  Payables,
  HasWormhole,   \* the chains with hasWormhole
  HasCctp,       \* the chains with hasCctp
  BatchSize,     \* blocks per getLogs call (500)
  MAX_ATTEMPTS   \* 5

\* In the order in which a watcher goes through them.
EventKinds ==
  <<"CreatedPayable", "UserPaid", "PayableReceived", "Withdrew", "PayableUpdateBroadcasted">>

\* payableChain matters to UserPaid only: the chain the money is for.
Events ==
  [kind: {EventKinds[n] : n \in DOMAIN EventKinds},
   payable: Payables, payableChain: Chains \cup {UnknownChain}]

ASSUME ChainsAssumption ==
  /\ HasWormhole \subseteq Chains
  /\ HasCctp \subseteq Chains
  /\ UnknownChain \notin Chains
ASSUME TxsAssumption ==
  /\ SourceChain \in [Txs -> Chains]
  /\ EventsOf \in [Txs -> Seq(Events)]
ASSUME NumbersAssumption == BatchSize \in Nat \ {0} /\ MAX_ATTEMPTS \in Nat \ {0}

VARIABLES
  blocks,     \* the transactions mined on each chain, one per block
  up,         \* whether the process runs
  cursor,     \* /relayerCursors: the last block saved for each chain
  fromBlock,  \* the watcher's own copy of it
  toBlock,    \* the end of the range being processed
  todo,       \* the work left of that range
  receipts,   \* Firestore documents: <<transaction, event index, path>>
  jobs,       \* /relayerJobs, by createdAt
  batch,      \* what is left of the processor's query result
  stage,      \* how far the processor is with the first of them
  signed,     \* transactions whose messages the networks have signed
  mempool,    \* relay transactions submitted and not yet mined
  relayed     \* messages that took effect, by destination

chainVars == <<blocks, signed>>
watcherVars == <<cursor, fromBlock, toBlock, todo, receipts>>
processorVars == <<batch, stage>>
destVars == <<mempool, relayed>>
vars == <<chainVars, up, watcherVars, jobs, processorVars, destVars>>

Statuses == {"PENDING", "PROCESSING", "DONE", "FAILED"}
Open == {"PENDING", "PROCESSING"}
JobTypes == {"PAYABLE_UPDATE_VIA_WORMHOLE", "PAYABLE_UPDATE_VIA_CCTP", "PAYMENT_VIA_CIRCLE"}
Jobs ==
  [type: JobTypes, tx: Txs, destChain: Chains, status: Statuses, attempts: Nat]
Paths == {"top", "chain"}
WorkItems ==
  [op: {"index", "queue"}, tx: Txs, event: Nat \ {0}, destChain: Chains]

Init ==
  /\ blocks = [c \in Chains |-> <<>>]
  /\ up = TRUE
  /\ cursor = [c \in Chains |-> 0]
  /\ fromBlock = [c \in Chains |-> 0]
  /\ toBlock = [c \in Chains |-> 0]
  /\ todo = [c \in Chains |-> {}]
  /\ receipts = {}
  /\ jobs = <<>>
  /\ batch = {}
  /\ stage = "idle"
  /\ signed = {}
  /\ mempool = {}
  /\ relayed = [c \in Chains |-> {}]

-----------------------------------------------------------------------------
(* The chains and the networks (external).                                 *)

Mined == UNION {{blocks[c][n] : n \in DOMAIN blocks[c]} : c \in Chains}

Mine(tx) ==
  /\ tx \notin Mined
  /\ blocks' = [blocks EXCEPT ![SourceChain[tx]] = Append(blocks[SourceChain[tx]], tx)]
  /\ UNCHANGED <<up, watcherVars, jobs, processorVars, signed, destVars>>

\* Guardians and Circle sign what a mined transaction published.
Sign(tx) ==
  /\ tx \in Mined \ signed
  /\ signed' = signed \cup {tx}
  /\ UNCHANGED <<blocks, up, watcherVars, jobs, processorVars, destVars>>

-----------------------------------------------------------------------------
(* The watcher of one chain (watchers.ts).                                 *)

\* What there is to do about an event: write its receipt, or queue a job for
\* a destination.
IndexTask(tx, i) == [op |-> "index", tx |-> tx, event |-> i, destChain |-> SourceChain[tx]]
QueueTask(tx, i, destChain) == [op |-> "queue", tx |-> tx, event |-> i, destChain |-> destChain]

\* A broadcast is fanned out to every other chain; a payment to a payable of
\* another known chain goes there, after its receipt.
Tasks(tx, i) ==
  LET event == EventsOf[tx][i]
      others == Chains \ {SourceChain[tx]}
  IN CASE event.kind = "PayableUpdateBroadcasted" -> {QueueTask(tx, i, d) : d \in others}
       [] event.kind = "UserPaid" /\ event.payableChain \in others ->
            {IndexTask(tx, i), QueueTask(tx, i, event.payableChain)}
       [] OTHER -> {IndexTask(tx, i)}

ReadLogs(c, first, last) ==
  UNION {UNION {Tasks(blocks[c][n], i) : i \in DOMAIN EventsOf[blocks[c][n]]} : n \in first..last}

\* The work of a range goes kind by kind, each in chain order; the destinations
\* of a broadcast come in whatever order ALL_CHAINS lists them.
Height(tx) == CHOOSE n \in DOMAIN blocks[SourceChain[tx]] : blocks[SourceChain[tx]][n] = tx
Rank(task) ==
  CHOOSE n \in DOMAIN EventKinds : EventKinds[n] = EventsOf[task.tx][task.event].kind
Position(task) ==
  <<Rank(task), Height(task.tx), task.event, IF task.op = "index" THEN 0 ELSE 1>>
Before(task, other) ==
  \E n \in 1..4 : /\ Position(task)[n] < Position(other)[n]
                  /\ \A m \in 1..(n - 1) : Position(task)[m] = Position(other)[m]

Least(a, b) == IF a < b THEN a ELSE b

Polling(c) == up /\ toBlock[c] = fromBlock[c]
Working(c) == up /\ toBlock[c] > fromBlock[c]

\* getBlockNumber and getLogs, at most BatchSize blocks.
Poll(c) ==
  LET last == Least(Len(blocks[c]), fromBlock[c] + BatchSize) IN
  /\ Polling(c)
  /\ Len(blocks[c]) > fromBlock[c]
  /\ toBlock' = [toBlock EXCEPT ![c] = last]
  /\ todo' = [todo EXCEPT ![c] = ReadLogs(c, fromBlock[c] + 1, last)]
  /\ UNCHANGED <<chainVars, up, cursor, fromBlock, receipts, jobs, processorVars, destVars>>

\* Mutant: only an open job counts.
OpenJobExistsForTx(tx, destChain) ==
  \E j \in DOMAIN jobs :
    jobs[j].tx = tx /\ jobs[j].destChain = destChain /\ jobs[j].status \in Open

\* jobExistsForTx: one job per transaction and destination.
JobExistsForTx(tx, destChain) ==
  \E j \in DOMAIN jobs : jobs[j].tx = tx /\ jobs[j].destChain = destChain

\* Which job, if any, carries an event to a destination.
JobType(tx, i, destChain) ==
  IF EventsOf[tx][i].kind = "UserPaid" THEN "PAYMENT_VIA_CIRCLE"
  ELSE IF {SourceChain[tx], destChain} \subseteq HasWormhole THEN "PAYABLE_UPDATE_VIA_WORMHOLE"
  ELSE IF {SourceChain[tx], destChain} \subseteq HasCctp THEN "PAYABLE_UPDATE_VIA_CCTP"
  ELSE "NONE"

\* createJob: a new PENDING document, unless there is one or no protocol.
QueueJob(task) ==
  LET type == JobType(task.tx, task.event, task.destChain) IN
  IF type = "NONE" \/ JobExistsForTx(task.tx, task.destChain)
  THEN UNCHANGED jobs
  ELSE jobs' = Append(jobs, [type |-> type, tx |-> task.tx, destChain |-> task.destChain,
                             status |-> "PENDING", attempts |-> 0])

\* Writing a receipt fails as a whole or for one of its two paths; whatever
\* happens is logged and the watcher goes on.
WriteReceipt(task) ==
  \E written \in SUBSET Paths :
    receipts' = receipts \cup {<<task.tx, task.event, path>> : path \in written}

Process(c) ==
  /\ Working(c)
  /\ \E task \in todo[c] :
       /\ \A other \in todo[c] : ~ Before(other, task)
       /\ \/ task.op = "index" /\ WriteReceipt(task) /\ UNCHANGED jobs
          \/ task.op = "queue" /\ QueueJob(task) /\ UNCHANGED receipts
       /\ todo' = [todo EXCEPT ![c] = todo[c] \ {task}]
  /\ UNCHANGED <<chainVars, up, cursor, fromBlock, toBlock, processorVars, destVars>>

\* Mutant: the range is taken as done while some of it is still to do.
AdvanceEarly(c) ==
  /\ Working(c)
  /\ fromBlock' = [fromBlock EXCEPT ![c] = toBlock[c]]

\* fromBlock = toBlock, in memory.
Advance(c) ==
  /\ Working(c)
  /\ todo[c] = {}
  /\ fromBlock' = [fromBlock EXCEPT ![c] = toBlock[c]]

\* The range is done and its end is saved.
SaveLastIndexedBlock(c) ==
  /\ Advance(c)
  /\ cursor' = [cursor EXCEPT ![c] = toBlock[c]]
  /\ UNCHANGED <<chainVars, up, toBlock, todo, receipts, jobs, processorVars, destVars>>

\* The range is done but saving its end throws: the next one starts after it.
SaveFails(c) ==
  /\ Advance(c)
  /\ UNCHANGED <<chainVars, up, cursor, toBlock, todo, receipts, jobs, processorVars, destVars>>

\* A call to Firestore about a job throws: the range starts over.
TickFails(c) ==
  /\ Working(c)
  /\ todo[c] # {}
  /\ toBlock' = [toBlock EXCEPT ![c] = fromBlock[c]]
  /\ todo' = [todo EXCEPT ![c] = {}]
  /\ UNCHANGED <<chainVars, up, cursor, fromBlock, receipts, jobs, processorVars, destVars>>

-----------------------------------------------------------------------------
(* The job processor (jobs/processor.ts).                                  *)

Mark(j, status) == jobs' = [jobs EXCEPT ![j] = [jobs[j] EXCEPT !.status = status]]

Snapshot(statuses) ==
  {[job |-> j, attempts |-> jobs[j].attempts] :
     j \in {k \in DOMAIN jobs : jobs[k].status \in statuses}}

\* Mutant: stale PROCESSING jobs are not picked up.
PendingJobsOnly == Snapshot({"PENDING"})

\* getPendingJobs: the open jobs, with the attempts they had then.
PendingJobs == Snapshot(Open)

\* They come in the order of their creation.
Current == CHOOSE entry \in batch : \A other \in batch : entry.job <= other.job

StartRun ==
  /\ up
  /\ stage = "idle"
  /\ batch = {}
  /\ PendingJobs # {}
  /\ batch' = PendingJobs
  /\ UNCHANGED <<chainVars, up, watcherVars, jobs, stage, destVars>>

\* Mutant: one attempt too many.
AttemptsExceeded(attempts) == attempts > MAX_ATTEMPTS

AttemptsUsedUp(attempts) == attempts >= MAX_ATTEMPTS

\* Failed without another attempt.
GiveUpJob ==
  /\ up
  /\ stage = "idle"
  /\ batch # {}
  /\ AttemptsUsedUp(Current.attempts)
  /\ Mark(Current.job, "FAILED")
  /\ batch' = batch \ {Current}
  /\ UNCHANGED <<chainVars, up, watcherVars, stage, destVars>>

MarkProcessing(j) ==
  jobs' = [jobs EXCEPT ![j] =
             [jobs[j] EXCEPT !.status = "PROCESSING", !.attempts = jobs[j].attempts + 1]]

TakeJob ==
  /\ up
  /\ stage = "idle"
  /\ batch # {}
  /\ ~ AttemptsUsedUp(Current.attempts)
  /\ MarkProcessing(Current.job)
  /\ stage' = "taken"
  /\ UNCHANGED <<chainVars, up, watcherVars, batch, destVars>>

CurrentJob == jobs[Current.job]

\* The networks are asked by transaction; of several messages the first
\* counts (messages[0] in cctp.ts, one VAA in wormhole.ts).
Publishes(event) == event.kind \in {"UserPaid", "PayableUpdateBroadcasted"}
FirstMessage(tx) ==
  CHOOSE i \in DOMAIN EventsOf[tx] :
    /\ Publishes(EventsOf[tx][i])
    /\ \A k \in DOMAIN EventsOf[tx] : Publishes(EventsOf[tx][k]) => i <= k
MessageOf(job) == <<job.tx, FirstMessage(job.tx)>>

\* A payment needs its VAA and its attestation.
CanFetch(job) ==
  /\ job.tx \in signed
  /\ job.type = "PAYMENT_VIA_CIRCLE" => SourceChain[job.tx] \in HasWormhole \cap HasCctp

\* The order of the updates of a chain is that of their nonces.
NewerUpdate(m, n) ==
  LET event(x) == EventsOf[x[1]][x[2]] IN
  /\ event(m).kind = "PayableUpdateBroadcasted"
  /\ event(n).kind = "PayableUpdateBroadcasted"
  /\ event(m).payable = event(n).payable
  /\ SourceChain[m[1]] = SourceChain[n[1]]
  /\ Height(n[1]) > Height(m[1])

\* Whether the destination contract takes the message: not twice, not after
\* a newer update, and never by receivePayableUpdateViaCircle (PayableSync).
ContractAccepts(job) ==
  /\ job.type # "PAYABLE_UPDATE_VIA_CCTP"
  /\ MessageOf(job) \notin relayed[job.destChain]
  /\ \A n \in relayed[job.destChain] : ~ NewerUpdate(MessageOf(job), n)

RelayOf(job) == [type |-> job.type, tx |-> job.tx, destChain |-> job.destChain]

\* Fetch, simulate and send; the receipt is not waited for.
Submit ==
  /\ up
  /\ stage = "taken"
  /\ CanFetch(CurrentJob)
  /\ ContractAccepts(CurrentJob)
  /\ mempool' = mempool \cup {RelayOf(CurrentJob)}
  /\ stage' = "submitted"
  /\ UNCHANGED <<chainVars, up, watcherVars, jobs, batch, relayed>>

\* Mutant: the job in progress is not put away.
NextJobAtOnce == batch' = batch \ {Current} /\ UNCHANGED stage

NextJob == batch' = batch \ {Current} /\ stage' = "idle"

MarkDone ==
  /\ up
  /\ stage = "submitted"
  /\ Mark(Current.job, "DONE")
  /\ NextJob
  /\ UNCHANGED <<chainVars, up, watcherVars, destVars>>

\* Whatever throws on the way, also after the submission, also markDone.
JobFails ==
  /\ up
  /\ stage \in {"taken", "submitted"}
  /\ Mark(Current.job,
          IF AttemptsUsedUp(Current.attempts + 1) THEN "FAILED" ELSE "PENDING")
  /\ NextJob
  /\ UNCHANGED <<chainVars, up, watcherVars, destVars>>

\* Firestore throws where the processor has no catch: the run ends.
RunFails ==
  /\ up
  /\ batch # {}
  /\ batch' = {}
  /\ stage' = "idle"
  /\ UNCHANGED <<chainVars, up, watcherVars, jobs, destVars>>

\* A relay transaction is mined, if the contract still takes it, or fails.
Execute(relay) ==
  /\ mempool' = mempool \ {relay}
  /\ relayed' = IF ContractAccepts(relay)
                THEN [relayed EXCEPT ![relay.destChain] =
                        relayed[relay.destChain] \cup {MessageOf(relay)}]
                ELSE relayed
  /\ UNCHANGED <<chainVars, up, watcherVars, jobs, processorVars>>

\* It is dropped, or runs out of gas.
Drop(relay) ==
  /\ mempool' = mempool \ {relay}
  /\ UNCHANGED <<chainVars, up, watcherVars, jobs, processorVars, relayed>>

-----------------------------------------------------------------------------
(* The process.                                                            *)

Crash ==
  /\ up
  /\ up' = FALSE
  /\ fromBlock' = [c \in Chains |-> 0]
  /\ toBlock' = [c \in Chains |-> 0]
  /\ todo' = [c \in Chains |-> {}]
  /\ batch' = {}
  /\ stage' = "idle"
  /\ UNCHANGED <<chainVars, cursor, receipts, jobs, destVars>>

\* Mutant: the watchers start at the latest block.
RestartAtLatestBlock ==
  /\ ~ up
  /\ up' = TRUE
  /\ fromBlock' = [c \in Chains |-> Len(blocks[c])]
  /\ toBlock' = [c \in Chains |-> Len(blocks[c])]
  /\ UNCHANGED <<chainVars, cursor, todo, receipts, jobs, processorVars, destVars>>

\* getLastIndexedBlock; PM2 or Cloud Run starts the process again.
Restart ==
  /\ ~ up
  /\ up' = TRUE
  /\ fromBlock' = cursor
  /\ toBlock' = cursor
  /\ UNCHANGED <<chainVars, cursor, todo, receipts, jobs, processorVars, destVars>>

Watch(c) ==
  \/ Poll(c)
  \/ Process(c)
  \/ SaveLastIndexedBlock(c)
  \/ SaveFails(c)
  \/ TickFails(c)

ProcessJobs ==
  \/ StartRun
  \/ GiveUpJob
  \/ TakeJob
  \/ Submit
  \/ MarkDone
  \/ JobFails
  \/ RunFails

Environment ==
  \/ \E tx \in Txs : Mine(tx) \/ Sign(tx)
  \/ \E relay \in mempool : Execute(relay) \/ Drop(relay)

Next ==
  \/ \E c \in Chains : Watch(c)
  \/ ProcessJobs
  \/ Environment
  \/ Crash
  \/ Restart

Spec == Init /\ [][Next]_vars

-----------------------------------------------------------------------------
(* Fairness.  Whoever runs the relayer restarts it (index.ts:9-10); the     *)
(* processor loop comes back every 30 seconds, so a run starts and takes a  *)
(* job again and again, but a crash or a failing Firestore may come in      *)
(* between as often as it likes (hence SF).  A job in progress comes to an  *)
(* end because every fetch gives up after a while.                          *)
ProcessorFairness ==
  /\ WF_vars(Restart)
  /\ SF_vars(StartRun)
  /\ SF_vars(TakeJob)
  /\ SF_vars(GiveUpJob)
  /\ WF_vars(JobFails)

\* The polling loops go on.
WatcherFairness ==
  \A c \in Chains :
    WF_vars(Poll(c)) /\ WF_vars(Process(c)) /\ WF_vars(SaveLastIndexedBlock(c))

FairSpec == Spec /\ ProcessorFairness /\ WatcherFairness

-----------------------------------------------------------------------------
(* Properties.                                                             *)

\* The variables have their types; the processor works on jobs there are, and
\* only the process that runs knows a range or a job in progress.
TypeOK ==
  /\ blocks \in [Chains -> Seq(Txs)]
  /\ up \in BOOLEAN
  /\ \A c \in Chains :
       /\ cursor[c] \in 0..Len(blocks[c])
       /\ fromBlock[c] \in 0..Len(blocks[c])
       /\ toBlock[c] \in fromBlock[c]..Len(blocks[c])
  /\ jobs \in Seq(Jobs)
  /\ \A c \in Chains : todo[c] \subseteq WorkItems
  /\ \A entry \in batch : entry.job \in DOMAIN jobs /\ entry.attempts \in Nat
  /\ stage \in {"idle", "taken", "submitted"}
  /\ stage # "idle" => up /\ batch # {}
  /\ signed \subseteq Mined
  /\ \A c \in Chains : \A m \in relayed[c] : m[1] \in signed /\ m[2] \in DOMAIN EventsOf[m[1]]

\* An event some other chain must hear of, and can be told of.
MustReach(tx, i, destChain) ==
  /\ destChain # SourceChain[tx]
  /\ JobType(tx, i, destChain) # "NONE"
  /\ \/ EventsOf[tx][i].kind = "PayableUpdateBroadcasted"
     \/ EventsOf[tx][i].kind = "UserPaid" /\ EventsOf[tx][i].payableChain = destChain

\* The saved cursor never passes a block with an event that has no job: what a
\* crash, a failed write or a repeated range leaves undone is done again
\* (watchers.ts:11-13).
CursorCoversJobs ==
  \A c \in Chains : \A n \in 1..cursor[c] :
    \A i \in DOMAIN EventsOf[blocks[c][n]], d \in Chains :
      MustReach(blocks[c][n], i, d) => JobExistsForTx(blocks[c][n], d)

\* However often a range is processed, there is one job for a transaction and
\* a destination (store.ts:123-131).
OneJobPerDestination ==
  \A i, j \in DOMAIN jobs :
    jobs[i].tx = jobs[j].tx /\ jobs[i].destChain = jobs[j].destChain => i = j

\* The jobs are the abstract queue: the first job of each key, with PENDING
\* and PROCESSING both open.
JobsFor(key) == {j \in DOMAIN jobs : jobs[j].tx = key[1] /\ jobs[j].destChain = key[2]}

StateOf(status) ==
  CASE status \in Open -> "open" [] status = "DONE" -> "done" [] status = "FAILED" -> "failed"

AbstractQueue ==
  [key \in Txs \X Chains |->
     IF JobsFor(key) = {} THEN [state |-> "none", attempts |-> 0]
     ELSE LET job == jobs[CHOOSE j \in JobsFor(key) : \A k \in JobsFor(key) : j <= k]
          IN [state |-> StateOf(job.status), attempts |-> job.attempts]]

Q == INSTANCE RelayQueue WITH Keys <- Txs \X Chains, queue <- AbstractQueue

\* The processor with its query snapshot, its crashes and its failed writes
\* implements the queue: bounded attempts, and DONE and FAILED are final.
ImplementsQueue == Q!Spec

\* Every job ends, though the process may crash again and again in the middle
\* of it (store.ts:14-16).
JobsEnd ==
  \A key \in Txs \X Chains :
    (AbstractQueue[key].state = "open") ~> (AbstractQueue[key].state \in {"done", "failed"})

\* A time comes from which the process stays up and Firestore answers the
\* watchers.
Settles == <>[]up /\ \A c \in Chains : <>[][~ TickFails(c)]_vars

\* Every event another chain must hear of gets its job once things settle,
\* whatever failed before.
EventsGetJobs ==
  Settles =>
    \A tx \in Txs, d \in Chains :
      (tx \in Mined /\ \E i \in DOMAIN EventsOf[tx] : MustReach(tx, i, d))
        ~> JobExistsForTx(tx, d)

\* "on restart the relayer resumes exactly where it left off, with zero missed
\* events" (watchers.ts:11-13): what the cursor passed has its receipts.
CursorCoversReceipts ==
  \A c \in Chains : \A n \in 1..cursor[c] :
    \A i \in DOMAIN EventsOf[blocks[c][n]] :
      EventsOf[blocks[c][n]][i].kind # "PayableUpdateBroadcasted"
        => \A path \in Paths : <<blocks[c][n], i, path>> \in receipts

=============================================================================
