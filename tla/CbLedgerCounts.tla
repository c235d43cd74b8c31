-------------------------- MODULE CbLedgerCounts ---------------------------
(***************************************************************************)
(* The ids and counters of CbLedger.  The first part shows that activity    *)
(* ids match their counters: every count is the number of ids it numbers,   *)
(* so that the id a call issues next is fresh (IdsInv).                     *)
(*                                                                         *)
(* The second part shows that the chain-wide counters are the sums of the   *)
(* users' and of the payables' own (CountInv): each call adds the same to   *)
(* one user and to the chain (UserGrows), and the same to one payable and   *)
(* to the chain (PayableGrows), so that both sides of each sum grow alike.  *)
(* The lemmas about the sums themselves are in Sums.                        *)
(***************************************************************************)
EXTENDS CbLedgerProofs, Sums

-----------------------------------------------------------------------------
(* Activities.  Every count is the number of ids it numbers: what has been *)
(* issued to a user are its numbers up to its count, to a payable no       *)
(* number above its count, so that the next one of either is fresh.        *)

\* ids, as issued under the counts uc of users and pc of payables, n in all,
\* and the lists of the payables.
Issued(ids, uc, pc, n) ==
  /\ uc \in [Users -> Nat] /\ pc \in [PayableIds -> Nat] /\ n \in Nat
  /\ IsFiniteSet(ids) /\ Cardinality(ids) = n
  /\ \A u \in Users : uc[u] <= n
  /\ \A u \in Users, k \in Nat : UserActivity(u, k) \in ids <=> k \in 1..uc[u]
  /\ \A p \in PayableIds, k \in Nat : PayableActivity(p, k) \in ids => k <= pc[p]

Listed(lists, ids, pc) ==
  /\ lists = [p \in PayableIds |-> lists[p]]
  /\ \A p \in PayableIds :
       /\ IsFiniteSet(lists[p]) /\ Cardinality(lists[p]) = pc[p]
       /\ lists[p] \subseteq ids

OneMore(f, x) == [f EXCEPT ![x] = f[x] + 1]
With(lists, p, id) == [lists EXCEPT ![p] = lists[p] \union {id}]

LEMMA OneMoreType ==
  ASSUME NEW S, NEW f \in [S -> Nat], NEW x \in S
  PROVE  /\ OneMore(f, x) \in [S -> Nat]
         /\ OneMore(f, x)[x] = f[x] + 1
         /\ \A y \in S : y # x => OneMore(f, x)[y] = f[y]
BY DEF OneMore

LEMMA UserIssued ==
  ASSUME NEW ids, NEW uc, NEW pc, NEW n, Issued(ids, uc, pc, n), NEW u \in Users
  PROVE  LET id == UserActivity(u, uc[u] + 1) IN
         /\ id \notin ids
         /\ Issued(ids \union {id}, OneMore(uc, u), pc, n + 1)
<1> DEFINE m == uc[u] + 1
           id == UserActivity(u, m)
           more == OneMore(uc, u)
           all == ids \union {id}
<1>1. uc \in [Users -> Nat] /\ pc \in [PayableIds -> Nat] /\ n \in Nat
  BY DEF Issued
<1>2. m \in Nat /\ m \notin 1..uc[u] /\ uc[u] \in Nat /\ m = uc[u] + 1
  BY <1>1
<1>3. id \notin ids
  BY <1>2 DEF Issued
<1>4. IsFiniteSet(all) /\ Cardinality(all) = n + 1
  BY <1>3, FS_AddElement DEF Issued
<1>5. /\ more \in [Users -> Nat]
      /\ more[u] = m
      /\ \A v \in Users : v # u => more[v] = uc[v]
  BY <1>1, OneMoreType
<1> HIDE DEF more, m
<1>6. \A v \in Users : more[v] <= n + 1
  BY <1>1, <1>2, <1>5 DEF Issued
<1>7. ASSUME NEW v \in Users, NEW k \in Nat
      PROVE  UserActivity(v, k) \in all <=> k \in 1..more[v]
  <2>1. UserActivity(v, k) \in ids <=> k \in 1..uc[v]
    BY DEF Issued
  <2>2. UserActivity(v, k) = id <=> v = u /\ k = m
    BY DEF UserActivity
  <2>3. CASE v = u
    BY <1>2, <1>5, <2>1, <2>2, <2>3
  <2>4. CASE v # u
    BY <1>5, <2>1, <2>2, <2>4
  <2> QED
    BY <2>3, <2>4
<1>8. ASSUME NEW p \in PayableIds, NEW k \in Nat, PayableActivity(p, k) \in all
      PROVE  k <= pc[p]
  <2>1. PayableActivity(p, k) # id
    BY DEF PayableActivity, UserActivity
  <2> QED
    BY <1>8, <2>1 DEF Issued
<1>9. n + 1 \in Nat
  BY <1>1
<1>10. Issued(all, more, pc, n + 1)
  BY <1>1, <1>4, <1>5, <1>6, <1>7, <1>8, <1>9 DEF Issued
<1> QED
  BY <1>3, <1>10 DEF more, m

LEMMA PayableCounted ==
  ASSUME NEW ids, NEW uc, NEW pc, NEW n, Issued(ids, uc, pc, n), NEW p \in PayableIds
  PROVE  Issued(ids, uc, OneMore(pc, p), n)
<1> DEFINE more == OneMore(pc, p)
<1>1. pc \in [PayableIds -> Nat]
  BY DEF Issued
<1>2. /\ more \in [PayableIds -> Nat]
      /\ more[p] = pc[p] + 1
      /\ \A q \in PayableIds : q # p => more[q] = pc[q]
  BY <1>1, OneMoreType
<1> HIDE DEF more
<1>3. ASSUME NEW q \in PayableIds PROVE pc[q] <= more[q] /\ pc[q] \in Nat /\ more[q] \in Nat
  BY <1>1, <1>2
<1>4. ASSUME NEW q \in PayableIds, NEW k \in Nat, PayableActivity(q, k) \in ids
      PROVE  k <= more[q]
  <2>1. k <= pc[q]
    BY <1>4 DEF Issued
  <2> QED
    BY <1>3, <2>1
<1>5. Issued(ids, uc, more, n)
  BY <1>2, <1>4 DEF Issued
<1> QED
  BY <1>5 DEF more

LEMMA PayableIssued ==
  ASSUME NEW ids, NEW uc, NEW pc, NEW n, Issued(ids, uc, pc, n), NEW p \in PayableIds
  PROVE  LET id == PayableActivity(p, pc[p] + 1) IN
         /\ id \notin ids
         /\ Issued(ids \union {id}, uc, OneMore(pc, p), n + 1)
<1> DEFINE m == pc[p] + 1
           id == PayableActivity(p, m)
           more == OneMore(pc, p)
           all == ids \union {id}
<1>1. uc \in [Users -> Nat] /\ pc \in [PayableIds -> Nat] /\ n \in Nat
  BY DEF Issued
<1>2. m \in Nat /\ ~ (m <= pc[p]) /\ pc[p] \in Nat
  BY <1>1
<1>3. id \notin ids
  BY <1>2 DEF Issued
<1>4. IsFiniteSet(all) /\ Cardinality(all) = n + 1
  BY <1>3, FS_AddElement DEF Issued
<1>5. Issued(ids, uc, more, n) /\ more[p] = m /\ more \in [PayableIds -> Nat]
  BY <1>1, PayableCounted, OneMoreType
<1> HIDE DEF more, m
<1>6. ASSUME NEW v \in Users PROVE uc[v] <= n + 1
  <2>1. uc[v] <= n /\ uc[v] \in Nat
    BY <1>1 DEF Issued
  <2> QED
    BY <1>1, <2>1
<1>7. ASSUME NEW v \in Users, NEW k \in Nat
      PROVE  UserActivity(v, k) \in all <=> k \in 1..uc[v]
  <2>1. UserActivity(v, k) # id
    BY DEF PayableActivity, UserActivity
  <2> QED
    BY <2>1 DEF Issued
<1>8. ASSUME NEW q \in PayableIds, NEW k \in Nat, PayableActivity(q, k) \in all
      PROVE  k <= more[q]
  <2>1. CASE PayableActivity(q, k) \in ids
    BY <1>5, <2>1 DEF Issued
  <2>2. CASE PayableActivity(q, k) = id
    <3>1. q = p /\ k = m
      BY <2>2 DEF PayableActivity
    <3> QED
      BY <1>2, <1>5, <3>1
  <2> QED
    BY <1>8, <2>1, <2>2
<1>9. n + 1 \in Nat
  BY <1>1
<1>10. Issued(all, uc, more, n + 1)
  BY <1>1, <1>4, <1>5, <1>6, <1>7, <1>8, <1>9 DEF Issued
<1> QED
  BY <1>3, <1>10 DEF more, m

LEMMA ListedOneMore ==
  ASSUME NEW lists, NEW ids, NEW pc \in [PayableIds -> Nat], Listed(lists, ids, pc),
         NEW p \in PayableIds, NEW id, id \notin ids
  PROVE  Listed(With(lists, p, id), ids \union {id}, OneMore(pc, p))
<1> DEFINE more == OneMore(pc, p)
           new == With(lists, p, id)
<1>1. /\ more[p] = pc[p] + 1
      /\ \A q \in PayableIds : q # p => more[q] = pc[q]
  BY OneMoreType
<1>2. lists = [q \in PayableIds |-> lists[q]]
  BY DEF Listed
<1>3. /\ new = [q \in PayableIds |-> new[q]]
      /\ new[p] = lists[p] \union {id}
      /\ \A q \in PayableIds : q # p => new[q] = lists[q]
  BY <1>2 DEF With
<1> HIDE DEF more, new
<1>4. /\ IsFiniteSet(lists[p]) /\ Cardinality(lists[p]) = pc[p]
      /\ id \notin lists[p]
  BY DEF Listed
<1>5. IsFiniteSet(new[p]) /\ Cardinality(new[p]) = pc[p] + 1
  BY <1>3, <1>4, FS_AddElement
<1>6. Listed(new, ids \union {id}, more)
  <2> SUFFICES ASSUME NEW q \in PayableIds
               PROVE  /\ IsFiniteSet(new[q]) /\ Cardinality(new[q]) = more[q]
                      /\ new[q] \subseteq ids \union {id}
    BY <1>3 DEF Listed
  <2>1. CASE q = p
    BY <1>1, <1>3, <1>5, <2>1 DEF Listed
  <2>2. CASE q # p
    BY <1>1, <1>3, <2>2 DEF Listed
  <2> QED
    BY <2>1, <2>2
<1> QED
  BY <1>6 DEF more, new

LEMMA ListedAmongMore ==
  ASSUME NEW lists, NEW ids, NEW pc, Listed(lists, ids, pc), NEW more, ids \subseteq more
  PROVE  Listed(lists, more, pc)
BY DEF Listed

-----------------------------------------------------------------------------
(* The invariant of the ledger's ids, and how its records change.           *)

UserCounts == [u \in Users |-> users[u].activitiesCount]
PayableCounts == [p \in PayableIds |-> payables[p].activitiesCount]

Activities ==
  /\ Issued(activityIds, UserCounts, PayableCounts, chainStats.activitiesCount)
  /\ Listed(payableActivityIds, activityIds, PayableCounts)

\* Who was never initialized has no activity, hosts are initialized, payables
\* that do not exist have no activity, and a withdrawal is of one that does.
Known ==
  /\ \A u \in Users : users[u].chainCount = 0 => users[u].activitiesCount = 0
  /\ \A p \in PayableIds : Exists(p) => users[payables[p].host].chainCount # 0
  /\ \A p \in PayableIds : ~ Exists(p) => payables[p].activitiesCount = 0
Hosted == calls # <<>> => Exists(Head(calls).payable)

IdsInv == EInv /\ Activities /\ Known /\ Hosted

LEMMA IdsMatch == IdsInv => ActivityIdsMatchCounters
<1> SUFFICES ASSUME IdsInv PROVE ActivityIdsMatchCounters
  OBVIOUS
<1> DEFINE n == chainStats.activitiesCount
<1>1. /\ Issued(activityIds, UserCounts, PayableCounts, n)
      /\ Listed(payableActivityIds, activityIds, PayableCounts)
  BY DEF IdsInv, Activities
<1> HIDE DEF n
<1>2. ASSUME NEW u \in Users
      PROVE  {k \in 1..n : UserActivity(u, k) \in activityIds} = 1..users[u].activitiesCount
  <2>1. UserCounts[u] = users[u].activitiesCount /\ UserCounts[u] \in Nat /\ UserCounts[u] <= n
        /\ n \in Nat
    BY <1>1 DEF Issued, UserCounts
  <2>2. \A k \in Nat : UserActivity(u, k) \in activityIds <=> k \in 1..UserCounts[u]
    BY <1>1 DEF Issued
  <2> QED
    BY <2>1, <2>2
<1>3. ASSUME NEW p \in PayableIds
      PROVE  /\ Cardinality(payableActivityIds[p]) = payables[p].activitiesCount
             /\ payableActivityIds[p] \subseteq activityIds
  BY <1>1 DEF Listed, PayableCounts
<1>4. Cardinality(activityIds) = n
  BY <1>1 DEF Issued
<1> QED
  BY <1>2, <1>3, <1>4 DEF ActivityIdsMatchCounters, n

LEMMA InitIds == Init => IdsInv
<1> SUFFICES ASSUME Init PROVE IdsInv
  OBVIOUS
<1>1. EInv
  BY InitEscrow
<1>2. UserCounts = [u \in Users |-> 0] /\ PayableCounts = [p \in PayableIds |-> 0]
  BY DEF Init, UserCounts, PayableCounts, NoUserYet, NoPayable
<1>3. /\ activityIds = {} /\ chainStats.activitiesCount = 0
      /\ payableActivityIds = [p \in PayableIds |-> {}]
  BY DEF Init, NoStats
<1>4. IsFiniteSet({}) /\ Cardinality({}) = 0
  BY FS_EmptySet
<1>5. Issued(activityIds, UserCounts, PayableCounts, chainStats.activitiesCount)
  BY <1>2, <1>3, <1>4 DEF Issued
<1>6. Listed(payableActivityIds, activityIds, PayableCounts)
  BY <1>2, <1>3, <1>4 DEF Listed
<1>7. Known /\ Hosted
  BY DEF Init, Known, Hosted, Exists, NoUserYet, NoPayable
<1> QED
  BY <1>1, <1>5, <1>6, <1>7 DEF IdsInv, Activities

\* The fields that matter here of the records that calls write.
LEMMA UserRecords ==
  ASSUME NEW r \in User, NEW n \in Nat
  PROVE  /\ [r EXCEPT !.activitiesCount = n].activitiesCount = n
         /\ [r EXCEPT !.activitiesCount = n].chainCount = r.chainCount
         /\ [r EXCEPT !.payablesCount = @ + 1, !.activitiesCount = n].activitiesCount = n
         /\ [r EXCEPT !.payablesCount = @ + 1, !.activitiesCount = n].chainCount = r.chainCount
         /\ [r EXCEPT !.paymentsCount = @ + 1, !.activitiesCount = n].activitiesCount = n
         /\ [r EXCEPT !.paymentsCount = @ + 1, !.activitiesCount = n].chainCount = r.chainCount
         /\ [r EXCEPT !.withdrawalsCount = @ + 1, !.activitiesCount = n].activitiesCount = n
         /\ [r EXCEPT !.withdrawalsCount = @ + 1, !.activitiesCount = n].chainCount = r.chainCount
<1>1. /\ [r EXCEPT !.payablesCount = @ + 1] \in User
      /\ [r EXCEPT !.paymentsCount = @ + 1] \in User
      /\ [r EXCEPT !.withdrawalsCount = @ + 1] \in User
  BY DEF User
<1>2. ASSUME NEW q \in User
      PROVE  /\ [q EXCEPT !.activitiesCount = n].activitiesCount = n
             /\ [q EXCEPT !.activitiesCount = n].chainCount = q.chainCount
  BY DEF User
<1>3. /\ [r EXCEPT !.payablesCount = @ + 1].chainCount = r.chainCount
      /\ [r EXCEPT !.paymentsCount = @ + 1].chainCount = r.chainCount
      /\ [r EXCEPT !.withdrawalsCount = @ + 1].chainCount = r.chainCount
  BY DEF User
<1> QED
  BY <1>1, <1>2, <1>3

\* A user's record is replaced.
LEMMA UserChanges ==
  ASSUME users \in [Users -> User], NEW u \in Users, NEW r,
         users' = [users EXCEPT ![u] = r], r.chainCount # 0
  PROVE  /\ UserCounts' = [UserCounts EXCEPT ![u] = r.activitiesCount]
         /\ \A v \in Users : users[v].chainCount # 0 => users'[v].chainCount # 0
         /\ (\A v \in Users : users[v].chainCount = 0 => users[v].activitiesCount = 0)
              => \A v \in Users : users'[v].chainCount = 0 => users'[v].activitiesCount = 0
<1>1. \A v \in Users : users'[v] = IF v = u THEN r ELSE users[v]
  OBVIOUS
<1>2. UserCounts' = [v \in Users |-> users'[v].activitiesCount]
  BY DEF UserCounts
<1>3. UserCounts' = [UserCounts EXCEPT ![u] = r.activitiesCount]
  BY <1>1, <1>2 DEF UserCounts
<1>4. \A v \in Users : users[v].chainCount # 0 => users'[v].chainCount # 0
  BY <1>1
<1>5. ASSUME NEW v \in Users, users'[v].chainCount = 0
      PROVE  users'[v] = users[v]
  BY <1>1, <1>5
<1> QED
  BY <1>3, <1>4, <1>5

\* A payable's record is replaced by one of the same host.
LEMMA PayableChanges ==
  ASSUME payables \in [PayableIds -> Payable], NEW p \in PayableIds, NEW r,
         payables' = [payables EXCEPT ![p] = r]
  PROVE  PayableCounts' = [PayableCounts EXCEPT ![p] = r.activitiesCount]
<1>1. \A q \in PayableIds : payables'[q] = IF q = p THEN r ELSE payables[q]
  OBVIOUS
<1>2. PayableCounts' = [q \in PayableIds |-> payables'[q].activitiesCount]
  BY DEF PayableCounts
<1> QED
  BY <1>1, <1>2 DEF PayableCounts

LEMMA KnownKept ==
  ASSUME Known, TypeOK, HostsKept,
         \A v \in Users : users[v].chainCount # 0 => users'[v].chainCount # 0,
         \A v \in Users : users'[v].chainCount = 0 => users'[v].activitiesCount = 0,
         \A q \in PayableIds : ~ Exists(q) => payables'[q] = payables[q]
  PROVE  Known'
<1>1. ASSUME NEW q \in PayableIds, Exists(q)' PROVE users'[payables'[q].host].chainCount # 0
  <2>1. payables'[q].host = payables[q].host
    BY DEF HostsKept
  <2>2. Exists(q)
    BY <1>1, <2>1 DEF Exists
  <2>3. payables[q].host \in Users
    BY <2>2 DEF TypeOK, Payable, Exists
  <2> QED
    BY <2>1, <2>2, <2>3 DEF Known
<1>2. ASSUME NEW q \in PayableIds, ~ Exists(q)' PROVE payables'[q].activitiesCount = 0
  <2>1. payables'[q].host = payables[q].host
    BY DEF HostsKept
  <2> QED
    BY <1>2, <2>1 DEF Exists, Known
<1> QED
  BY <1>1, <1>2 DEF Known

LEMMA HostedKept ==
  ASSUME HostsKept, Hosted, TypeOK,
         \/ calls' = calls
         \/ calls' = <<>>
         \/ \E p \in PayableIds : Exists(p) /\ Head(calls').payable = p
  PROVE  Hosted'
<1>1. \A p \in PayableIds : Exists(p) => Exists(p)'
  BY DEF HostsKept, Exists
<1>2. CASE calls' = calls
  <2>1. calls # <<>> => Head(calls).payable \in PayableIds
    BY OneFrame DEF Frame
  <2> QED
    BY <1>1, <1>2, <2>1 DEF Hosted
<1>3. CASE calls' = <<>>
  BY <1>3 DEF Hosted
<1>4. CASE \E p \in PayableIds : Exists(p) /\ Head(calls').payable = p
  BY <1>1, <1>4 DEF Hosted
<1> QED
  BY <1>2, <1>3, <1>4

-----------------------------------------------------------------------------
(* The steps.                                                              *)

\* One more activity of u, listed with p.
LEMMA OneActivity ==
  ASSUME NEW ids, NEW uc, NEW pc, NEW n, NEW lists,
         Issued(ids, uc, pc, n), Listed(lists, ids, pc),
         NEW u \in Users, NEW p \in PayableIds
  PROVE  LET id == UserActivity(u, uc[u] + 1) IN
         /\ Issued(ids \union {id}, OneMore(uc, u), OneMore(pc, p), n + 1)
         /\ Listed(With(lists, p, id), ids \union {id}, OneMore(pc, p))
<1> DEFINE id == UserActivity(u, uc[u] + 1)
<1>1. id \notin ids /\ Issued(ids \union {id}, OneMore(uc, u), pc, n + 1)
  BY UserIssued
<1>2. pc \in [PayableIds -> Nat]
  BY DEF Issued
<1> HIDE DEF id
<1>3. Issued(ids \union {id}, OneMore(uc, u), OneMore(pc, p), n + 1)
  BY <1>1, PayableCounted
<1>4. Listed(With(lists, p, id), ids \union {id}, OneMore(pc, p))
  BY <1>1, <1>2, ListedOneMore
<1> QED
  BY <1>3, <1>4 DEF id

\* An activity of a payable's host on the payable: an update or a withdrawal.
LEMMA HostActivity ==
  ASSUME IdsInv, NEW p \in PayableIds, Exists(p), NEW u, u = payables[p].host,
         NEW r, users' = [users EXCEPT ![u] = r],
         r.activitiesCount = users[u].activitiesCount + 1,
         r.chainCount = users[u].chainCount,
         NEW q, payables' = [payables EXCEPT ![p] = q],
         q.activitiesCount = payables[p].activitiesCount + 1, q.host = payables[p].host,
         chainStats'.activitiesCount = chainStats.activitiesCount + 1,
         activityIds' = activityIds \union {UserActivity(u, users[u].activitiesCount + 1)},
         payableActivityIds' = [payableActivityIds EXCEPT
           ![p] = @ \union {UserActivity(u, users[u].activitiesCount + 1)}]
  PROVE  Activities' /\ Known' /\ HostsKept
<1> DEFINE id == UserActivity(u, users[u].activitiesCount + 1)
           n == chainStats.activitiesCount
<1>1. TypeOK /\ users \in [Users -> User] /\ payables \in [PayableIds -> Payable]
  BY DEF IdsInv, EInv, TypeOK
<1>2. u \in Users /\ users[u].chainCount # 0
  BY <1>1 DEF IdsInv, Known, Exists, Payable
<1>3. UserCounts[u] = users[u].activitiesCount /\ PayableCounts[p] = payables[p].activitiesCount
  BY <1>2 DEF UserCounts, PayableCounts
<1>4. /\ UserCounts' = OneMore(UserCounts, u)
      /\ \A v \in Users : users[v].chainCount # 0 => users'[v].chainCount # 0
      /\ \A v \in Users : users'[v].chainCount = 0 => users'[v].activitiesCount = 0
  <2>1. r.chainCount # 0
    BY <1>2
  <2>2. /\ UserCounts' = [UserCounts EXCEPT ![u] = r.activitiesCount]
        /\ \A v \in Users : users[v].chainCount # 0 => users'[v].chainCount # 0
        /\ (\A v \in Users : users[v].chainCount = 0 => users[v].activitiesCount = 0)
              => \A v \in Users : users'[v].chainCount = 0 => users'[v].activitiesCount = 0
    BY <1>1, <1>2, <2>1, UserChanges
  <2> QED
    BY <1>3, <2>2 DEF OneMore, IdsInv, Known
<1>5. PayableCounts' = OneMore(PayableCounts, p)
  <2>1. PayableCounts' = [PayableCounts EXCEPT ![p] = q.activitiesCount]
    BY <1>1, PayableChanges
  <2> QED
    BY <1>3, <2>1 DEF OneMore
<1>6. Issued(activityIds, UserCounts, PayableCounts, n) /\ Listed(payableActivityIds, activityIds, PayableCounts)
  BY DEF IdsInv, Activities
<1>7. /\ activityIds' = activityIds \union {id}
      /\ payableActivityIds' = With(payableActivityIds, p, id)
      /\ chainStats'.activitiesCount = n + 1
  BY DEF With
<1>8. id = UserActivity(u, UserCounts[u] + 1)
  BY <1>3
<1> HIDE DEF id, n
<1>9. /\ Issued(activityIds \union {id}, OneMore(UserCounts, u), OneMore(PayableCounts, p), n + 1)
      /\ Listed(With(payableActivityIds, p, id), activityIds \union {id}, OneMore(PayableCounts, p))
  BY <1>2, <1>6, <1>8, OneActivity
<1>10. Activities'
  BY <1>4, <1>5, <1>7, <1>9 DEF Activities
<1>11. HostsKept
  BY <1>1 DEF HostsKept
<1>12. \A x \in PayableIds : ~ Exists(x) => payables'[x] = payables[x]
  BY <1>1
<1>13. Known'
  BY <1>1, <1>4, <1>11, <1>12, KnownKept DEF IdsInv
<1> QED
  BY <1>10, <1>11, <1>13

\* The same of payables.
LEMMA PayableRecords ==
  ASSUME NEW x \in Payable, NEW n
  PROVE  /\ [x EXCEPT !.withdrawalsCount = @ + 1, !.activitiesCount = @ + 1].activitiesCount
              = x.activitiesCount + 1
         /\ [x EXCEPT !.withdrawalsCount = @ + 1, !.activitiesCount = @ + 1].host = x.host
         /\ [x EXCEPT !.paymentsCount = @ + 1, !.activitiesCount = n].activitiesCount = n
         /\ [x EXCEPT !.paymentsCount = @ + 1, !.activitiesCount = n].host = x.host
<1>1. /\ [x EXCEPT !.withdrawalsCount = @ + 1] \in Payable
      /\ [x EXCEPT !.paymentsCount = @ + 1] \in Payable
      /\ [x EXCEPT !.withdrawalsCount = @ + 1].host = x.host
      /\ [x EXCEPT !.paymentsCount = @ + 1].host = x.host
      /\ [x EXCEPT !.withdrawalsCount = @ + 1].activitiesCount = x.activitiesCount
  BY DEF Payable
<1>2. ASSUME NEW y \in Payable
      PROVE  /\ [y EXCEPT !.activitiesCount = n].activitiesCount = n
             /\ [y EXCEPT !.activitiesCount = n].host = y.host
             /\ [y EXCEPT !.activitiesCount = @ + 1].activitiesCount = y.activitiesCount + 1
             /\ [y EXCEPT !.activitiesCount = @ + 1].host = y.host
  BY DEF Payable
<1> QED
  BY <1>1, <1>2

LEMMA UpdateIds ==
  ASSUME IdsInv, NEW p \in PayableIds, Exists(p), NEW updated \in Payable,
         updated.host = payables[p].host,
         updated.activitiesCount = payables[p].activitiesCount,
         RecordUpdatePayableActivity(p, updated)
  PROVE  Activities' /\ Known' /\ Hosted'
<1> DEFINE u == payables[p].host
           n == users[u].activitiesCount + 1
           r == [users[u] EXCEPT !.activitiesCount = n]
           q == [updated EXCEPT !.activitiesCount = @ + 1]
<1>1. /\ TypeOK /\ users \in [Users -> User] /\ payables \in [PayableIds -> Payable]
      /\ chainStats \in ChainStats
  BY DEF IdsInv, EInv, TypeOK
<1>2. u \in Users
  BY <1>1 DEF Exists, Payable
<1>3. users[u] \in User /\ n \in Nat
  BY <1>1, <1>2 DEF User
<1>4. users' = [users EXCEPT ![u] = r]
  BY <1>1, <1>2 DEF RecordUpdatePayableActivity
<1>5. r.activitiesCount = n /\ r.chainCount = users[u].chainCount
  BY <1>3, UserRecords
<1>6. payables' = [payables EXCEPT ![p] = q]
  BY DEF RecordUpdatePayableActivity
<1>7. q.activitiesCount = payables[p].activitiesCount + 1 /\ q.host = payables[p].host
  BY DEF Payable
<1>8. chainStats'.activitiesCount = chainStats.activitiesCount + 1
  BY <1>1 DEF RecordUpdatePayableActivity, ChainStats
<1>9. /\ activityIds' = activityIds \union {UserActivity(u, n)}
      /\ payableActivityIds' = [payableActivityIds EXCEPT ![p] = @ \union {UserActivity(u, n)}]
      /\ calls' = calls
  BY DEF RecordUpdatePayableActivity
<1> HIDE DEF r, q
<1>10. Activities' /\ Known' /\ HostsKept
  BY <1>4, <1>5, <1>6, <1>7, <1>8, <1>9, HostActivity
<1> QED
  BY <1>1, <1>9, <1>10, HostedKept DEF IdsInv

LEMMA SettleIds == ASSUME IdsInv, SettleWithdrawal PROVE Activities' /\ Known' /\ Hosted'
<1> DEFINE p == Head(calls).payable
           u == payables[p].host
           n == users[u].activitiesCount + 1
           r == [users[u] EXCEPT !.withdrawalsCount = @ + 1, !.activitiesCount = n]
           q == [payables[p] EXCEPT !.withdrawalsCount = @ + 1, !.activitiesCount = @ + 1]
<1>1. /\ TypeOK /\ users \in [Users -> User] /\ payables \in [PayableIds -> Payable]
      /\ chainStats \in ChainStats
  BY DEF IdsInv, EInv, TypeOK
<1>2. calls # <<>> /\ p \in PayableIds /\ Tail(calls) = <<>> /\ Exists(p)
  BY <1>1, OneFrame DEF SettleWithdrawal, Frame, IdsInv, Hosted
<1>3. u \in Users /\ users[u] \in User /\ n \in Nat
  BY <1>1, <1>2 DEF Exists, Payable, User
<1>4. /\ users' = [users EXCEPT ![u] = r]
      /\ payables' = [payables EXCEPT ![p] = q]
      /\ activityIds' = activityIds \union {UserActivity(u, n)}
      /\ payableActivityIds' = [payableActivityIds EXCEPT ![p] = @ \union {UserActivity(u, n)}]
      /\ calls' = <<>>
  BY <1>2 DEF SettleWithdrawal
<1>5. r.activitiesCount = n /\ r.chainCount = users[u].chainCount
  BY <1>3, UserRecords
<1>6. q.activitiesCount = payables[p].activitiesCount + 1 /\ q.host = payables[p].host
  <2>1. payables[p] \in Payable
    BY <1>1, <1>2
  <2> QED
    BY <2>1, PayableRecords
<1>7. chainStats'.activitiesCount = chainStats.activitiesCount + 1
  <2> DEFINE s == [chainStats EXCEPT !.withdrawalsCount = @ + 1]
  <2>1. s \in ChainStats /\ s.activitiesCount = chainStats.activitiesCount
    BY <1>1 DEF ChainStats
  <2>2. chainStats' = [s EXCEPT !.activitiesCount = @ + 1]
    BY <1>1 DEF SettleWithdrawal, ChainStats
  <2> HIDE DEF s
  <2>3. [s EXCEPT !.activitiesCount = @ + 1].activitiesCount = s.activitiesCount + 1
    BY <2>1 DEF ChainStats
  <2> QED
    BY <2>1, <2>2, <2>3
<1> HIDE DEF r, q, p
<1>8. Activities' /\ Known' /\ HostsKept
  <2> DEFINE w == u
  <2>1. w = payables[p].host /\ p \in PayableIds /\ Exists(p)
    BY <1>2
  <2>2. /\ users' = [users EXCEPT ![w] = r]
        /\ r.activitiesCount = users[w].activitiesCount + 1
        /\ r.chainCount = users[w].chainCount
        /\ activityIds' = activityIds \union {UserActivity(w, users[w].activitiesCount + 1)}
    BY <1>4, <1>5
  <2>3. payableActivityIds' = [payableActivityIds EXCEPT
          ![p] = @ \union {UserActivity(w, users[w].activitiesCount + 1)}]
    BY <1>4
  <2> HIDE DEF w
  <2> QED
    BY <1>4, <1>6, <1>7, <2>1, <2>2, <2>3, HostActivity
<1> QED
  BY <1>1, <1>4, <1>8, HostedKept DEF IdsInv

\* _initializeUserIfNeedBe: the first activity of a newcomer.
LEMMA UserInitialized ==
  ASSUME IdsInv, NEW u \in Users
  PROVE  LET user == InitializedUser(u)
             uc == [UserCounts EXCEPT ![u] = user.activitiesCount]
             ids == activityIds \union InitializedActivity(u)
         IN
         /\ user \in User /\ user.chainCount # 0
         /\ uc[u] = user.activitiesCount
         /\ Issued(ids, uc, PayableCounts, chainStats.activitiesCount + NewUser(u))
         /\ Listed(payableActivityIds, ids, PayableCounts)
<1> DEFINE user == InitializedUser(u)
           uc == [UserCounts EXCEPT ![u] = user.activitiesCount]
           ids == activityIds \union InitializedActivity(u)
           n == chainStats.activitiesCount
<1>1. /\ TypeOK /\ users \in [Users -> User] /\ chainStats \in ChainStats
      /\ Issued(activityIds, UserCounts, PayableCounts, n)
      /\ Listed(payableActivityIds, activityIds, PayableCounts)
  BY DEF IdsInv, EInv, TypeOK, Activities
<1>2. users[u] \in User /\ user \in User /\ UserCounts[u] = users[u].activitiesCount
  BY <1>1, InitializedUserType DEF UserCounts
<1>3. uc[u] = user.activitiesCount
  BY DEF UserCounts
<1>4. Listed(payableActivityIds, ids, PayableCounts)
  BY <1>1, ListedAmongMore
<1>5. CASE users[u].chainCount # 0
  <2>1. user = users[u] /\ ids = activityIds /\ NewUser(u) = 0
    BY <1>5 DEF InitializedUser, InitializedActivity, NewUser
  <2>2. uc = UserCounts
    BY <2>1 DEF UserCounts
  <2>3. n + NewUser(u) = n
    BY <1>1, <2>1 DEF ChainStats
  <2> QED
    BY <1>1, <1>2, <1>3, <1>4, <1>5, <2>1, <2>2, <2>3
<1>6. CASE users[u].chainCount = 0
  <2>1. users[u].activitiesCount = 0
    BY <1>6 DEF IdsInv, Known
  <2>2. user = [users[u] EXCEPT !.chainCount = chainStats.usersCount + 1, !.activitiesCount = 1]
    BY <1>6 DEF InitializedUser
  <2>3. user.activitiesCount = 1 /\ user.chainCount # 0
    <3> DEFINE c == chainStats.usersCount + 1
               x == users[u]
               y == [x EXCEPT !.chainCount = c]
    <3>1. c \in Nat /\ c # 0
      BY <1>1 DEF ChainStats
    <3>2. x \in User
      BY <1>2
    <3> HIDE DEF c, x
    <3>3. y \in User /\ y.chainCount = c
      BY <3>1, <3>2 DEF User
    <3> HIDE DEF y
    <3>4. [y EXCEPT !.activitiesCount = 1].activitiesCount = 1
          /\ [y EXCEPT !.activitiesCount = 1].chainCount = y.chainCount
      BY <3>3 DEF User
    <3>5. user = [y EXCEPT !.activitiesCount = 1]
      BY <2>2 DEF y, x, c
    <3> QED
      BY <3>1, <3>3, <3>4, <3>5
  <2>4. UserCounts[u] = 0 /\ UserCounts[u] + 1 = 1
    BY <1>2, <2>1
  <2>5. uc = OneMore(UserCounts, u)
    BY <2>3, <2>4 DEF OneMore
  <2>6. ids = activityIds \union {UserActivity(u, UserCounts[u] + 1)}
    BY <1>6, <2>4 DEF InitializedActivity
  <2>7. NewUser(u) = 1
    BY <1>6 DEF NewUser
  <2> HIDE DEF uc, ids
  <2>8. Issued(ids, uc, PayableCounts, n + 1)
    BY <1>1, <2>5, <2>6, UserIssued
  <2> QED
    BY <1>2, <1>3, <1>4, <2>3, <2>7, <2>8 DEF uc, ids
<1> QED
  BY <1>5, <1>6

LEMMA CreateIds ==
  ASSUME IdsInv, NEW u \in Users, NEW l \in AllowedLists, NEW b \in BOOLEAN,
         CreatePayable(u, l, b)
  PROVE  Activities' /\ Known' /\ Hosted'
<1> DEFINE p == chainStats.payablesCount + 1
           user == InitializedUser(u)
           k == user.activitiesCount + 1
           r == [user EXCEPT !.payablesCount = @ + 1, !.activitiesCount = k]
           q == [NoPayable EXCEPT !.host = u, !.isAutoWithdraw = b,
                                  !.allowed = l, !.activitiesCount = 1]
           uc == [UserCounts EXCEPT ![u] = user.activitiesCount]
           ids == activityIds \union InitializedActivity(u)
           n == chainStats.activitiesCount + NewUser(u)
           id == UserActivity(u, k)
<1>1. /\ EInv /\ TypeOK /\ users \in [Users -> User] /\ payables \in [PayableIds -> Payable]
      /\ chainStats \in ChainStats
  BY DEF IdsInv, EInv, TypeOK
<1>2. p \in PayableIds /\ ~ Exists(p)
  BY <1>1, CreateHosts DEF EscrowHost, Exists
<1>3. /\ user \in User /\ user.chainCount # 0 /\ uc[u] = user.activitiesCount
      /\ Issued(ids, uc, PayableCounts, n) /\ Listed(payableActivityIds, ids, PayableCounts)
  BY UserInitialized
<1>4. /\ users' = [users EXCEPT ![u] = r]
      /\ payables' = [payables EXCEPT ![p] = q]
      /\ activityIds' = ids \union {id}
      /\ payableActivityIds' = With(payableActivityIds, p, id)
      /\ calls' = <<>>
  BY DEF CreatePayable, Entered, NonReentrant, With
<1>5. k \in Nat /\ r.activitiesCount = k /\ r.chainCount = user.chainCount
  <2>1. k \in Nat
    BY <1>3 DEF User
  <2> HIDE DEF k, user
  <2> QED
    BY <1>3, <2>1, UserRecords
<1>6. q.activitiesCount = 1 /\ q.host = u
  BY DEF NoPayable
<1>7. chainStats'.activitiesCount = n + 1
  <2> DEFINE v == NewUser(u)
  <2>1. v \in {0, 1}
    BY <1>1, InitializedUserType
  <2>2. chainStats' = [chainStats EXCEPT !.usersCount = @ + v, !.payablesCount = p,
                                         !.activitiesCount = @ + v + 1]
    BY DEF CreatePayable
  <2> HIDE DEF v, p
  <2>3. chainStats'.activitiesCount = chainStats.activitiesCount + v + 1
    BY <1>1, <2>2 DEF ChainStats
  <2> QED
    BY <2>3 DEF v
<1>8. PayableCounts[p] = 0
  BY <1>2 DEF IdsInv, Known, PayableCounts
<1>9. id = UserActivity(u, uc[u] + 1)
  BY <1>3
<1> HIDE DEF id, n, ids, q, r, p
<1>10. /\ Issued(ids \union {id}, OneMore(uc, u), OneMore(PayableCounts, p), n + 1)
       /\ Listed(With(payableActivityIds, p, id), ids \union {id}, OneMore(PayableCounts, p))
  <2> HIDE DEF uc
  <2> QED
    BY <1>2, <1>3, <1>9, OneActivity
<1>11. /\ UserCounts' = [UserCounts EXCEPT ![u] = k]
       /\ \A v \in Users : users[v].chainCount # 0 => users'[v].chainCount # 0
       /\ \A v \in Users : users'[v].chainCount = 0 => users'[v].activitiesCount = 0
  <2> HIDE DEF k, user
  <2> QED
    BY <1>1, <1>3, <1>4, <1>5, UserChanges DEF IdsInv, Known
<1>12. UserCounts' = OneMore(uc, u)
  <2>1. uc[u] + 1 = k
    BY <1>3
  <2> HIDE DEF k, user
  <2> QED
    BY <1>11, <2>1 DEF OneMore, UserCounts
<1>13. PayableCounts' = OneMore(PayableCounts, p)
  <2>1. PayableCounts' = [PayableCounts EXCEPT ![p] = q.activitiesCount]
    BY <1>1, <1>2, <1>4, PayableChanges
  <2> QED
    BY <1>6, <1>8, <2>1 DEF OneMore
<1>14. Activities'
  BY <1>4, <1>7, <1>10, <1>12, <1>13 DEF Activities
<1>15. Known'
  <2>1. \A x \in PayableIds : payables'[x] = IF x = p THEN q ELSE payables[x]
    BY <1>1, <1>4
  <2>2. ASSUME NEW x \in PayableIds, Exists(x)' PROVE users'[payables'[x].host].chainCount # 0
    <3>1. CASE x = p
      <4>1. payables'[x].host = u
        BY <1>6, <2>1, <3>1
      <4>2. users'[u] = r
        BY <1>1, <1>4
      <4> QED
        BY <1>3, <1>5, <4>1, <4>2
    <3>2. CASE x # p
      <4>1. Exists(x) /\ payables'[x].host = payables[x].host
        BY <2>1, <2>2, <3>2 DEF Exists
      <4>2. payables[x].host \in Users
        BY <1>1, <4>1 DEF Exists, Payable
      <4> QED
        BY <1>11, <4>1, <4>2 DEF IdsInv, Known
    <3> QED
      BY <3>1, <3>2
  <2>3. ASSUME NEW x \in PayableIds, ~ Exists(x)' PROVE payables'[x].activitiesCount = 0
    <3>1. x # p
      BY <1>6, <2>1, <2>3, NoAddressIsNoUser DEF Exists
    <3> QED
      BY <2>1, <2>3, <3>1 DEF Exists, IdsInv, Known
  <2> QED
    BY <1>11, <2>2, <2>3 DEF Known
<1>16. Hosted'
  BY <1>4 DEF Hosted
<1> QED
  BY <1>14, <1>15, <1>16

\* What crediting a payable does to its list, and to the ids.
LEMMA CreditIds ==
  ASSUME TypeOK, NEW p \in PayableIds, NEW t \in Tokens, NEW a \in Nat, CreditPayable(p, t, a),
         NEW ids, NEW uc, NEW n, Issued(ids, uc, PayableCounts, n),
         Listed(payableActivityIds, ids, PayableCounts)
  PROVE  LET id == PayableActivity(p, payables[p].activitiesCount + 1) IN
         /\ Issued(ids \union {id}, uc, PayableCounts', n + 1)
         /\ Listed(payableActivityIds', ids \union {id}, PayableCounts')
<1> DEFINE k == payables[p].activitiesCount + 1
           id == PayableActivity(p, k)
           q == [payables[p] EXCEPT !.paymentsCount = @ + 1, !.activitiesCount = k]
<1>1. payables \in [PayableIds -> Payable] /\ payables[p] \in Payable
  BY DEF TypeOK
<1>2. payables' = [payables EXCEPT ![p] = q] /\ payableActivityIds' = With(payableActivityIds, p, id)
  BY DEF CreditPayable, With
<1>3. PayableCounts[p] + 1 = k
  BY DEF PayableCounts
<1>4. q.activitiesCount = k
  <2> HIDE DEF k
  <2> QED
    BY <1>1, PayableRecords
<1> HIDE DEF q, k
<1>5. PayableCounts' = OneMore(PayableCounts, p)
  <2>1. PayableCounts' = [PayableCounts EXCEPT ![p] = q.activitiesCount]
    BY <1>1, <1>2, PayableChanges
  <2> QED
    BY <1>3, <1>4, <2>1 DEF OneMore
<1>6. id = PayableActivity(p, PayableCounts[p] + 1)
  BY <1>3
<1> HIDE DEF id
<1>7. id \notin ids /\ Issued(ids \union {id}, uc, OneMore(PayableCounts, p), n + 1)
  BY <1>6, PayableIssued
<1>8. PayableCounts \in [PayableIds -> Nat]
  BY DEF Issued
<1>9. Listed(With(payableActivityIds, p, id), ids \union {id}, OneMore(PayableCounts, p))
  BY <1>7, <1>8, ListedOneMore
<1> QED
  BY <1>2, <1>5, <1>7, <1>9 DEF id, k

\* A payment keeps the frame of its payout on a payable that exists.
LEMMA PayOutHosted ==
  ASSUME IdsInv, NEW p \in PayableIds, Exists(p), NEW t \in Tokens, NEW a \in Nat,
         NEW funds, calls = <<>>, PayHost(p, t, a, funds)
  PROVE  Head(calls').payable = p
<1> DEFINE f == [payable |-> p, token |-> t, amount |-> a,
                 fees |-> Fees(t, a), callee |-> "host"]
<1>1. Fees(t, a) \in Nat
  BY FeesAreNat DEF IdsInv, EInv
<1>2. f \in Frame
  BY <1>1 DEF Frame
<1>3. calls' = <<f>> \o <<>>
  BY DEF PayHost
<1>4. f.payable = p
  OBVIOUS
<1> HIDE DEF f
<1> QED
  BY <1>2, <1>3, <1>4, PushFrame

LEMMA CreditedKept ==
  ASSUME IdsInv, NEW p \in PayableIds, Exists(p), NEW t \in Tokens, NEW a \in Nat,
         CreditPayable(p, t, a)
  PROVE  \A x \in PayableIds : ~ Exists(x) => payables'[x] = payables[x]
<1>1. payables \in [PayableIds -> Payable]
  BY DEF IdsInv, EInv, TypeOK
<1> QED
  BY <1>1 DEF CreditPayable

LEMMA PayIds ==
  ASSUME IdsInv, NEW u \in Users, NEW p \in PayableIds, NEW t \in Tokens,
         NEW a \in Amounts, NEW value, Pay(u, p, t, a, value)
  PROVE  Activities' /\ Known' /\ Hosted'
<1> DEFINE user == InitializedUser(u)
           k == user.activitiesCount + 1
           r == [user EXCEPT !.paymentsCount = @ + 1, !.activitiesCount = k]
           uc == [UserCounts EXCEPT ![u] = user.activitiesCount]
           ids == activityIds \union InitializedActivity(u)
           n == chainStats.activitiesCount + NewUser(u)
           id == UserActivity(u, k)
           act == PayableActivity(p, payables[p].activitiesCount + 1)
           funds == [x \in Tokens |-> IF x = t THEN held[x] + a
                                 ELSE IF x = Native THEN held[x] + value
                                 ELSE held[x]]
<1>1. /\ TypeOK /\ users \in [Users -> User] /\ chainStats \in ChainStats /\ a \in Nat
  BY AmountsAreNat DEF IdsInv, EInv, TypeOK
<1>2. /\ user \in User /\ user.chainCount # 0 /\ uc[u] = user.activitiesCount
      /\ Issued(ids, uc, PayableCounts, n) /\ Listed(payableActivityIds, ids, PayableCounts)
  BY UserInitialized
<1>3. /\ users' = [users EXCEPT ![u] = r]
      /\ activityIds' = ids \union {id, act}
      /\ CreditPayable(p, t, a) /\ KeepOrPayOut(p, t, a, funds)
      /\ Exists(p) /\ calls = <<>>
  BY DEF Pay, Entered, NonReentrant
<1>4. k \in Nat /\ r.activitiesCount = k /\ r.chainCount = user.chainCount
  <2>1. k \in Nat
    BY <1>2 DEF User
  <2> HIDE DEF k, user
  <2> QED
    BY <1>2, <2>1, UserRecords
<1>5. chainStats'.activitiesCount = n + 1 + 1
  <2> DEFINE v == NewUser(u)
  <2>1. v \in {0, 1}
    BY <1>1, InitializedUserType
  <2>2. chainStats' = [chainStats EXCEPT !.usersCount = @ + v, !.userPaymentsCount = @ + 1,
                                         !.payablePaymentsCount = @ + 1,
                                         !.activitiesCount = @ + v + 2]
    BY DEF Pay
  <2> HIDE DEF v
  <2> DEFINE s == [chainStats EXCEPT !.usersCount = @ + v, !.userPaymentsCount = @ + 1]
             w == [s EXCEPT !.payablePaymentsCount = @ + 1]
  <2>3. s \in ChainStats /\ s.activitiesCount = chainStats.activitiesCount
    <3>1. v \in Nat
      BY <2>1
    <3>2. chainStats.usersCount + v \in Nat /\ chainStats.userPaymentsCount + 1 \in Nat
      BY <1>1, <3>1 DEF ChainStats
    <3> DEFINE p1 == chainStats.usersCount + v
               p2 == chainStats.userPaymentsCount + 1
    <3>3. s = [chainStats EXCEPT !.usersCount = p1, !.userPaymentsCount = p2]
      OBVIOUS
    <3>4. p1 \in Nat /\ p2 \in Nat
      BY <3>2
    <3> HIDE DEF p1, p2, s
    <3> QED
      BY <1>1, <3>3, <3>4 DEF ChainStats
  <2>4. chainStats' = [w EXCEPT !.activitiesCount = @ + v + 2]
    BY <1>1, <2>2 DEF ChainStats
  <2> HIDE DEF s
  <2>5. w \in ChainStats /\ w.activitiesCount = s.activitiesCount
    BY <2>3 DEF ChainStats
  <2> HIDE DEF w
  <2>6. [w EXCEPT !.activitiesCount = @ + v + 2].activitiesCount = w.activitiesCount + v + 2
    BY <2>5 DEF ChainStats
  <2>7. chainStats'.activitiesCount = chainStats.activitiesCount + v + 2
    BY <2>3, <2>4, <2>5, <2>6
  <2>8. chainStats.activitiesCount \in Nat
    BY <1>1 DEF ChainStats
  <2>9. chainStats'.activitiesCount = chainStats.activitiesCount + v + 1 + 1
    BY <2>1, <2>7, <2>8
  <2> QED
    BY <2>9 DEF v
<1>6. id = UserActivity(u, uc[u] + 1)
  BY <1>2
<1>7. HostsKept /\ \A x \in PayableIds : ~ Exists(x) => payables'[x] = payables[x]
  BY <1>1, <1>3, CreditHosts, CreditedKept
<1>8. /\ UserCounts' = [UserCounts EXCEPT ![u] = k]
      /\ \A v \in Users : users[v].chainCount # 0 => users'[v].chainCount # 0
      /\ \A v \in Users : users'[v].chainCount = 0 => users'[v].activitiesCount = 0
  <2> HIDE DEF k, user, r
  <2> QED
    BY <1>1, <1>2, <1>3, <1>4, UserChanges DEF IdsInv, Known
<1>9. UserCounts' = OneMore(uc, u)
  <2>1. uc[u] + 1 = k
    BY <1>2
  <2> HIDE DEF k, user
  <2> QED
    BY <1>8, <2>1 DEF OneMore, UserCounts
<1> HIDE DEF id, n, ids, r, uc, user, funds
<1>10. Issued(ids \union {id}, OneMore(uc, u), PayableCounts, n + 1)
  BY <1>2, <1>6, UserIssued
<1>11. Listed(payableActivityIds, ids \union {id}, PayableCounts)
  BY <1>2, ListedAmongMore
<1>12. /\ Issued((ids \union {id}) \union {act}, OneMore(uc, u), PayableCounts', n + 1 + 1)
       /\ Listed(payableActivityIds', (ids \union {id}) \union {act}, PayableCounts')
  <2> DEFINE two == ids \union {id}
             oc == OneMore(uc, u)
             m == n + 1
  <2>1. Issued(two, oc, PayableCounts, m) /\ Listed(payableActivityIds, two, PayableCounts)
    BY <1>10, <1>11
  <2> HIDE DEF two, oc, m
  <2>2. /\ Issued(two \union {act}, oc, PayableCounts', m + 1)
        /\ Listed(payableActivityIds', two \union {act}, PayableCounts')
    BY <1>1, <1>3, <2>1, CreditIds
  <2> QED
    BY <2>2 DEF two, oc, m
<1>13. activityIds' = (ids \union {id}) \union {act}
  BY <1>3
<1>14. Activities'
  BY <1>5, <1>9, <1>12, <1>13 DEF Activities
<1>15. Known'
  BY <1>1, <1>7, <1>8, KnownKept DEF IdsInv
<1>16. calls' = calls \/ Head(calls').payable = p
  BY <1>1, <1>3, PayOutHosted DEF KeepOrPayOut
<1>17. Hosted'
  BY <1>1, <1>3, <1>7, <1>16, HostedKept DEF IdsInv
<1> QED
  BY <1>14, <1>15, <1>17

LEMMA ReceiveIds ==
  ASSUME IdsInv, NEW m \in Inbound, ReceiveForeignPaymentWithCircle(m)
  PROVE  Activities' /\ Known' /\ Hosted'
<1> DEFINE p == m.payable
           t == m.token
           a == m.amount
           n == chainStats.activitiesCount
           act == PayableActivity(p, payables[p].activitiesCount + 1)
           funds == [held EXCEPT ![t] = @ + a]
<1>1. /\ p \in PayableIds /\ t \in Tokens /\ a \in Nat
      /\ TypeOK /\ chainStats \in ChainStats
  BY InboundAreMessages, AmountsAreNat DEF IdsInv, EInv, TypeOK
<1>2. /\ activityIds' = activityIds \union {act}
      /\ CreditPayable(p, t, a) /\ KeepOrPayOut(p, t, a, funds)
      /\ Exists(p) /\ calls = <<>> /\ users' = users
  BY DEF ReceiveForeignPaymentWithCircle, Entered, NonReentrant
<1>3. chainStats'.activitiesCount = n + 1
  BY <1>1 DEF ReceiveForeignPaymentWithCircle, ChainStats
<1>4. Issued(activityIds, UserCounts, PayableCounts, n) /\ Listed(payableActivityIds, activityIds, PayableCounts)
  BY DEF IdsInv, Activities
<1> HIDE DEF p, t, a, n, funds
<1>5. /\ Issued(activityIds \union {act}, UserCounts, PayableCounts', n + 1)
      /\ Listed(payableActivityIds', activityIds \union {act}, PayableCounts')
  BY <1>1, <1>2, <1>4, CreditIds
<1>6. UserCounts' = UserCounts
  BY <1>2 DEF UserCounts
<1>7. Activities'
  BY <1>2, <1>3, <1>5, <1>6 DEF Activities
<1>8. HostsKept /\ \A x \in PayableIds : ~ Exists(x) => payables'[x] = payables[x]
  BY <1>1, <1>2, CreditHosts, CreditedKept
<1>9. Known'
  BY <1>1, <1>2, <1>8, KnownKept DEF IdsInv, Known
<1>10. calls' = calls \/ Head(calls').payable = p
  BY <1>1, <1>2, PayOutHosted DEF KeepOrPayOut
<1>11. Hosted'
  BY <1>1, <1>2, <1>8, <1>10, HostedKept DEF IdsInv
<1> QED
  BY <1>7, <1>9, <1>11

\* Whatever leaves the books alone.
LEMMA BooksKept ==
  ASSUME IdsInv,
         UNCHANGED <<chainStats, users, payables, activityIds, payableActivityIds>>
  PROVE  Activities' /\ Known' /\ HostsKept
BY DEF IdsInv, Activities, Known, HostsKept, UserCounts, PayableCounts, Exists

LEMMA OwnerCallIds == ASSUME IdsInv, OwnerCall PROVE Activities' /\ Known' /\ Hosted'
<1>1. UNCHANGED <<chainStats, users, payables, activityIds, payableActivityIds, calls>>
  BY DEF OwnerCall, Pause, Unpause, SetWithdrawalFeePercentage,
         SetFeeCollectorAddress, UpdateMaxWithdrawalFees, UpdateTokenDetails,
         AllowPaymentsForToken, StopPaymentsForToken, historyVars
<1> QED
  BY <1>1, BooksKept, HostedKept DEF IdsInv, EInv

LEMMA WithdrawIds ==
  ASSUME IdsInv, NEW p \in PayableIds, NEW t \in Tokens, NEW a \in Amounts, Withdraw(p, t, a)
  PROVE  Activities' /\ Known' /\ Hosted'
<1>1. /\ UNCHANGED <<chainStats, users, payables, activityIds, payableActivityIds>>
      /\ Exists(p) /\ calls = <<>> /\ PayHost(p, t, a, held) /\ a \in Nat
  BY AmountsAreNat DEF Withdraw, Entered, NonReentrant, historyVars
<1>2. Head(calls').payable = p
  BY <1>1, PayOutHosted
<1> QED
  BY <1>1, <1>2, BooksKept, HostedKept DEF IdsInv, EInv

LEMMA PayCollectorIds == ASSUME IdsInv, PayCollector PROVE Activities' /\ Known' /\ Hosted'
<1>1. PICK f \in Frame : f = Head(calls)
  BY OneFrame DEF IdsInv, EInv, PayCollector
<1> DEFINE g == [f EXCEPT !.callee = "collector"]
<1>2. /\ UNCHANGED <<chainStats, users, payables, activityIds, payableActivityIds>>
      /\ calls # <<>> /\ Tail(calls) = <<>>
  BY OneFrame DEF IdsInv, EInv, PayCollector, historyVars
<1>3. g \in Frame /\ g.payable = f.payable /\ f.payable \in PayableIds
  BY DEF Frame
<1>4. calls' = <<g>> \o <<>>
  BY <1>1, <1>2 DEF PayCollector
<1> HIDE DEF g
<1>5. Head(calls').payable = f.payable
  BY <1>3, <1>4, PushFrame
<1>6. Exists(f.payable)
  BY <1>1, <1>2 DEF IdsInv, Hosted
<1> QED
  BY <1>2, <1>3, <1>5, <1>6, BooksKept, HostedKept DEF IdsInv, EInv

LEMMA HostCallIds == ASSUME IdsInv, HostCall PROVE Activities' /\ Known' /\ Hosted'
<1>1. payables \in [PayableIds -> Payable]
  BY DEF IdsInv, EInv, TypeOK
<1>2. CASE \E u \in Users, l \in AllowedLists, b \in BOOLEAN : CreatePayable(u, l, b)
  BY <1>2, CreateIds
<1>3. CASE \E p \in PayableIds : ClosePayable(p)
  BY <1>1, <1>3, UpdateIds DEF ClosePayable, Payable
<1>4. CASE \E p \in PayableIds : ReopenPayable(p)
  BY <1>1, <1>4, UpdateIds DEF ReopenPayable, Payable
<1>5. CASE \E p \in PayableIds, l \in AllowedLists :
             UpdatePayableAllowedTokensAndAmounts(p, l)
  BY <1>1, <1>5, UpdateIds DEF UpdatePayableAllowedTokensAndAmounts, Payable
<1>6. CASE \E p \in PayableIds, b \in BOOLEAN : UpdatePayableAutoWithdraw(p, b)
  BY <1>1, <1>6, UpdateIds DEF UpdatePayableAutoWithdraw, Payable
<1>7. CASE \E p \in PayableIds, t \in Tokens, a \in Amounts : Withdraw(p, t, a)
  BY <1>7, WithdrawIds
<1> QED
  BY <1>2, <1>3, <1>4, <1>5, <1>6, <1>7 DEF HostCall

LEMMA StepIds == IdsInv /\ [Next]_vars => IdsInv'
<1> SUFFICES ASSUME IdsInv, [Next]_vars PROVE IdsInv'
  OBVIOUS
<1>1. EInv'
  BY StepEscrow DEF IdsInv
<1>2. CASE OwnerCall
  BY <1>1, <1>2, OwnerCallIds DEF IdsInv
<1>3. CASE HostCall
  BY <1>1, <1>3, HostCallIds DEF IdsInv
<1>4. CASE PaymentCall
  <2>1. CASE \E u \in Users, p \in PayableIds, t \in Tokens, a \in Amounts :
               \E value \in {0, a} : Pay(u, p, t, a, value)
    BY <1>1, <2>1, PayIds DEF IdsInv
  <2>2. CASE \E m \in Inbound : ReceiveForeignPaymentWithCircle(m)
    BY <1>1, <2>2, ReceiveIds DEF IdsInv
  <2>3. CASE \E m \in Inbound : RedeemDirectly(m)
    BY <1>1, <2>3, BooksKept, HostedKept DEF RedeemDirectly, historyVars, IdsInv, EInv
  <2> QED
    BY <1>4, <2>1, <2>2, <2>3 DEF PaymentCall
<1>5. CASE PayCollector
  BY <1>1, <1>5, PayCollectorIds DEF IdsInv
<1>6. CASE SettleWithdrawal
  BY <1>1, <1>6, SettleIds DEF IdsInv
<1>7. CASE UNCHANGED vars
  BY <1>1, <1>7, BooksKept, HostedKept DEF vars, IdsInv, EInv
<1> QED
  BY <1>2, <1>3, <1>4, <1>5, <1>6, <1>7 DEF Next

\* No activity id is ever issued twice, a user's activities are numbered without
\* a gap, and a payable's list is as long as its counter says: _createId hashes
\* counts of two kinds, which five call paths advance.
THEOREM IdsAlwaysMatchCounters == Spec => []ActivityIdsMatchCounters
<1>1. Init => IdsInv
  BY InitIds
<1>2. IdsInv /\ [Next]_vars => IdsInv'
  BY StepIds
<1>3. IdsInv => ActivityIdsMatchCounters
  BY IdsMatch
<1> QED
  BY <1>1, <1>2, <1>3, PTL DEF Spec

-----------------------------------------------------------------------------
(* Counters.  The fields that matter here of the records that calls write,  *)
(* one lemma per kind of record.                                            *)

LEMMA UserFields ==
  ASSUME NEW r \in User, NEW a \in Nat, NEW n \in Nat
  PROVE  /\ LET q == [r EXCEPT !.activitiesCount = n] IN
            /\ q.activitiesCount = n /\ q.chainCount = r.chainCount
            /\ q.payablesCount = r.payablesCount /\ q.paymentsCount = r.paymentsCount
            /\ q.withdrawalsCount = r.withdrawalsCount
         /\ LET q == [r EXCEPT !.payablesCount = a, !.activitiesCount = n] IN
            /\ q.activitiesCount = n /\ q.chainCount = r.chainCount
            /\ q.payablesCount = a /\ q.paymentsCount = r.paymentsCount
            /\ q.withdrawalsCount = r.withdrawalsCount
         /\ LET q == [r EXCEPT !.paymentsCount = a, !.activitiesCount = n] IN
            /\ q.activitiesCount = n /\ q.chainCount = r.chainCount
            /\ q.payablesCount = r.payablesCount /\ q.paymentsCount = a
            /\ q.withdrawalsCount = r.withdrawalsCount
         /\ LET q == [r EXCEPT !.withdrawalsCount = a, !.activitiesCount = n] IN
            /\ q.activitiesCount = n /\ q.chainCount = r.chainCount
            /\ q.payablesCount = r.payablesCount /\ q.paymentsCount = r.paymentsCount
            /\ q.withdrawalsCount = a
         /\ LET q == [r EXCEPT !.chainCount = a, !.activitiesCount = n] IN
            /\ q.activitiesCount = n /\ q.chainCount = a
            /\ q.payablesCount = r.payablesCount /\ q.paymentsCount = r.paymentsCount
            /\ q.withdrawalsCount = r.withdrawalsCount
BY DEF User

LEMMA StatsFields ==
  ASSUME NEW r \in ChainStats, NEW a \in Nat, NEW b \in Nat, NEW c \in Nat, NEW n \in Nat
  PROVE  /\ LET q == [r EXCEPT !.usersCount = a, !.payablesCount = b, !.activitiesCount = n] IN
            /\ q.usersCount = a /\ q.payablesCount = b /\ q.activitiesCount = n
            /\ q.userPaymentsCount = r.userPaymentsCount
            /\ q.payablePaymentsCount = r.payablePaymentsCount
            /\ q.withdrawalsCount = r.withdrawalsCount
            /\ q.consumedWormholeMessagesCount = r.consumedWormholeMessagesCount
         /\ LET q == [r EXCEPT !.usersCount = a, !.userPaymentsCount = b,
                               !.payablePaymentsCount = c, !.activitiesCount = n] IN
            /\ q.usersCount = a /\ q.payablesCount = r.payablesCount /\ q.activitiesCount = n
            /\ q.userPaymentsCount = b
            /\ q.payablePaymentsCount = c
            /\ q.withdrawalsCount = r.withdrawalsCount
            /\ q.consumedWormholeMessagesCount = r.consumedWormholeMessagesCount
         /\ LET q == [r EXCEPT !.payablePaymentsCount = a, !.activitiesCount = n,
                               !.consumedWormholeMessagesCount = b] IN
            /\ q.usersCount = r.usersCount /\ q.payablesCount = r.payablesCount
            /\ q.activitiesCount = n
            /\ q.userPaymentsCount = r.userPaymentsCount
            /\ q.payablePaymentsCount = a
            /\ q.withdrawalsCount = r.withdrawalsCount
            /\ q.consumedWormholeMessagesCount = b
         /\ LET q == [r EXCEPT !.withdrawalsCount = a, !.activitiesCount = n] IN
            /\ q.usersCount = r.usersCount /\ q.payablesCount = r.payablesCount
            /\ q.activitiesCount = n
            /\ q.userPaymentsCount = r.userPaymentsCount
            /\ q.payablePaymentsCount = r.payablePaymentsCount
            /\ q.withdrawalsCount = a
            /\ q.consumedWormholeMessagesCount = r.consumedWormholeMessagesCount
         /\ LET q == [r EXCEPT !.activitiesCount = n] IN
            /\ q.usersCount = r.usersCount /\ q.payablesCount = r.payablesCount
            /\ q.activitiesCount = n
            /\ q.userPaymentsCount = r.userPaymentsCount
            /\ q.payablePaymentsCount = r.payablePaymentsCount
            /\ q.withdrawalsCount = r.withdrawalsCount
            /\ q.consumedWormholeMessagesCount = r.consumedWormholeMessagesCount
BY DEF ChainStats

LEMMA PayableFields ==
  ASSUME NEW r \in Payable, NEW a \in Nat, NEW n \in Nat, NEW u, NEW l, NEW b
  PROVE  /\ LET q == [r EXCEPT !.paymentsCount = a, !.activitiesCount = n] IN
            q.paymentsCount = a /\ q.withdrawalsCount = r.withdrawalsCount
         /\ LET q == [r EXCEPT !.withdrawalsCount = a, !.activitiesCount = n] IN
            q.paymentsCount = r.paymentsCount /\ q.withdrawalsCount = a
         /\ LET q == [NoPayable EXCEPT !.host = u, !.isAutoWithdraw = b, !.allowed = l,
                                       !.activitiesCount = 1] IN
            q.paymentsCount = 0 /\ q.withdrawalsCount = 0
BY DEF Payable, NoPayable

LEMMA TokenFields ==
  ASSUME NEW r \in TokenDetails, NEW a \in Nat, NEW b \in Nat, NEW x
  PROVE  /\ LET q == [r EXCEPT !.totalUserPaid = a, !.totalPayableReceived = b] IN
            q.totalUserPaid = a /\ q.totalPayableReceived = b
         /\ LET q == [r EXCEPT !.totalWithdrawn = a, !.totalWithdrawalFeesCollected = b] IN
            q.totalUserPaid = r.totalUserPaid /\ q.totalPayableReceived = r.totalPayableReceived
         /\ LET q == [r EXCEPT !.maxWithdrawalFees = x] IN
            q.totalUserPaid = r.totalUserPaid /\ q.totalPayableReceived = r.totalPayableReceived
         /\ LET q == [r EXCEPT !.isSupported = x] IN
            q.totalUserPaid = r.totalUserPaid /\ q.totalPayableReceived = r.totalPayableReceived
         /\ LET q == [r EXCEPT !.totalPayableReceived = a] IN
            q.totalUserPaid = r.totalUserPaid /\ q.totalPayableReceived = a
BY DEF TokenDetails

-----------------------------------------------------------------------------
(* The two kinds of change of which every call is made.                    *)

LEMMA PayableIdsFinite == IsFiniteSet(PayableIds)
BY BoundsAreNaturals, FS_Interval DEF PayableIds

\* What a call adds to one user's counters and to the chain's.
UserGrows(u, paid, created, withdrew, acted, received) ==
  /\ \A v \in Users \ {u} : users'[v] = users[v]
  /\ users'[u].paymentsCount = users[u].paymentsCount + paid
  /\ users'[u].payablesCount = users[u].payablesCount + created
  /\ users'[u].withdrawalsCount = users[u].withdrawalsCount + withdrew
  /\ users'[u].activitiesCount = users[u].activitiesCount + acted
  /\ chainStats'.userPaymentsCount = chainStats.userPaymentsCount + paid
  /\ chainStats'.payablesCount = chainStats.payablesCount + created
  /\ chainStats'.withdrawalsCount = chainStats.withdrawalsCount + withdrew
  /\ chainStats'.payablePaymentsCount = chainStats.payablePaymentsCount + received
  /\ chainStats'.activitiesCount = chainStats.activitiesCount + acted + received

\* One user's counters grow, and the chain's with them.
LEMMA UsersCounted ==
  ASSUME TypeOK, TypeOK', UserCountersAgree, NEW u \in Users,
         NEW paid \in Nat, NEW created \in Nat, NEW withdrew \in Nat, NEW acted \in Nat,
         NEW received \in Nat,
         UserGrows(u, paid, created, withdrew, acted, received)
  PROVE  UserCountersAgree'
<1> DEFINE acts == SumFunction([v \in Users |-> users[v].activitiesCount])
           newActs == SumFunction([v \in Users |-> users'[v].activitiesCount])
<1>1. users \in [Users -> User] /\ users' \in [Users -> User] /\ chainStats \in ChainStats
  BY DEF TypeOK
<1>2. /\ SumFunction([v \in Users |-> users'[v].paymentsCount])
           = SumFunction([v \in Users |-> users[v].paymentsCount]) + paid
      /\ SumFunction([v \in Users |-> users'[v].payablesCount])
           = SumFunction([v \in Users |-> users[v].payablesCount]) + created
      /\ SumFunction([v \in Users |-> users'[v].withdrawalsCount])
           = SumFunction([v \in Users |-> users[v].withdrawalsCount]) + withdrew
      /\ newActs = acts + acted
  <2>1. \A v \in Users : users[v] \in User /\ users'[v] \in User
    BY <1>1
  <2>2. SumFunction([v \in Users |-> users'[v].paymentsCount])
          = SumFunction([v \in Users |-> users[v].paymentsCount]) + paid
    <3> DEFINE f == [v \in Users |-> users[v].paymentsCount]
               g == [v \in Users |-> users'[v].paymentsCount]
    <3>1. f \in [Users -> Nat] /\ g \in [Users -> Nat]
      BY <2>1 DEF User
    <3>2. g[u] = f[u] + paid /\ \A v \in Users \ {u} : g[v] = f[v]
      BY DEF UserGrows
    <3> HIDE DEF f, g
    <3> QED
      BY <3>1, <3>2, UsersAreFinite, TotalGrows DEF f, g
  <2>3. SumFunction([v \in Users |-> users'[v].payablesCount])
          = SumFunction([v \in Users |-> users[v].payablesCount]) + created
    <3> DEFINE f == [v \in Users |-> users[v].payablesCount]
               g == [v \in Users |-> users'[v].payablesCount]
    <3>1. f \in [Users -> Nat] /\ g \in [Users -> Nat]
      BY <2>1 DEF User
    <3>2. g[u] = f[u] + created /\ \A v \in Users \ {u} : g[v] = f[v]
      BY DEF UserGrows
    <3> HIDE DEF f, g
    <3> QED
      BY <3>1, <3>2, UsersAreFinite, TotalGrows DEF f, g
  <2>4. SumFunction([v \in Users |-> users'[v].withdrawalsCount])
          = SumFunction([v \in Users |-> users[v].withdrawalsCount]) + withdrew
    <3> DEFINE f == [v \in Users |-> users[v].withdrawalsCount]
               g == [v \in Users |-> users'[v].withdrawalsCount]
    <3>1. f \in [Users -> Nat] /\ g \in [Users -> Nat]
      BY <2>1 DEF User
    <3>2. g[u] = f[u] + withdrew /\ \A v \in Users \ {u} : g[v] = f[v]
      BY DEF UserGrows
    <3> HIDE DEF f, g
    <3> QED
      BY <3>1, <3>2, UsersAreFinite, TotalGrows DEF f, g
  <2>5. SumFunction([v \in Users |-> users'[v].activitiesCount])
          = SumFunction([v \in Users |-> users[v].activitiesCount]) + acted
    <3> DEFINE f == [v \in Users |-> users[v].activitiesCount]
               g == [v \in Users |-> users'[v].activitiesCount]
    <3>1. f \in [Users -> Nat] /\ g \in [Users -> Nat]
      BY <2>1 DEF User
    <3>2. g[u] = f[u] + acted /\ \A v \in Users \ {u} : g[v] = f[v]
      BY DEF UserGrows
    <3> HIDE DEF f, g
    <3> QED
      BY <3>1, <3>2, UsersAreFinite, TotalGrows DEF f, g
  <2> QED
    BY <2>2, <2>3, <2>4, <2>5
<1>3. /\ chainStats.userPaymentsCount = SumFunction([v \in Users |-> users[v].paymentsCount])
      /\ chainStats.payablesCount = SumFunction([v \in Users |-> users[v].payablesCount])
      /\ chainStats.withdrawalsCount = SumFunction([v \in Users |-> users[v].withdrawalsCount])
      /\ chainStats.activitiesCount = acts + chainStats.payablePaymentsCount
  BY DEF UserCountersAgree
<1>4. acts \in Nat /\ chainStats.payablePaymentsCount \in Nat
  <2> DEFINE f == [v \in Users |-> users[v].activitiesCount]
  <2>1. f \in [Users -> Nat]
    BY <1>1 DEF User
  <2> HIDE DEF f
  <2>2. SumFunction(f) \in Nat
    BY <2>1, UsersAreFinite, TotalType
  <2> QED
    BY <1>1, <2>2 DEF f, ChainStats
<1> HIDE DEF acts, newActs
<1>5. chainStats'.activitiesCount = newActs + chainStats'.payablePaymentsCount
  <2>1. chainStats'.activitiesCount = acts + chainStats.payablePaymentsCount + acted + received
    BY <1>3 DEF UserGrows
  <2>2. acts + chainStats.payablePaymentsCount + acted + received
          = (acts + acted) + (chainStats.payablePaymentsCount + received)
    BY <1>4
  <2>3. newActs = acts + acted
    BY <1>2
  <2> QED
    BY <2>1, <2>2, <2>3 DEF UserGrows
<1> QED
  BY <1>2, <1>3, <1>5 DEF UserCountersAgree, UserGrows, newActs

\* What it adds to one payable's.
PayableGrows(p, received, drained) ==
  /\ \A q \in PayableIds \ {p} : payables'[q] = payables[q]
  /\ payables'[p].paymentsCount = payables[p].paymentsCount + received
  /\ payables'[p].withdrawalsCount = payables[p].withdrawalsCount + drained
  /\ chainStats'.payablePaymentsCount = chainStats.payablePaymentsCount + received
  /\ chainStats'.withdrawalsCount = chainStats.withdrawalsCount + drained

\* One payable's counters grow.
LEMMA PayablesCounted ==
  ASSUME TypeOK, TypeOK', PayableCountersAgree, NEW p \in PayableIds,
         NEW received \in Nat, NEW drained \in Nat,
         PayableGrows(p, received, drained)
  PROVE  PayableCountersAgree'
<1>1. \A q \in PayableIds : payables[q] \in Payable /\ payables'[q] \in Payable
  BY DEF TypeOK
<1>2. SumFunction([q \in PayableIds |-> payables'[q].paymentsCount])
        = SumFunction([q \in PayableIds |-> payables[q].paymentsCount]) + received
  <2> DEFINE f == [q \in PayableIds |-> payables[q].paymentsCount]
             g == [q \in PayableIds |-> payables'[q].paymentsCount]
  <2>1. f \in [PayableIds -> Nat] /\ g \in [PayableIds -> Nat]
    BY <1>1 DEF Payable
  <2>2. g[p] = f[p] + received /\ \A q \in PayableIds \ {p} : g[q] = f[q]
    BY DEF PayableGrows
  <2> HIDE DEF f, g
  <2> QED
    BY <2>1, <2>2, PayableIdsFinite, TotalGrows DEF f, g
<1>3. SumFunction([q \in PayableIds |-> payables'[q].withdrawalsCount])
        = SumFunction([q \in PayableIds |-> payables[q].withdrawalsCount]) + drained
  <2> DEFINE f == [q \in PayableIds |-> payables[q].withdrawalsCount]
             g == [q \in PayableIds |-> payables'[q].withdrawalsCount]
  <2>1. f \in [PayableIds -> Nat] /\ g \in [PayableIds -> Nat]
    BY <1>1 DEF Payable
  <2>2. g[p] = f[p] + drained /\ \A q \in PayableIds \ {p} : g[q] = f[q]
    BY DEF PayableGrows
  <2> HIDE DEF f, g
  <2> QED
    BY <2>1, <2>2, PayableIdsFinite, TotalGrows DEF f, g
<1> QED
  BY <1>2, <1>3 DEF PayableCountersAgree, PayableGrows

\* Nobody new is known, or the one who is gets the next number.
LEMMA NumbersKept ==
  ASSUME UsersNumbered, \A v \in Users : users'[v].chainCount = users[v].chainCount,
         chainStats'.usersCount = chainStats.usersCount
  PROVE  UsersNumbered'
<1>1. KnownUsers' = KnownUsers
  BY DEF KnownUsers
<1>2. {users'[v].chainCount : v \in KnownUsers} = {users[v].chainCount : v \in KnownUsers}
  BY DEF KnownUsers
<1> QED
  BY <1>1, <1>2 DEF UsersNumbered

LEMMA NumberGiven ==
  ASSUME users \in [Users -> User], chainStats.usersCount \in Nat, UsersNumbered,
         NEW u \in Users, users[u].chainCount = 0,
         \A v \in Users \ {u} : users'[v] = users[v],
         users'[u].chainCount = chainStats.usersCount + 1,
         chainStats'.usersCount = chainStats.usersCount + 1
  PROVE  UsersNumbered'
<1> DEFINE n == chainStats.usersCount
<1>1. n \in Nat /\ chainStats'.usersCount = n + 1 /\ users'[u].chainCount = n + 1
  OBVIOUS
<1>2. u \notin KnownUsers /\ IsFiniteSet(KnownUsers)
  BY UsersAreFinite, FS_Subset DEF KnownUsers
<1>3. KnownUsers' = KnownUsers \cup {u}
  BY <1>1 DEF KnownUsers
<1>4. Cardinality(KnownUsers') = n + 1
  <2> DEFINE known == KnownUsers
  <2>1. u \notin known /\ IsFiniteSet(known) /\ Cardinality(known) = n
    BY <1>2 DEF UsersNumbered
  <2> HIDE DEF known, n
  <2>2. Cardinality(known \cup {u}) = n + 1
    BY <2>1, FS_AddElement
  <2> QED
    BY <1>3, <2>2 DEF known
<1>5. \A v \in KnownUsers : users'[v].chainCount = users[v].chainCount
  BY <1>2 DEF KnownUsers
<1>6. {users'[v].chainCount : v \in KnownUsers \cup {u}}
        = {users[v].chainCount : v \in KnownUsers} \cup {n + 1}
  BY <1>1, <1>5
<1>7. {users[v].chainCount : v \in KnownUsers} = 1..n
  BY DEF UsersNumbered
<1> HIDE DEF n
<1>8. (1..n) \cup {n + 1} = 1..(n + 1)
  BY <1>1
<1>9. {users'[v].chainCount : v \in KnownUsers'} = 1..chainStats'.usersCount
  BY <1>1, <1>3, <1>6, <1>7, <1>8
<1> QED
  BY <1>1, <1>4, <1>9 DEF UsersNumbered

-----------------------------------------------------------------------------
(* The invariant, and the calls that change no counter.                    *)

\* A payable that was not created counts nothing.
Fresh ==
  \A p \in PayableIds :
    ~ Exists(p) => payables[p].paymentsCount = 0 /\ payables[p].withdrawalsCount = 0

MessagesFinite ==
  IsFiniteSet(consumedMessages) /\ \A t \in Tokens : IsFiniteSet(Redeemed(t))

Tallies == Fresh /\ MessagesFinite /\ CountersAgree

CountInv == IdsInv /\ Tallies

\* Calls that change no counter, but perhaps a token's settings.
LEMMA ForeignKept ==
  ASSUME MessagesFinite, ForeignCreditsOnce,
         UNCHANGED consumedMessages, usedCircleNonces \subseteq usedCircleNonces',
         chainStats'.consumedWormholeMessagesCount = chainStats.consumedWormholeMessagesCount,
         TypeOK, TypeOK',
         \A t \in Tokens :
           tokenDetails'[t].totalPayableReceived + tokenDetails[t].totalUserPaid
             = tokenDetails[t].totalPayableReceived + tokenDetails'[t].totalUserPaid
  PROVE  MessagesFinite' /\ ForeignCreditsOnce'
<1>1. /\ \A t \in Tokens : Redeemed(t)' = Redeemed(t)
      /\ Consumed' = Consumed
  BY DEF Redeemed, Consumed
<1>2. MessagesFinite'
  BY <1>1 DEF MessagesFinite
<1>3. ASSUME NEW t \in Tokens
      PROVE  tokenDetails'[t].totalPayableReceived =
               tokenDetails'[t].totalUserPaid + SumFunction([m \in Redeemed(t)' |-> m.amount])
  <2> DEFINE f == [m \in Redeemed(t) |-> m.amount]
             s == SumFunction(f)
  <2>1. tokenDetails[t].totalPayableReceived = tokenDetails[t].totalUserPaid + s
    BY DEF ForeignCreditsOnce
  <2>2. f \in [Redeemed(t) -> Nat]
    BY InboundAreMessages, AmountsAreNat DEF Redeemed, Consumed
  <2>3. s \in Nat
    <3> HIDE DEF f
    <3> QED
      BY <2>2, TotalType DEF MessagesFinite
  <2>4. /\ tokenDetails[t].totalUserPaid \in Nat /\ tokenDetails'[t].totalUserPaid \in Nat
        /\ tokenDetails'[t].totalPayableReceived \in Nat
    BY DEF TypeOK, TokenDetails
  <2>5. SumFunction([m \in Redeemed(t)' |-> m.amount]) = s
    BY <1>1
  <2> HIDE DEF s, f
  <2> QED
    BY <2>1, <2>3, <2>4, <2>5
<1>4. \A m \in Consumed' : m.circleNonce \in usedCircleNonces'
  BY <1>1 DEF ForeignCreditsOnce
<1>5. \A m, i \in Consumed' : m.circleNonce = i.circleNonce => m = i
  BY <1>1 DEF ForeignCreditsOnce
<1> QED
  BY <1>2, <1>3, <1>4, <1>5 DEF ForeignCreditsOnce

LEMMA NothingCounted ==
  ASSUME CountInv, TypeOK', UNCHANGED <<chainStats, users, payables, consumedMessages>>,
         usedCircleNonces \subseteq usedCircleNonces',
         \A t \in Tokens :
           /\ tokenDetails'[t].totalPayableReceived = tokenDetails[t].totalPayableReceived
           /\ tokenDetails'[t].totalUserPaid = tokenDetails[t].totalUserPaid
  PROVE  Tallies'
<1>1. UserCountersAgree' /\ PayableCountersAgree' /\ UsersNumbered' /\ Fresh'
  BY DEF CountInv, Tallies, CountersAgree, UserCountersAgree, PayableCountersAgree,
         UsersNumbered, KnownUsers, Fresh, Exists
<1>2. MessagesFinite' /\ ForeignCreditsOnce'
  BY ForeignKept DEF CountInv, Tallies, CountersAgree, IdsInv, EInv
<1> QED
  BY <1>1, <1>2 DEF Tallies, CountersAgree

LEMMA InitializedFields ==
  ASSUME IdsInv, NEW u \in Users
  PROVE  LET user == InitializedUser(u) IN
         /\ user \in User
         /\ user.payablesCount = users[u].payablesCount
         /\ user.paymentsCount = users[u].paymentsCount
         /\ user.withdrawalsCount = users[u].withdrawalsCount
         /\ user.activitiesCount = users[u].activitiesCount + NewUser(u)
         /\ user.chainCount = IF users[u].chainCount = 0 THEN chainStats.usersCount + 1
                              ELSE users[u].chainCount
<1> DEFINE user == InitializedUser(u)
           next == chainStats.usersCount + 1
<1>1. TypeOK /\ users \in [Users -> User] /\ users[u] \in User /\ chainStats \in ChainStats
  BY DEF IdsInv, EInv, TypeOK
<1>2. user \in User
  BY <1>1, InitializedUserType
<1>3. CASE users[u].chainCount # 0
  <2>1. user = users[u] /\ NewUser(u) = 0
    BY <1>3 DEF InitializedUser, NewUser
  <2> HIDE DEF user
  <2>2. user.activitiesCount = users[u].activitiesCount + NewUser(u)
    BY <1>1, <2>1 DEF User
  <2> QED
    BY <1>2, <1>3, <2>1, <2>2 DEF user
<1>4. CASE users[u].chainCount = 0
  <2>1. user = [users[u] EXCEPT !.chainCount = next, !.activitiesCount = 1] /\ NewUser(u) = 1
    BY <1>4 DEF InitializedUser, NewUser
  <2>2. users[u].activitiesCount = 0
    BY <1>4 DEF IdsInv, Known
  <2>3. next \in Nat
    BY <1>1 DEF ChainStats
  <2> HIDE DEF next
  <2>4. [users[u] EXCEPT !.chainCount = next, !.activitiesCount = 1].activitiesCount
          = users[u].activitiesCount + NewUser(u)
    BY <1>1, <2>1, <2>2, <2>3, UserFields
  <2>5. user.chainCount = next /\ user.payablesCount = users[u].payablesCount
        /\ user.paymentsCount = users[u].paymentsCount
        /\ user.withdrawalsCount = users[u].withdrawalsCount
    BY <1>1, <2>1, <2>3, UserFields
  <2> QED
    BY <1>2, <1>4, <2>1, <2>4, <2>5 DEF next
<1> QED
  BY <1>3, <1>4

LEMMA NumbersInitialized ==
  ASSUME IdsInv, UsersNumbered, NEW u \in Users,
         \A v \in Users \ {u} : users'[v] = users[v],
         users'[u].chainCount = InitializedUser(u).chainCount,
         chainStats'.usersCount = chainStats.usersCount + NewUser(u)
  PROVE  UsersNumbered'
<1>1. users \in [Users -> User] /\ chainStats.usersCount \in Nat
  BY DEF IdsInv, EInv, TypeOK, ChainStats
<1>2. InitializedUser(u).chainCount = IF users[u].chainCount = 0 THEN chainStats.usersCount + 1
                              ELSE users[u].chainCount
  BY InitializedFields
<1>3. CASE users[u].chainCount = 0
  <2>1. NewUser(u) = 1
    BY <1>3 DEF NewUser
  <2>2. chainStats'.usersCount = chainStats.usersCount + 1 /\ users'[u].chainCount = chainStats.usersCount + 1
    BY <1>2, <1>3, <2>1
  <2> QED
    BY <1>1, <1>3, <2>2, NumberGiven
<1>4. CASE users[u].chainCount # 0
  <2>1. NewUser(u) = 0
    BY <1>4 DEF NewUser
  <2>2. chainStats'.usersCount = chainStats.usersCount
    BY <1>1, <2>1
  <2>3. \A v \in Users : users'[v].chainCount = users[v].chainCount
    BY <1>2, <1>4
  <2> QED
    BY <2>2, <2>3, NumbersKept
<1> QED
  BY <1>3, <1>4

LEMMA OneChanged ==
  ASSUME NEW S, NEW T, NEW f \in [S -> T], NEW x \in S, NEW y
  PROVE  [f EXCEPT ![x] = y][x] = y /\ \A z \in S \ {x} : [f EXCEPT ![x] = y][z] = f[z]
OBVIOUS

\* Only p's record changes, and p exists.
LEMMA FreshKept ==
  ASSUME Fresh, NEW p \in PayableIds, payables'[p].host # NoAddress,
         \A x \in PayableIds \ {p} : payables'[x] = payables[x]
  PROVE  Fresh'
<1> SUFFICES ASSUME NEW x \in PayableIds, ~ Exists(x)'
             PROVE  payables'[x].paymentsCount = 0 /\ payables'[x].withdrawalsCount = 0
  BY DEF Fresh
<1>1. x # p
  BY DEF Exists
<1> QED
  BY <1>1 DEF Fresh, Exists

LEMMA InitCount == Init => CountInv
<1> SUFFICES ASSUME Init PROVE CountInv
  OBVIOUS
<1>1. IdsInv
  BY InitIds
<1>2. Fresh
  BY DEF Init, Fresh, NoPayable
<1>3. \A t \in Tokens : Redeemed(t) = {}
  BY DEF Init, Redeemed, Consumed
<1>4. MessagesFinite
  BY <1>3, FS_EmptySet DEF Init, MessagesFinite
<1>5. \A f \in [Users -> {0}] : SumFunction(f) = 0
  BY UsersAreFinite, TotalOfZeros
<1>6. \A f \in [PayableIds -> {0}] : SumFunction(f) = 0
  BY PayableIdsFinite, TotalOfZeros
<1>7. UserCountersAgree
  <2>1. /\ [u \in Users |-> users[u].paymentsCount] \in [Users -> {0}]
        /\ [u \in Users |-> users[u].payablesCount] \in [Users -> {0}]
        /\ [u \in Users |-> users[u].withdrawalsCount] \in [Users -> {0}]
        /\ [u \in Users |-> users[u].activitiesCount] \in [Users -> {0}]
    BY DEF Init, NoUserYet
  <2>2. /\ SumFunction([u \in Users |-> users[u].paymentsCount]) = 0
        /\ SumFunction([u \in Users |-> users[u].payablesCount]) = 0
        /\ SumFunction([u \in Users |-> users[u].withdrawalsCount]) = 0
        /\ SumFunction([u \in Users |-> users[u].activitiesCount]) = 0
    BY <1>5, <2>1
  <2> QED
    BY <2>2 DEF Init, NoStats, UserCountersAgree
<1>8. PayableCountersAgree
  <2>1. /\ [p \in PayableIds |-> payables[p].paymentsCount] \in [PayableIds -> {0}]
        /\ [p \in PayableIds |-> payables[p].withdrawalsCount] \in [PayableIds -> {0}]
    BY DEF Init, NoPayable
  <2>2. /\ SumFunction([p \in PayableIds |-> payables[p].paymentsCount]) = 0
        /\ SumFunction([p \in PayableIds |-> payables[p].withdrawalsCount]) = 0
    BY <1>6, <2>1
  <2> QED
    BY <2>2 DEF Init, NoStats, PayableCountersAgree
<1>9. UsersNumbered
  <2>1. KnownUsers = {}
    BY DEF Init, NoUserYet, KnownUsers
  <2> QED
    BY <2>1, FS_EmptySet DEF Init, NoStats, UsersNumbered
<1>10. ForeignCreditsOnce
  <2>1. ASSUME NEW t \in Tokens
        PROVE  SumFunction([m \in Redeemed(t) |-> m.amount]) = 0
    <3> DEFINE f == [m \in Redeemed(t) |-> m.amount]
    <3>1. DOMAIN f = {}
      BY <1>3
    <3> HIDE DEF f
    <3>2. SumFunction(f) = 0
      BY <3>1, TotalOfNothing
    <3> QED
      BY <3>2 DEF f
  <2>2. \A t \in Tokens : tokenDetails[t].totalPayableReceived = 0 /\ tokenDetails[t].totalUserPaid = 0
    BY DEF Init, NoToken
  <2>3. consumedMessages = {} /\ usedCircleNonces = {} /\ chainStats.consumedWormholeMessagesCount = 0
    BY DEF Init, NoStats
  <2>4. Cardinality({}) = 0
    BY FS_EmptySet
  <2>5. Consumed = {}
    BY <2>3 DEF Consumed
  <2> QED
    BY <2>1, <2>2, <2>3, <2>4, <2>5 DEF ForeignCreditsOnce
<1> QED
  BY <1>1, <1>2, <1>4, <1>7, <1>8, <1>9, <1>10 DEF CountInv, Tallies, CountersAgree

-----------------------------------------------------------------------------
(* One lemma for each kind of call.                                        *)

LEMMA OwnerCallCounts == ASSUME CountInv, TypeOK', OwnerCall PROVE Tallies'
<1>1. UNCHANGED <<chainStats, users, payables, messageVars>>
  BY DEF OwnerCall, Pause, Unpause, SetWithdrawalFeePercentage,
         SetFeeCollectorAddress, UpdateMaxWithdrawalFees, UpdateTokenDetails,
         AllowPaymentsForToken, StopPaymentsForToken
<1>2. tokenDetails \in [Tokens -> TokenDetails]
  BY DEF CountInv, IdsInv, EInv, TypeOK
<1>4. ASSUME NEW x \in Tokens, NEW y, NEW t \in Tokens,
             \/ tokenDetails' = [tokenDetails EXCEPT ![x] = [tokenDetails[x] EXCEPT !.maxWithdrawalFees = y]]
             \/ tokenDetails' = [tokenDetails EXCEPT ![x] = [tokenDetails[x] EXCEPT !.isSupported = y]]
      PROVE  /\ tokenDetails'[t].totalPayableReceived = tokenDetails[t].totalPayableReceived
             /\ tokenDetails'[t].totalUserPaid = tokenDetails[t].totalUserPaid
  <2> DEFINE a == [tokenDetails[x] EXCEPT !.maxWithdrawalFees = y]
             b == [tokenDetails[x] EXCEPT !.isSupported = y]
  <2>1. /\ a.totalPayableReceived = tokenDetails[x].totalPayableReceived
        /\ a.totalUserPaid = tokenDetails[x].totalUserPaid
        /\ b.totalPayableReceived = tokenDetails[x].totalPayableReceived
        /\ b.totalUserPaid = tokenDetails[x].totalUserPaid
    <3>1. tokenDetails[x] \in TokenDetails
      BY <1>2
    <3> QED
      BY <3>1 DEF TokenDetails
  <2>2. tokenDetails' = [tokenDetails EXCEPT ![x] = a] \/ tokenDetails' = [tokenDetails EXCEPT ![x] = b]
    BY <1>4
  <2> HIDE DEF a, b
  <2> QED
    BY <1>2, <2>1, <2>2
<1>5. ASSUME NEW t \in Tokens
      PROVE  /\ tokenDetails'[t].totalPayableReceived = tokenDetails[t].totalPayableReceived
             /\ tokenDetails'[t].totalUserPaid = tokenDetails[t].totalUserPaid
  <2>1. CASE \E x \in Tokens, c \in FeeCaps : UpdateMaxWithdrawalFees(x, c)
    BY <1>4, <2>1 DEF UpdateMaxWithdrawalFees, UpdateTokenDetails
  <2>2. CASE \E x \in Tokens : AllowPaymentsForToken(x)
    BY <1>4, <2>2 DEF AllowPaymentsForToken, UpdateTokenDetails
  <2>3. CASE \E x \in Tokens : StopPaymentsForToken(x)
    BY <1>4, <2>3 DEF StopPaymentsForToken, UpdateTokenDetails
  <2>4. CASE tokenDetails' = tokenDetails
    BY <2>4
  <2> QED
    BY <2>1, <2>2, <2>3, <2>4 DEF OwnerCall, Pause, Unpause, SetWithdrawalFeePercentage,
         SetFeeCollectorAddress
<1> QED
  BY <1>1, <1>5, NothingCounted DEF messageVars

LEMMA UpdateCounts ==
  ASSUME CountInv, IdsInv', NEW p \in PayableIds, Exists(p), NEW updated \in Payable,
         updated.host = payables[p].host,
         updated.paymentsCount = payables[p].paymentsCount,
         updated.withdrawalsCount = payables[p].withdrawalsCount,
         RecordUpdatePayableActivity(p, updated)
  PROVE  Tallies'
<1> DEFINE u == payables[p].host
           zero == 0
           one == 1
           n == users[u].activitiesCount + 1
           r == [users[u] EXCEPT !.activitiesCount = n]
           k == updated.activitiesCount + 1
           q == [updated EXCEPT !.activitiesCount = k]
           m == chainStats.activitiesCount + 1
           s == [chainStats EXCEPT !.activitiesCount = m]
<1>1. /\ IdsInv /\ TypeOK /\ TypeOK' /\ users \in [Users -> User] /\ payables \in [PayableIds -> Payable]
      /\ chainStats \in ChainStats /\ tokenDetails \in [Tokens -> TokenDetails]
  BY DEF CountInv, IdsInv, EInv, TypeOK
<1>2. u \in Users /\ users[u] \in User /\ n \in Nat /\ m \in Nat /\ zero \in Nat /\ one \in Nat
  BY <1>1 DEF Exists, Payable, User, ChainStats
<1>3. /\ users' = [users EXCEPT ![u] = r] /\ payables' = [payables EXCEPT ![p] = q]
      /\ chainStats' = s
      /\ UNCHANGED <<tokenDetails, consumedMessages, usedCircleNonces>>
  BY <1>1 DEF RecordUpdatePayableActivity, configVars, messageVars
<1>4. /\ q.paymentsCount = payables[p].paymentsCount /\ q.host # NoAddress
      /\ q.withdrawalsCount = payables[p].withdrawalsCount
  BY DEF Payable, Exists
<1>5. /\ r.activitiesCount = n /\ r.chainCount = users[u].chainCount
      /\ r.payablesCount = users[u].payablesCount /\ r.paymentsCount = users[u].paymentsCount
      /\ r.withdrawalsCount = users[u].withdrawalsCount
  <2> HIDE DEF n, u
  <2> QED
    BY <1>2, UserFields
<1>6. /\ s.usersCount = chainStats.usersCount /\ s.payablesCount = chainStats.payablesCount
      /\ s.activitiesCount = m
      /\ s.userPaymentsCount = chainStats.userPaymentsCount
      /\ s.payablePaymentsCount = chainStats.payablePaymentsCount
      /\ s.withdrawalsCount = chainStats.withdrawalsCount
      /\ s.consumedWormholeMessagesCount = chainStats.consumedWormholeMessagesCount
  <2> HIDE DEF m
  <2> QED
    BY <1>1, <1>2, StatsFields
<1> HIDE DEF r, q, s, u
<1>7. users'[u] = r /\ (\A v \in Users \ {u} : users'[v] = users[v])
      /\ payables'[p] = q /\ (\A x \in PayableIds \ {p} : payables'[x] = payables[x])
  BY <1>1, <1>2, <1>3
<1>8. UserGrows(u, zero, zero, zero, one, zero)
  <2>1. /\ users[u].payablesCount \in Nat /\ users[u].paymentsCount \in Nat
        /\ users[u].withdrawalsCount \in Nat
        /\ chainStats.userPaymentsCount \in Nat /\ chainStats.payablesCount \in Nat
        /\ chainStats.withdrawalsCount \in Nat
        /\ chainStats.payablePaymentsCount \in Nat /\ chainStats.activitiesCount \in Nat
    BY <1>1, <1>2, BoundsAreNaturals DEF User, ChainStats
  <2> QED
    BY <1>3, <1>5, <1>6, <1>7, <2>1 DEF UserGrows
<1>9. PayableGrows(p, zero, zero)
  <2>1. /\ payables[p].paymentsCount \in Nat /\ payables[p].withdrawalsCount \in Nat
        /\ chainStats.withdrawalsCount \in Nat
        /\ chainStats.payablePaymentsCount \in Nat
    BY <1>1, BoundsAreNaturals DEF Payable, ChainStats
  <2> QED
    BY <1>3, <1>4, <1>6, <1>7, <2>1 DEF PayableGrows
<1> HIDE DEF zero, one, n, m, k
<1>10. UserCountersAgree'
  BY <1>1, <1>2, <1>8, UsersCounted DEF CountInv, Tallies, CountersAgree
<1>11. PayableCountersAgree'
  BY <1>1, <1>2, <1>9, PayablesCounted DEF CountInv, Tallies, CountersAgree
<1>12. UsersNumbered'
  <2>1. \A v \in Users : users'[v].chainCount = users[v].chainCount
    BY <1>5, <1>7
  <2> QED
    BY <1>3, <1>6, <2>1, NumbersKept DEF CountInv, Tallies, CountersAgree
<1>13. MessagesFinite' /\ ForeignCreditsOnce'
  <2>1. chainStats'.consumedWormholeMessagesCount = chainStats.consumedWormholeMessagesCount
    BY <1>3, <1>6
  <2>2. \A t \in Tokens : tokenDetails'[t].totalPayableReceived + tokenDetails[t].totalUserPaid
             = tokenDetails[t].totalPayableReceived + tokenDetails'[t].totalUserPaid
    BY <1>3
  <2> QED
    BY <1>1, <1>3, <2>1, <2>2, ForeignKept DEF CountInv, Tallies, CountersAgree
<1>14. Fresh'
  BY <1>1, <1>4, <1>7, FreshKept DEF CountInv, Tallies
<1> QED
  BY <1>10, <1>11, <1>12, <1>13, <1>14 DEF Tallies, CountersAgree

LEMMA SettleCounts ==
  ASSUME CountInv, IdsInv', SettleWithdrawal
  PROVE  Tallies'
<1> DEFINE p == Head(calls).payable
           t == Head(calls).token
           u == payables[p].host
           zero == 0
           one == 1
           n == users[u].activitiesCount + 1
           w == users[u].withdrawalsCount + 1
           r == [users[u] EXCEPT !.withdrawalsCount = w, !.activitiesCount = n]
           k == payables[p].activitiesCount + 1
           d == payables[p].withdrawalsCount + 1
           q == [payables[p] EXCEPT !.withdrawalsCount = d, !.activitiesCount = k]
           m == chainStats.activitiesCount + 1
           c == chainStats.withdrawalsCount + 1
           s == [chainStats EXCEPT !.withdrawalsCount = c, !.activitiesCount = m]
           x == tokenDetails[t].totalWithdrawn + Head(calls).amount
           y == tokenDetails[t].totalWithdrawalFeesCollected + Head(calls).fees
           e == [tokenDetails[t] EXCEPT !.totalWithdrawn = x,
                                        !.totalWithdrawalFeesCollected = y]
<1>1. /\ IdsInv /\ TypeOK /\ TypeOK' /\ users \in [Users -> User] /\ payables \in [PayableIds -> Payable]
      /\ chainStats \in ChainStats /\ tokenDetails \in [Tokens -> TokenDetails]
  BY DEF CountInv, IdsInv, EInv, TypeOK
<1>2. /\ calls # <<>> /\ Head(calls) \in Frame /\ p \in PayableIds /\ t \in Tokens /\ Exists(p)
  BY <1>1, OneFrame DEF SettleWithdrawal, Frame, IdsInv, Hosted
<1>3. /\ u \in Users /\ users[u] \in User /\ n \in Nat /\ w \in Nat /\ m \in Nat /\ c \in Nat
      /\ payables[p] \in Payable /\ d \in Nat /\ k \in Nat /\ zero \in Nat /\ one \in Nat
  <2>1. payables[p] \in Payable /\ u \in Users
    <3> HIDE DEF p
    <3> QED
      BY <1>1, <1>2 DEF Exists, Payable
  <2>2. users[u] \in User
    BY <1>1, <2>1
  <2>3. n \in Nat /\ w \in Nat
    <3> HIDE DEF u
    <3> QED
      BY <2>2 DEF User
  <2>4. d \in Nat /\ k \in Nat
    <3> HIDE DEF p
    <3> QED
      BY <2>1 DEF Payable
  <2>5. m \in Nat /\ c \in Nat
    BY <1>1 DEF ChainStats
  <2> QED
    BY <2>1, <2>2, <2>3, <2>4, <2>5
<1>4. /\ tokenDetails[t] \in TokenDetails /\ x \in Nat /\ y \in Nat
  BY <1>1, <1>2 DEF TokenDetails, Frame
<1>5. /\ users' = [users EXCEPT ![u] = r] /\ payables' = [payables EXCEPT ![p] = q]
      /\ UNCHANGED <<consumedMessages, usedCircleNonces>>
  BY DEF SettleWithdrawal, messageVars
<1>6. chainStats' = s
  <2>1. chainStats' = [chainStats EXCEPT !.withdrawalsCount = @ + 1, !.activitiesCount = @ + 1]
    BY DEF SettleWithdrawal
  <2> QED
    BY <1>1, <2>1 DEF ChainStats
<1>7. tokenDetails' = [tokenDetails EXCEPT ![t] = e]
  BY DEF SettleWithdrawal, WithdrawnTotals
<1>8. /\ q.paymentsCount = payables[p].paymentsCount /\ q.host # NoAddress
      /\ q.withdrawalsCount = d
  <2> HIDE DEF d, k, p
  <2> QED
    BY <1>2, <1>3, PayableFields DEF Payable, Exists
<1>9. /\ r.activitiesCount = n /\ r.chainCount = users[u].chainCount
      /\ r.payablesCount = users[u].payablesCount /\ r.paymentsCount = users[u].paymentsCount
      /\ r.withdrawalsCount = w
  <2> HIDE DEF n, w, u
  <2> QED
    BY <1>3, UserFields
<1>10. /\ s.usersCount = chainStats.usersCount /\ s.payablesCount = chainStats.payablesCount
      /\ s.activitiesCount = m
      /\ s.userPaymentsCount = chainStats.userPaymentsCount
      /\ s.payablePaymentsCount = chainStats.payablePaymentsCount
      /\ s.withdrawalsCount = c
      /\ s.consumedWormholeMessagesCount = chainStats.consumedWormholeMessagesCount
  <2> HIDE DEF m, c
  <2> QED
    BY <1>1, <1>3, StatsFields
<1>11. /\ e.totalUserPaid = tokenDetails[t].totalUserPaid
       /\ e.totalPayableReceived = tokenDetails[t].totalPayableReceived
  <2> HIDE DEF x, y, t
  <2> QED
    BY <1>4, TokenFields
<1> HIDE DEF r, q, s, u, e, p, t
<1>12. users'[u] = r /\ (\A v \in Users \ {u} : users'[v] = users[v])
      /\ payables'[p] = q /\ (\A i \in PayableIds \ {p} : payables'[i] = payables[i])
  BY <1>1, <1>2, <1>3, <1>5
<1>13. UserGrows(u, zero, zero, one, one, zero)
  <2>1. /\ users[u].payablesCount \in Nat /\ users[u].paymentsCount \in Nat
        /\ chainStats.userPaymentsCount \in Nat /\ chainStats.payablesCount \in Nat
        /\ chainStats.payablePaymentsCount \in Nat /\ chainStats.activitiesCount \in Nat
    BY <1>1, <1>3, BoundsAreNaturals DEF User, ChainStats
  <2> QED
    BY <1>6, <1>9, <1>10, <1>12, <2>1 DEF UserGrows
<1>14. PayableGrows(p, zero, one)
  <2>1. payables[p].paymentsCount \in Nat /\ chainStats.payablePaymentsCount \in Nat
    BY <1>1, <1>3 DEF Payable, ChainStats
  <2> QED
    BY <1>6, <1>8, <1>10, <1>12, <2>1 DEF PayableGrows
<1> HIDE DEF zero, one, n, m, k, w, d, c, x, y
<1>15. UserCountersAgree'
  BY <1>1, <1>3, <1>13, UsersCounted DEF CountInv, Tallies, CountersAgree
<1>16. PayableCountersAgree'
  BY <1>1, <1>2, <1>3, <1>14, PayablesCounted DEF CountInv, Tallies, CountersAgree
<1>17. UsersNumbered'
  <2>1. \A v \in Users : users'[v].chainCount = users[v].chainCount
    BY <1>9, <1>12
  <2> QED
    BY <1>6, <1>10, <2>1, NumbersKept DEF CountInv, Tallies, CountersAgree
<1>18. MessagesFinite' /\ ForeignCreditsOnce'
  <2>1. chainStats'.consumedWormholeMessagesCount = chainStats.consumedWormholeMessagesCount
    BY <1>6, <1>10
  <2>2. \A i \in Tokens : tokenDetails'[i].totalPayableReceived + tokenDetails[i].totalUserPaid
             = tokenDetails[i].totalPayableReceived + tokenDetails'[i].totalUserPaid
    BY <1>1, <1>2, <1>7, <1>11
  <2> QED
    BY <1>1, <1>5, <2>1, <2>2, ForeignKept DEF CountInv, Tallies, CountersAgree
<1>19. Fresh'
  BY <1>2, <1>8, <1>12, FreshKept DEF CountInv, Tallies
<1> QED
  BY <1>15, <1>16, <1>17, <1>18, <1>19 DEF Tallies, CountersAgree

LEMMA CreateCounts ==
  ASSUME CountInv, IdsInv', NEW u \in Users, NEW l \in AllowedLists, NEW b \in BOOLEAN,
         CreatePayable(u, l, b)
  PROVE  Tallies'
<1> DEFINE p == chainStats.payablesCount + 1
           user == InitializedUser(u)
           v == NewUser(u)
           zero == 0
           one == 1
           acted == v + 1
           n == user.activitiesCount + 1
           w == user.payablesCount + 1
           r == [user EXCEPT !.payablesCount = w, !.activitiesCount = n]
           q == [NoPayable EXCEPT !.host = u, !.isAutoWithdraw = b,
                                  !.allowed = l, !.activitiesCount = 1]
           m == chainStats.activitiesCount + v + 1
           c == chainStats.usersCount + v
           s == [chainStats EXCEPT !.usersCount = c, !.payablesCount = p, !.activitiesCount = m]
<1>1. /\ IdsInv /\ EInv /\ TypeOK /\ TypeOK' /\ users \in [Users -> User]
      /\ payables \in [PayableIds -> Payable]
      /\ chainStats \in ChainStats /\ tokenDetails \in [Tokens -> TokenDetails]
  BY DEF CountInv, IdsInv, EInv, TypeOK
<1>2. p \in PayableIds /\ ~ Exists(p)
  BY <1>1, CreateHosts DEF EscrowHost, Exists
<1>3. /\ user \in User
      /\ user.payablesCount = users[u].payablesCount
      /\ user.paymentsCount = users[u].paymentsCount
      /\ user.withdrawalsCount = users[u].withdrawalsCount
      /\ user.activitiesCount = users[u].activitiesCount + v
  BY <1>1, InitializedFields
<1>4. v \in {0, 1}
  BY <1>1, InitializedUserType
<1>5. /\ users[u] \in User /\ n \in Nat /\ w \in Nat /\ p \in Nat /\ v \in Nat /\ acted \in Nat
      /\ zero \in Nat /\ one \in Nat
  <2> HIDE DEF user, v
  <2> QED
    BY <1>1, <1>3, <1>4, <1>2 DEF User, PayableIds
<1>6. m \in Nat /\ c \in Nat
  <2> HIDE DEF v
  <2> QED
    BY <1>1, <1>5 DEF ChainStats
<1>7. /\ users' = [users EXCEPT ![u] = r] /\ payables' = [payables EXCEPT ![p] = q]
      /\ UNCHANGED <<consumedMessages, usedCircleNonces, tokenDetails>>
  BY DEF CreatePayable, messageVars, configVars
<1>8. chainStats' = s
  <2>1. chainStats' = [chainStats EXCEPT !.usersCount = @ + v, !.payablesCount = p,
                                         !.activitiesCount = @ + v + 1]
    BY DEF CreatePayable
  <2> HIDE DEF v, p
  <2> QED
    BY <1>1, <2>1 DEF ChainStats
<1>9. q.paymentsCount = 0 /\ q.withdrawalsCount = 0 /\ q.host # NoAddress
  BY NoAddressIsNoUser DEF NoPayable
<1>10. payables[p].paymentsCount = 0 /\ payables[p].withdrawalsCount = 0
  BY <1>2 DEF CountInv, Tallies, Fresh
<1>11. /\ r.activitiesCount = n /\ r.chainCount = user.chainCount
      /\ r.payablesCount = w /\ r.paymentsCount = user.paymentsCount
      /\ r.withdrawalsCount = user.withdrawalsCount
  <2> HIDE DEF n, w, user
  <2> QED
    BY <1>3, <1>5, UserFields
<1>12. /\ s.usersCount = c /\ s.payablesCount = p
      /\ s.activitiesCount = m
      /\ s.userPaymentsCount = chainStats.userPaymentsCount
      /\ s.payablePaymentsCount = chainStats.payablePaymentsCount
      /\ s.withdrawalsCount = chainStats.withdrawalsCount
      /\ s.consumedWormholeMessagesCount = chainStats.consumedWormholeMessagesCount
  <2> HIDE DEF m, c, p
  <2> QED
    BY <1>1, <1>5, <1>6, StatsFields
<1> HIDE DEF r, q, s, user, v
<1>13. users'[u] = r /\ (\A i \in Users \ {u} : users'[i] = users[i])
      /\ payables'[p] = q /\ (\A i \in PayableIds \ {p} : payables'[i] = payables[i])
  <2> HIDE DEF p
  <2> QED
    BY <1>1, <1>2, <1>7
<1>14. UserGrows(u, zero, one, zero, acted, zero)
  <2>1. /\ users[u].payablesCount \in Nat /\ users[u].paymentsCount \in Nat
        /\ users[u].withdrawalsCount \in Nat /\ users[u].activitiesCount \in Nat
        /\ chainStats.userPaymentsCount \in Nat /\ chainStats.payablesCount \in Nat
        /\ chainStats.withdrawalsCount \in Nat
        /\ chainStats.payablePaymentsCount \in Nat /\ chainStats.activitiesCount \in Nat
    BY <1>1, <1>5, BoundsAreNaturals DEF User, ChainStats
  <2>2. /\ users'[u].activitiesCount = users[u].activitiesCount + acted
        /\ chainStats'.activitiesCount = chainStats.activitiesCount + acted + zero
    BY <1>3, <1>5, <1>8, <1>11, <1>12, <1>13, <2>1
  <2> HIDE DEF acted
  <2> QED
    BY <1>3, <1>8, <1>11, <1>12, <1>13, <2>1, <2>2 DEF UserGrows
<1>15. PayableGrows(p, zero, zero)
  <2>1. chainStats.payablePaymentsCount \in Nat /\ chainStats.withdrawalsCount \in Nat
    BY <1>1 DEF ChainStats
  <2> QED
    BY <1>8, <1>9, <1>10, <1>12, <1>13, <2>1 DEF PayableGrows
<1> HIDE DEF zero, one, n, m, w, c, p, acted
<1>16. UserCountersAgree'
  BY <1>1, <1>5, <1>14, UsersCounted DEF CountInv, Tallies, CountersAgree
<1>17. PayableCountersAgree'
  BY <1>1, <1>2, <1>5, <1>15, PayablesCounted DEF CountInv, Tallies, CountersAgree
<1>18. UsersNumbered'
  <2>1. users'[u].chainCount = InitializedUser(u).chainCount
    BY <1>11, <1>13 DEF user
  <2>2. chainStats'.usersCount = chainStats.usersCount + NewUser(u)
    BY <1>8, <1>12 DEF c, v
  <2> QED
    BY <1>1, <1>13, <2>1, <2>2, NumbersInitialized DEF CountInv, Tallies, CountersAgree
<1>19. MessagesFinite' /\ ForeignCreditsOnce'
  <2>1. chainStats'.consumedWormholeMessagesCount = chainStats.consumedWormholeMessagesCount
    BY <1>8, <1>12
  <2>2. \A i \in Tokens : tokenDetails'[i].totalPayableReceived + tokenDetails[i].totalUserPaid
             = tokenDetails[i].totalPayableReceived + tokenDetails'[i].totalUserPaid
    BY <1>7
  <2> QED
    BY <1>1, <1>7, <2>1, <2>2, ForeignKept DEF CountInv, Tallies, CountersAgree
<1>20. Fresh'
  BY <1>2, <1>9, <1>13, FreshKept DEF CountInv, Tallies
<1> QED
  BY <1>16, <1>17, <1>18, <1>19, <1>20 DEF Tallies, CountersAgree

\* What crediting a payable does to its counters.
LEMMA CreditGrows ==
  ASSUME TypeOK, Fresh, NEW p \in PayableIds, Exists(p), NEW t \in Tokens, NEW a \in Nat,
         CreditPayable(p, t, a),
         chainStats'.payablePaymentsCount = chainStats.payablePaymentsCount + 1,
         chainStats'.withdrawalsCount = chainStats.withdrawalsCount
  PROVE  Fresh' /\ PayableGrows(p, 1, 0)
<1> DEFINE k == payables[p].activitiesCount + 1
           d == payables[p].paymentsCount + 1
           q == [payables[p] EXCEPT !.paymentsCount = d, !.activitiesCount = k]
<1>1. payables \in [PayableIds -> Payable] /\ payables[p] \in Payable /\ chainStats \in ChainStats
  BY DEF TypeOK
<1>2. d \in Nat /\ k \in Nat /\ payables[p].withdrawalsCount \in Nat
  BY <1>1 DEF Payable
<1>3. payables' = [payables EXCEPT ![p] = q]
  BY DEF CreditPayable
<1>4. q.paymentsCount = d /\ q.withdrawalsCount = payables[p].withdrawalsCount /\ q.host # NoAddress
  <2> HIDE DEF d, k
  <2> QED
    BY <1>1, <1>2, PayableFields DEF Payable, Exists
<1> HIDE DEF q
<1>5. payables'[p] = q /\ (\A i \in PayableIds \ {p} : payables'[i] = payables[i])
  BY <1>1, <1>3
<1>6. Fresh'
  BY <1>4, <1>5, FreshKept
<1>7. chainStats.withdrawalsCount \in Nat
  BY <1>1 DEF ChainStats
<1> QED
  BY <1>2, <1>4, <1>5, <1>6, <1>7 DEF PayableGrows

LEMMA PayCounts ==
  ASSUME CountInv, IdsInv', NEW u \in Users, NEW p \in PayableIds, NEW t \in Tokens,
         NEW a \in Amounts, NEW value, Pay(u, p, t, a, value)
  PROVE  Tallies'
<1> DEFINE user == InitializedUser(u)
           v == NewUser(u)
           zero == 0
           one == 1
           acted == v + 1
           n == user.activitiesCount + 1
           w == user.paymentsCount + 1
           r == [user EXCEPT !.paymentsCount = w, !.activitiesCount = n]
           m == chainStats.activitiesCount + v + 2
           c == chainStats.usersCount + v
           g == chainStats.userPaymentsCount + 1
           h == chainStats.payablePaymentsCount + 1
           s == [chainStats EXCEPT !.usersCount = c, !.userPaymentsCount = g,
                                   !.payablePaymentsCount = h, !.activitiesCount = m]
           x == tokenDetails[t].totalUserPaid + a
           y == tokenDetails[t].totalPayableReceived + a
           e == [tokenDetails[t] EXCEPT !.totalUserPaid = x, !.totalPayableReceived = y]
<1>1. /\ IdsInv /\ EInv /\ TypeOK /\ TypeOK' /\ users \in [Users -> User]
      /\ chainStats \in ChainStats /\ tokenDetails \in [Tokens -> TokenDetails]
      /\ a \in Nat
  BY AmountsAreNat DEF CountInv, IdsInv, EInv, TypeOK
<1>2. Exists(p) /\ CreditPayable(p, t, a)
  BY DEF Pay
<1>3. /\ user \in User
      /\ user.payablesCount = users[u].payablesCount
      /\ user.paymentsCount = users[u].paymentsCount
      /\ user.withdrawalsCount = users[u].withdrawalsCount
      /\ user.activitiesCount = users[u].activitiesCount + v
  BY <1>1, InitializedFields
<1>4. v \in {0, 1}
  BY <1>1, InitializedUserType
<1>5. /\ users[u] \in User /\ n \in Nat /\ w \in Nat /\ v \in Nat /\ acted \in Nat
      /\ zero \in Nat /\ one \in Nat
  <2> HIDE DEF user, v
  <2> QED
    BY <1>1, <1>3, <1>4 DEF User
<1>6. m \in Nat /\ c \in Nat /\ g \in Nat /\ h \in Nat
  <2> HIDE DEF v
  <2> QED
    BY <1>1, <1>5 DEF ChainStats
<1>7. /\ users' = [users EXCEPT ![u] = r]
      /\ UNCHANGED <<consumedMessages, usedCircleNonces>>
  BY DEF Pay, messageVars
<1>8. chainStats' = s
  <2>1. chainStats' = [chainStats EXCEPT !.usersCount = @ + v, !.userPaymentsCount = @ + 1,
                                         !.payablePaymentsCount = @ + 1,
                                         !.activitiesCount = @ + v + 2]
    BY DEF Pay
  <2> HIDE DEF v
  <2> QED
    BY <1>1, <2>1 DEF ChainStats
<1>9. /\ tokenDetails' = [tokenDetails EXCEPT ![t] = e]
      /\ tokenDetails[t] \in TokenDetails /\ x \in Nat /\ y \in Nat
  <2>1. tokenDetails' = [tokenDetails EXCEPT ![t] = [tokenDetails[t] EXCEPT
                           !.totalUserPaid = @ + a, !.totalPayableReceived = @ + a]]
    BY DEF Pay
  <2>2. tokenDetails[t] \in TokenDetails
    BY <1>1
  <2>3. [tokenDetails[t] EXCEPT !.totalUserPaid = @ + a, !.totalPayableReceived = @ + a] = e
    BY <2>2 DEF TokenDetails
  <2>4. x \in Nat /\ y \in Nat
    BY <1>1, <2>2 DEF TokenDetails
  <2> QED
    BY <2>1, <2>2, <2>3, <2>4
<1>10. e.totalUserPaid = x /\ e.totalPayableReceived = y
  <2> HIDE DEF x, y
  <2> QED
    BY <1>9, TokenFields
<1>11. /\ r.activitiesCount = n /\ r.chainCount = user.chainCount
      /\ r.payablesCount = user.payablesCount /\ r.paymentsCount = w
      /\ r.withdrawalsCount = user.withdrawalsCount
  <2> HIDE DEF n, w, user
  <2> QED
    BY <1>3, <1>5, UserFields
<1>12. /\ s.usersCount = c /\ s.payablesCount = chainStats.payablesCount
      /\ s.activitiesCount = m
      /\ s.userPaymentsCount = g
      /\ s.payablePaymentsCount = h
      /\ s.withdrawalsCount = chainStats.withdrawalsCount
      /\ s.consumedWormholeMessagesCount = chainStats.consumedWormholeMessagesCount
  <2> HIDE DEF m, c, g, h
  <2> QED
    BY <1>1, <1>6, StatsFields
<1> HIDE DEF r, s, e, user, v
<1>13. users'[u] = r /\ (\A i \in Users \ {u} : users'[i] = users[i])
  BY <1>1, <1>7
<1>14. UserGrows(u, one, zero, zero, acted, one)
  <2>1. /\ users[u].payablesCount \in Nat /\ users[u].paymentsCount \in Nat
        /\ users[u].withdrawalsCount \in Nat /\ users[u].activitiesCount \in Nat
        /\ chainStats.userPaymentsCount \in Nat /\ chainStats.payablesCount \in Nat
        /\ chainStats.withdrawalsCount \in Nat
        /\ chainStats.payablePaymentsCount \in Nat /\ chainStats.activitiesCount \in Nat
    BY <1>1, <1>5, BoundsAreNaturals DEF User, ChainStats
  <2>2. /\ users'[u].activitiesCount = users[u].activitiesCount + acted
        /\ chainStats'.activitiesCount = chainStats.activitiesCount + acted + one
    BY <1>3, <1>5, <1>8, <1>11, <1>12, <1>13, <2>1
  <2> HIDE DEF acted
  <2> QED
    BY <1>3, <1>8, <1>11, <1>12, <1>13, <2>1, <2>2 DEF UserGrows
<1>15. Fresh' /\ PayableGrows(p, one, zero)
  <2>1. /\ chainStats'.payablePaymentsCount = chainStats.payablePaymentsCount + 1
        /\ chainStats'.withdrawalsCount = chainStats.withdrawalsCount
    BY <1>8, <1>12
  <2> QED
    BY <1>1, <1>2, <2>1, CreditGrows DEF CountInv, Tallies
<1> HIDE DEF zero, one, n, m, w, c, acted, g, h
<1>16. UserCountersAgree'
  BY <1>1, <1>5, <1>14, UsersCounted DEF CountInv, Tallies, CountersAgree
<1>17. PayableCountersAgree'
  BY <1>1, <1>5, <1>15, PayablesCounted DEF CountInv, Tallies, CountersAgree
<1>18. UsersNumbered'
  <2>1. users'[u].chainCount = InitializedUser(u).chainCount
    BY <1>11, <1>13 DEF user
  <2>2. chainStats'.usersCount = chainStats.usersCount + NewUser(u)
    BY <1>8, <1>12 DEF c, v
  <2> QED
    BY <1>1, <1>13, <2>1, <2>2, NumbersInitialized DEF CountInv, Tallies, CountersAgree
<1>19. MessagesFinite' /\ ForeignCreditsOnce'
  <2>1. chainStats'.consumedWormholeMessagesCount = chainStats.consumedWormholeMessagesCount
    BY <1>8, <1>12
  <2>2. ASSUME NEW i \in Tokens
        PROVE  tokenDetails'[i].totalPayableReceived + tokenDetails[i].totalUserPaid
             = tokenDetails[i].totalPayableReceived + tokenDetails'[i].totalUserPaid
    <3>1. CASE i = t
      <4>1. tokenDetails'[t] = e
        BY <1>1, <1>9
      <4>2. tokenDetails[t].totalPayableReceived \in Nat /\ tokenDetails[t].totalUserPaid \in Nat
        BY <1>9 DEF TokenDetails
      <4>3. y + tokenDetails[t].totalUserPaid = tokenDetails[t].totalPayableReceived + x
        BY <1>1, <4>2 DEF x, y
      <4> QED
        BY <1>10, <3>1, <4>1, <4>3
    <3>2. CASE i # t
      <4>1. tokenDetails'[i] = tokenDetails[i]
        BY <1>1, <1>9, <3>2
      <4>2. tokenDetails[i].totalPayableReceived \in Nat /\ tokenDetails[i].totalUserPaid \in Nat
        BY <1>1 DEF TokenDetails
      <4> QED
        BY <4>1, <4>2
    <3> QED
      BY <3>1, <3>2
  <2> QED
    BY <1>1, <1>7, <2>1, <2>2, ForeignKept DEF CountInv, Tallies, CountersAgree
<1> QED
  BY <1>15, <1>16, <1>17, <1>18, <1>19 DEF Tallies, CountersAgree

LEMMA ReceiveCounts ==
  ASSUME CountInv, IdsInv', NEW m \in Inbound, ReceiveForeignPaymentWithCircle(m)
  PROVE  Tallies'
<1> DEFINE p == m.payable
           t == m.token
           a == m.amount
           zero == 0
           one == 1
           k == chainStats.activitiesCount + 1
           h == chainStats.payablePaymentsCount + 1
           c == chainStats.consumedWormholeMessagesCount + 1
           s == [chainStats EXCEPT !.payablePaymentsCount = h, !.activitiesCount = k,
                                   !.consumedWormholeMessagesCount = c]
           y == tokenDetails[t].totalPayableReceived + a
           e == [tokenDetails[t] EXCEPT !.totalPayableReceived = y]
<1>1. /\ IdsInv /\ EInv /\ TypeOK /\ TypeOK'
      /\ chainStats \in ChainStats /\ tokenDetails \in [Tokens -> TokenDetails]
      /\ p \in PayableIds /\ t \in Tokens /\ a \in Nat /\ zero \in Nat /\ one \in Nat
  BY InboundAreMessages, AmountsAreNat DEF CountInv, IdsInv, EInv, TypeOK
<1>2. /\ Exists(p) /\ CreditPayable(p, t, a) /\ users' = users
      /\ m.vaa \notin consumedMessages /\ m.circleNonce \notin usedCircleNonces
      /\ consumedMessages' = consumedMessages \cup {m.vaa}
      /\ usedCircleNonces' = usedCircleNonces \cup {m.circleNonce}
  BY DEF ReceiveForeignPaymentWithCircle, ConsumeWormholeMessage
<1>3. k \in Nat /\ h \in Nat /\ c \in Nat
  BY <1>1 DEF ChainStats
<1>4. chainStats' = s
  <2>1. chainStats' = [chainStats EXCEPT !.payablePaymentsCount = @ + 1, !.activitiesCount = @ + 1,
                                         !.consumedWormholeMessagesCount = @ + 1]
    BY DEF ReceiveForeignPaymentWithCircle
  <2> QED
    BY <1>1, <2>1 DEF ChainStats
<1>5. /\ tokenDetails' = [tokenDetails EXCEPT ![t] = e]
      /\ tokenDetails[t] \in TokenDetails /\ y \in Nat
  <2>1. tokenDetails' = [tokenDetails EXCEPT ![t].totalPayableReceived = @ + a]
    BY DEF ReceiveForeignPaymentWithCircle
  <2>2. tokenDetails[t] \in TokenDetails
    BY <1>1
  <2>3. y \in Nat
    <3> HIDE DEF t, a
    <3> QED
      BY <1>1, <2>2 DEF TokenDetails
  <2> QED
    BY <1>1, <2>1, <2>2, <2>3
<1>6. e.totalUserPaid = tokenDetails[t].totalUserPaid /\ e.totalPayableReceived = y
  <2> HIDE DEF y, t
  <2> QED
    BY <1>5, TokenFields
<1>7. /\ s.usersCount = chainStats.usersCount /\ s.payablesCount = chainStats.payablesCount
      /\ s.activitiesCount = k
      /\ s.userPaymentsCount = chainStats.userPaymentsCount
      /\ s.payablePaymentsCount = h
      /\ s.withdrawalsCount = chainStats.withdrawalsCount
      /\ s.consumedWormholeMessagesCount = c
  <2> HIDE DEF k, h, c
  <2> QED
    BY <1>1, <1>3, StatsFields
<1> HIDE DEF s, e, p, t, a
<1>8. Fresh' /\ PayableGrows(p, one, zero)
  <2>1. /\ chainStats'.payablePaymentsCount = chainStats.payablePaymentsCount + 1
        /\ chainStats'.withdrawalsCount = chainStats.withdrawalsCount
    BY <1>4, <1>7
  <2> QED
    BY <1>1, <1>2, <2>1, CreditGrows DEF CountInv, Tallies
<1>9. UserCountersAgree'
  <2> DEFINE acts == SumFunction([v \in Users |-> users[v].activitiesCount])
             f == [v \in Users |-> users[v].activitiesCount]
  <2>1. chainStats.activitiesCount = acts + chainStats.payablePaymentsCount
    BY DEF CountInv, Tallies, CountersAgree, UserCountersAgree
  <2>2. f \in [Users -> Nat]
    BY <1>1 DEF TypeOK, User
  <2>3. SumFunction(f) \in Nat
    <3> HIDE DEF f
    <3> QED
      BY <2>2, UsersAreFinite, TotalType
  <2>4. chainStats.payablePaymentsCount \in Nat /\ acts \in Nat
    BY <1>1, <2>3 DEF ChainStats
  <2>5. acts' = acts
    BY <1>2
  <2>6. chainStats'.activitiesCount = acts + chainStats'.payablePaymentsCount
    <3> HIDE DEF acts
    <3> QED
      BY <1>4, <1>7, <2>1, <2>4
  <2> QED
    BY <1>2, <1>4, <1>7, <2>6 DEF CountInv, Tallies, CountersAgree, UserCountersAgree
<1> HIDE DEF zero, one, k, h
<1>10. PayableCountersAgree'
  BY <1>1, <1>8, PayablesCounted DEF CountInv, Tallies, CountersAgree
<1>11. UsersNumbered'
  BY <1>2, <1>4, <1>7, NumbersKept DEF CountInv, Tallies, CountersAgree
<1>12. /\ Redeemed(t)' = Redeemed(t) \cup {m} /\ m \notin Redeemed(t)
       /\ \A i \in Tokens \ {t} : Redeemed(i)' = Redeemed(i)
  BY <1>2, VaasIdentifyMessages DEF Redeemed, Consumed, t
<1>13. MessagesFinite'
  <2>1. IsFiniteSet(consumedMessages')
    BY <1>2, FS_AddElement DEF CountInv, Tallies, MessagesFinite
  <2>2. ASSUME NEW i \in Tokens PROVE IsFiniteSet(Redeemed(i)')
    <3> DEFINE set == Redeemed(i)
    <3>1. IsFiniteSet(set)
      BY DEF CountInv, Tallies, MessagesFinite
    <3>2. set' = set \/ set' = set \cup {m}
      BY <1>12
    <3> HIDE DEF set
    <3>3. IsFiniteSet(set \cup {m})
      BY <3>1, FS_AddElement
    <3>4. IsFiniteSet(set')
      BY <3>1, <3>2, <3>3
    <3> QED
      BY <3>4 DEF set
  <2> QED
    BY <2>1, <2>2 DEF MessagesFinite
<1>14. ASSUME NEW i \in Tokens
       PROVE  tokenDetails'[i].totalPayableReceived =
                tokenDetails'[i].totalUserPaid + SumFunction([j \in Redeemed(i)' |-> j.amount])
  <2> DEFINE f == [j \in Redeemed(i) |-> j.amount]
             g == [j \in Redeemed(i)' |-> j.amount]
             paid == tokenDetails[i].totalUserPaid
  <2>1. tokenDetails[i].totalPayableReceived = paid + SumFunction(f)
    BY DEF CountInv, Tallies, CountersAgree, ForeignCreditsOnce
  <2>2. f \in [Redeemed(i) -> Nat] /\ g \in [Redeemed(i)' -> Nat]
    BY InboundAreMessages, AmountsAreNat DEF Redeemed, Consumed
  <2>3. paid \in Nat
    BY <1>1 DEF TokenDetails
  <2>4. IsFiniteSet(Redeemed(i))
    BY DEF CountInv, Tallies, MessagesFinite
  <2>5. CASE i = t
    <3> DEFINE set == Redeemed(t)
    <3>1. /\ m \notin set /\ IsFiniteSet(set) /\ f \in [set -> Nat] /\ g \in [set \cup {m} -> Nat]
          /\ \A j \in set : g[j] = f[j]
      BY <1>12, <2>2, <2>4, <2>5
    <3>2. g[m] = a
      BY <1>12, <2>5 DEF a
    <3>3. tokenDetails'[t] = e
      BY <1>1, <1>5
    <3> HIDE DEF f, g, set
    <3>4. SumFunction(g) = g[m] + SumFunction(f) /\ SumFunction(f) \in Nat
      BY <3>1, TotalWith, TotalType
    <3>5. y = paid + SumFunction(g)
      BY <1>1, <2>1, <2>3, <2>5, <3>2, <3>4
    <3>6. tokenDetails'[i].totalPayableReceived = y /\ tokenDetails'[i].totalUserPaid = paid
      BY <1>6, <2>5, <3>3
    <3> QED
      BY <3>5, <3>6 DEF g
  <2>6. CASE i # t
    <3>1. g = f /\ tokenDetails'[i] = tokenDetails[i]
      BY <1>1, <1>5, <1>12, <2>6
    <3> QED
      BY <2>1, <3>1
  <2> QED
    BY <2>5, <2>6
<1>15. /\ \A i \in Consumed' : i.circleNonce \in usedCircleNonces'
       /\ \A i, j \in Consumed' : i.circleNonce = j.circleNonce => i = j
  <2>1. /\ \A i \in Consumed : i.circleNonce \in usedCircleNonces
        /\ \A i, j \in Consumed : i.circleNonce = j.circleNonce => i = j
    BY DEF CountInv, Tallies, CountersAgree, ForeignCreditsOnce
  <2>2. Consumed' = Consumed \cup {m}
    BY <1>2, VaasIdentifyMessages DEF Consumed
  <2> QED
    BY <1>2, <2>1, <2>2
<1>16. chainStats'.consumedWormholeMessagesCount = Cardinality(consumedMessages')
  <2> DEFINE set == consumedMessages
  <2>1. IsFiniteSet(set) /\ m.vaa \notin set /\ Cardinality(set) = chainStats.consumedWormholeMessagesCount
    BY <1>2 DEF CountInv, Tallies, CountersAgree, MessagesFinite, ForeignCreditsOnce
  <2> HIDE DEF set
  <2>2. Cardinality(set \cup {m.vaa}) = Cardinality(set) + 1
    BY <2>1, FS_AddElement
  <2> QED
    BY <1>2, <1>4, <1>7, <2>1, <2>2 DEF set
<1>17. ForeignCreditsOnce'
  BY <1>14, <1>15, <1>16 DEF ForeignCreditsOnce
<1> QED
  BY <1>8, <1>9, <1>10, <1>11, <1>13, <1>17 DEF Tallies, CountersAgree

-----------------------------------------------------------------------------
(* The theorem.                                                            *)

LEMMA StepCount == CountInv /\ [Next]_vars => CountInv'
<1> SUFFICES ASSUME CountInv, [Next]_vars PROVE CountInv'
  OBVIOUS
<1>1. IdsInv /\ IdsInv' /\ TypeOK' /\ TypeOK
  BY StepIds DEF CountInv, IdsInv, EInv
<1>2. payables \in [PayableIds -> Payable]
  BY <1>1 DEF TypeOK
<1>3. CASE OwnerCall
  BY <1>1, <1>3, OwnerCallCounts DEF CountInv
<1>4. CASE HostCall
  <2>1. CASE \E u \in Users, l \in AllowedLists, b \in BOOLEAN : CreatePayable(u, l, b)
    BY <1>1, <2>1, CreateCounts DEF CountInv
  <2>2. CASE \E p \in PayableIds : ClosePayable(p)
    BY <1>1, <1>2, <2>2, UpdateCounts DEF ClosePayable, Payable, CountInv
  <2>3. CASE \E p \in PayableIds : ReopenPayable(p)
    BY <1>1, <1>2, <2>3, UpdateCounts DEF ReopenPayable, Payable, CountInv
  <2>4. CASE \E p \in PayableIds, l \in AllowedLists :
               UpdatePayableAllowedTokensAndAmounts(p, l)
    BY <1>1, <1>2, <2>4, UpdateCounts DEF UpdatePayableAllowedTokensAndAmounts, Payable, CountInv
  <2>5. CASE \E p \in PayableIds, b \in BOOLEAN : UpdatePayableAutoWithdraw(p, b)
    BY <1>1, <1>2, <2>5, UpdateCounts DEF UpdatePayableAutoWithdraw, Payable, CountInv
  <2>6. CASE \E p \in PayableIds, t \in Tokens, a \in Amounts : Withdraw(p, t, a)
    <3>1. UNCHANGED <<tokenDetails, chainStats, users, payables, messageVars>>
      BY <2>6 DEF Withdraw, configVars
    <3> QED
      BY <1>1, <3>1, NothingCounted DEF CountInv, messageVars
  <2> QED
    BY <1>4, <2>1, <2>2, <2>3, <2>4, <2>5, <2>6 DEF HostCall
<1>5. CASE PaymentCall
  <2>1. CASE \E u \in Users, p \in PayableIds, t \in Tokens, a \in Amounts :
               \E value \in {0, a} : Pay(u, p, t, a, value)
    BY <1>1, <2>1, PayCounts DEF CountInv
  <2>2. CASE \E m \in Inbound : ReceiveForeignPaymentWithCircle(m)
    BY <1>1, <2>2, ReceiveCounts DEF CountInv
  <2>3. CASE \E m \in Inbound : RedeemDirectly(m)
    <3>1. /\ UNCHANGED <<tokenDetails, chainStats, users, payables, consumedMessages>>
          /\ usedCircleNonces \subseteq usedCircleNonces'
      BY <2>3 DEF RedeemDirectly, configVars
    <3> QED
      BY <1>1, <3>1, NothingCounted DEF CountInv, messageVars
  <2> QED
    BY <1>5, <2>1, <2>2, <2>3 DEF PaymentCall
<1>6. CASE PayCollector
  <2>1. UNCHANGED <<tokenDetails, chainStats, users, payables, messageVars>>
    BY <1>6 DEF PayCollector, configVars
  <2> QED
    BY <1>1, <2>1, NothingCounted DEF CountInv, messageVars
<1>7. CASE SettleWithdrawal
  BY <1>1, <1>7, SettleCounts DEF CountInv
<1>8. CASE UNCHANGED vars
  <2>1. UNCHANGED <<tokenDetails, chainStats, users, payables, messageVars>>
    BY <1>8 DEF vars, messageVars
  <2> QED
    BY <1>1, <2>1, NothingCounted DEF CountInv, messageVars
<1> QED
  BY <1>3, <1>4, <1>5, <1>6, <1>7, <1>8 DEF Next

\* After any calls, the chain's counters are the sums of the counters of its
\* users and of its payables, users carry the numbers from 1 to the count of
\* them, and a cross-chain payment was credited once, in the totals as in the
\* counter of messages (_initializeUserIfNeedBe, the record functions of
\* CbTransactions, receiveForeignPaymentWithCircle).
THEOREM CountersAlwaysAgree == Spec => []CountersAgree
<1>1. CountInv => CountersAgree
  BY DEF CountInv, Tallies
<1> QED
  BY <1>1, InitCount, StepCount, PTL DEF Spec

=============================================================================
