---------------------------- MODULE CwLedgerProofs ----------------------------
(***************************************************************************)
(* Theorems about the CosmWasm ledger, for every value of its constants:   *)
(* it is well typed, every counter has its list of ids, its money adds up, *)
(* and it implements the escrow.  At the end, of the two ledgers together. *)
(***************************************************************************)
EXTENDS Ledgers, CbLedgerProofs

-----------------------------------------------------------------------------
(* The books.  A call adds entries one after the other: an id pushed on    *)
(* some lists, and a record saved under it.  One entry keeps the books     *)
(* straight when its id is new; so every call does, as an id carries a     *)
(* number above the counter it was issued from.                            *)

CwRecords == [id: CwIds, list: Lists, at: Nat]

\* Every entry of every vector is told by the record under its id.
Told(v, r) ==
  \A x \in Lists : \A n \in 1..Len(v[x]) : [id |-> v[x][n], list |-> x, at |-> n] \in r

\* Straight books.
Books(c, v, r) ==
  /\ c \in [Lists -> Nat]
  /\ v \in [Lists -> Seq(CwIds)]
  /\ r \subseteq CwRecords
  /\ \A x \in Lists : Len(v[x]) = c[x]
  /\ Told(v, r)

\* All that was saved is saved under an id in N.
Named(r, N) == \A s \in r : s.id \in N

\* The ids that counters c have issued.
Issued(c) ==
  {id \in CwIds :
     /\ id[1] = "user" => c[Of(id[2], "activities")] > 0
     /\ id[1] = "payable" => id[3] <= c[Of(id[2], "payables")]
     /\ id[1] = "payment" => id[3] <= c[Of(id[2], "payments")]
     /\ id[1] = "withdrawal" => id[3] <= c[Of(id[2], "withdrawals")]
     /\ id[1] = "activity" => id[3] <= c[Of(id[2], "activities")]
     /\ id[1] = "payable_payment" => id[2][3] <= c[Of(id[2][2], "payments")]
     /\ id[1] = "payable_activity" => id[3] <= c[At(id[2], "activities")]}

\* Counters only grow.
Grown(c, d) == \A x \in Lists : c[x] <= d[x]

\* The lists the calls write to are lists.
LEMMA ListsThereAre ==
  /\ \A kind \in ChainKinds : Chain(kind) \in Lists
  /\ \A u \in CwUsers, kind \in UserKinds : Of(u, kind) \in Lists
  /\ \A p \in CwPayableIds, kind \in PayableKinds : At(p, kind) \in Lists
BY DEF Lists

LEMMA SameCounters ==
  ASSUME NEW c \in [Lists -> Nat], NEW d \in [Lists -> Nat], \A x \in Lists : c[x] = d[x]
  PROVE  c = d
OBVIOUS

LEMMA CountedType ==
  ASSUME NEW c \in [Lists -> Nat], NEW L
  PROVE  /\ Counted(c, L) \in [Lists -> Nat]
         /\ \A x \in Lists : Counted(c, L)[x] = IF x \in L THEN c[x] + 1 ELSE c[x]
         /\ Grown(c, Counted(c, L))
BY DEF Counted, Grown

LEMMA PushedType ==
  ASSUME NEW v \in [Lists -> Seq(CwIds)], NEW L, NEW id \in CwIds
  PROVE  /\ Pushed(v, L, id) \in [Lists -> Seq(CwIds)]
         /\ \A x \in Lists :
              Pushed(v, L, id)[x] = IF x \in L THEN Append(v[x], id) ELSE v[x]
BY DEF Pushed

LEMMA SavedType ==
  ASSUME NEW r \in SUBSET CwRecords, NEW id \in CwIds, NEW L \in SUBSET Lists,
         NEW d, \A x \in L : d[x] \in Nat
  PROVE  Saved(r, id, L, d) \subseteq CwRecords
BY DEF Saved, CwRecords

\* One more entry, under a new id, keeps the books straight.
LEMMA OneMoreEntry ==
  ASSUME NEW c, NEW v, NEW r, Books(c, v, r),
         NEW N, Named(r, N),
         NEW id \in CwIds, id \notin N,
         NEW L \in SUBSET Lists,
         NEW d, \A x \in L : d[x] = c[x] + 1
  PROVE  /\ Books(Counted(c, L), Pushed(v, L, id), Saved(r, id, L, d))
         /\ Named(Saved(r, id, L, d), N \cup {id})
<1> DEFINE c1 == Counted(c, L)
           v1 == Pushed(v, L, id)
           r1 == Saved(r, id, L, d)
<1>1. /\ c1 \in [Lists -> Nat]
      /\ \A x \in Lists : c1[x] = IF x \in L THEN c[x] + 1 ELSE c[x]
  BY CountedType DEF Books
<1>2. /\ v1 \in [Lists -> Seq(CwIds)]
      /\ \A x \in Lists : v1[x] = IF x \in L THEN Append(v[x], id) ELSE v[x]
  BY PushedType DEF Books
<1>3. r1 \subseteq CwRecords
  <2>1. r \in SUBSET CwRecords /\ \A x \in L : d[x] \in Nat
    BY DEF Books
  <2> QED
    BY <2>1, SavedType
<1>4. \A s \in r1 : s \in r \/ \E x \in L : s = [id |-> id, list |-> x, at |-> d[x]]
  BY DEF Saved
<1>5. \A s \in r : s \in r1
  BY DEF Saved, Named
<1>6. \A x \in L : [id |-> id, list |-> x, at |-> d[x]] \in r1
  BY DEF Saved
<1>7. Named(r1, N \cup {id})
  BY <1>4 DEF Named
<1> HIDE DEF c1, v1, r1
<1>8. ASSUME NEW x \in Lists
      PROVE  /\ Len(v1[x]) = c1[x]
             /\ \A n \in 1..Len(v1[x]) : [id |-> v1[x][n], list |-> x, at |-> n] \in r1
  <2>1. v[x] \in Seq(CwIds) /\ Len(v[x]) = c[x] /\ c[x] \in Nat
    BY DEF Books
  <2>2. \A n \in 1..Len(v[x]) : [id |-> v[x][n], list |-> x, at |-> n] \in r
    BY DEF Books, Told
  <2>3. CASE x \notin L
    BY <1>1, <1>2, <1>5, <2>1, <2>2, <2>3
  <2>4. CASE x \in L
    <3>1. v1[x] = Append(v[x], id) /\ c1[x] = c[x] + 1
      BY <1>1, <1>2, <2>4
    <3>2. Len(v1[x]) = c[x] + 1
      BY <2>1, <3>1
    <3>3. ASSUME NEW n \in 1..Len(v1[x])
          PROVE  [id |-> v1[x][n], list |-> x, at |-> n] \in r1
      <4>1. CASE n <= c[x]
        <5>1. v1[x][n] = v[x][n] /\ n \in 1..Len(v[x])
          BY <2>1, <3>1, <3>2, <4>1
        <5> QED
          BY <5>1, <2>2, <1>5
      <4>2. CASE n = c[x] + 1
        <5>1. v1[x][n] = id /\ d[x] = n
          BY <2>1, <2>4, <3>1, <4>2
        <5> QED
          BY <5>1, <1>6, <2>4
      <4> QED
        BY <3>2, <2>1, <4>1, <4>2
    <3> QED
      BY <3>1, <3>2, <3>3
  <2> QED
    BY <2>3, <2>4
<1> QED
  BY <1>1, <1>2, <1>3, <1>7, <1>8 DEF Books, Told, c1, v1, r1

\* Ids once issued stay issued.
LEMMA IssuedGrows ==
  ASSUME NEW c \in [Lists -> Nat], NEW d \in [Lists -> Nat], Grown(c, d)
  PROVE  Issued(c) \subseteq Issued(d)
<1> SUFFICES ASSUME NEW id \in Issued(c)
             PROVE  id \in Issued(d)
  OBVIOUS
<1>1. /\ \A u \in CwUsers, kind \in UserKinds :
           /\ c[Of(u, kind)] \in Nat /\ d[Of(u, kind)] \in Nat
           /\ c[Of(u, kind)] <= d[Of(u, kind)]
      /\ \A p \in CwPayableIds, kind \in PayableKinds :
           /\ c[At(p, kind)] \in Nat /\ d[At(p, kind)] \in Nat
           /\ c[At(p, kind)] <= d[At(p, kind)]
  BY ListsThereAre DEF Grown
<1>2. CASE id \in {"user", "payable", "payment", "withdrawal", "activity"} \X CwUsers \X Nat
  <2>1. /\ id[1] \in {"user", "payable", "payment", "withdrawal", "activity"}
        /\ id[2] \in CwUsers /\ id[3] \in Nat
    BY <1>2
  <2> QED
    BY <1>1, <2>1 DEF Issued, UserKinds
<1>3. CASE id \in {"payable_activity"} \X CwPayableIds \X Nat
  <2>1. id[1] = "payable_activity" /\ id[2] \in CwPayableIds /\ id[3] \in Nat
    BY <1>3
  <2> QED
    BY <1>1, <2>1 DEF Issued, PayableKinds
<1>4. CASE id \in {"payable_payment"} \X ({"payment"} \X CwUsers \X Nat) \X Nat
  <2>1. id[1] = "payable_payment" /\ id[2] \in {"payment"} \X CwUsers \X Nat
    BY <1>4
  <2>2. id[2][2] \in CwUsers /\ id[2][3] \in Nat
    BY <2>1
  <2> QED
    BY <1>1, <2>1, <2>2 DEF Issued, UserKinds
<1> QED
  BY <1>2, <1>3, <1>4 DEF Issued, CwIds

\* The ids of a call: well formed, issued once the counter has passed their
\* number, and not before.
LEMMA IdsOfUsers ==
  ASSUME NEW c \in [Lists -> Nat], NEW u \in CwUsers, NEW n \in Nat
  PROVE  /\ UserId(u) \in CwIds /\ PayableId(u, n) \in CwIds
         /\ UserPaymentId(u, n) \in CwIds /\ WithdrawalId(u, n) \in CwIds
         /\ UserActivityId(u, n) \in CwIds
         /\ UserId(u) \in Issued(c) <=> c[Of(u, "activities")] > 0
         /\ PayableId(u, n) \in Issued(c) <=> n <= c[Of(u, "payables")]
         /\ UserPaymentId(u, n) \in Issued(c) <=> n <= c[Of(u, "payments")]
         /\ WithdrawalId(u, n) \in Issued(c) <=> n <= c[Of(u, "withdrawals")]
         /\ UserActivityId(u, n) \in Issued(c) <=> n <= c[Of(u, "activities")]
<1>1. /\ UserId(u) \in CwIds /\ PayableId(u, n) \in CwIds
      /\ UserPaymentId(u, n) \in CwIds /\ WithdrawalId(u, n) \in CwIds
      /\ UserActivityId(u, n) \in CwIds
  BY DEF UserId, PayableId, UserPaymentId, WithdrawalId, UserActivityId, CwIds
<1>2. UserId(u) \in Issued(c) <=> c[Of(u, "activities")] > 0
  BY <1>1 DEF UserId, Issued
<1>3. PayableId(u, n) \in Issued(c) <=> n <= c[Of(u, "payables")]
  BY <1>1 DEF PayableId, Issued
<1>4. UserPaymentId(u, n) \in Issued(c) <=> n <= c[Of(u, "payments")]
  BY <1>1 DEF UserPaymentId, Issued
<1>5. WithdrawalId(u, n) \in Issued(c) <=> n <= c[Of(u, "withdrawals")]
  BY <1>1 DEF WithdrawalId, Issued
<1>6. UserActivityId(u, n) \in Issued(c) <=> n <= c[Of(u, "activities")]
  BY <1>1 DEF UserActivityId, Issued
<1> QED
  BY <1>1, <1>2, <1>3, <1>4, <1>5, <1>6

LEMMA IdsOfPayables ==
  ASSUME NEW c \in [Lists -> Nat], NEW u \in CwUsers, NEW p \in CwPayableIds,
         NEW k \in Nat, NEW n \in Nat
  PROVE  /\ PayableActivityId(p, n) \in CwIds
         /\ PayablePaymentId(UserPaymentId(u, k), n) \in CwIds
         /\ PayableActivityId(p, n) \in Issued(c) <=> n <= c[At(p, "activities")]
         /\ PayablePaymentId(UserPaymentId(u, k), n) \in Issued(c)
              <=> k <= c[Of(u, "payments")]
<1>1. PayableActivityId(p, n) \in CwIds
  BY DEF PayableActivityId, CwIds
<1>2. PayablePaymentId(UserPaymentId(u, k), n) \in CwIds
  BY DEF PayablePaymentId, UserPaymentId, CwIds
<1>3. PayableActivityId(p, n) \in Issued(c) <=> n <= c[At(p, "activities")]
  BY <1>1 DEF PayableActivityId, Issued
<1>4. PayablePaymentId(UserPaymentId(u, k), n) \in Issued(c) <=> k <= c[Of(u, "payments")]
  BY <1>2 DEF PayablePaymentId, UserPaymentId, Issued
<1> QED
  BY <1>1, <1>2, <1>3, <1>4

\* The invariant of the books.
Straight(c, v, r) == Books(c, v, r) /\ Named(r, Issued(c))

CwBooksInv == Straight(counts, ids, records)

\* Two entries on different lists.
LEMMA TwoEntries ==
  ASSUME NEW c0, NEW v0, NEW r0, Straight(c0, v0, r0),
         NEW L1 \in SUBSET Lists, NEW L2 \in SUBSET Lists, L1 \cap L2 = {},
         NEW c, c = Counted(c0, L1 \cup L2),
         NEW id1 \in Issued(c) \ Issued(c0), NEW id2 \in Issued(c) \ Issued(c0),
         id1 # id2
  PROVE  Straight(c, Pushed(Pushed(v0, L1, id1), L2, id2),
                  Saved(Saved(r0, id1, L1, c), id2, L2, c))
<1> DEFINE c1 == Counted(c0, L1)
           c2 == Counted(c1, L2)
           v1 == Pushed(v0, L1, id1)
           r1 == Saved(r0, id1, L1, c)
<1>1. /\ Books(c0, v0, r0) /\ Named(r0, Issued(c0)) /\ c0 \in [Lists -> Nat]
      /\ id1 \in CwIds /\ id2 \in CwIds
  BY DEF Straight, Books, Issued
<1>2. /\ c \in [Lists -> Nat] /\ Grown(c0, c)
      /\ \A x \in Lists : c[x] = IF x \in L1 \cup L2 THEN c0[x] + 1 ELSE c0[x]
  BY <1>1, CountedType
<1>3. /\ c1 \in [Lists -> Nat]
      /\ \A x \in Lists : c1[x] = IF x \in L1 THEN c0[x] + 1 ELSE c0[x]
  BY <1>1, CountedType
<1>4. /\ c2 \in [Lists -> Nat]
      /\ \A x \in Lists : c2[x] = IF x \in L2 THEN c1[x] + 1 ELSE c1[x]
  BY <1>3, CountedType
<1>5. Books(c1, v1, r1) /\ Named(r1, Issued(c0) \cup {id1})
  <2>1. \A x \in L1 : c[x] = c0[x] + 1
    BY <1>2
  <2> QED
    BY <1>1, <2>1, OneMoreEntry
<1>6. /\ Books(c2, Pushed(v1, L2, id2), Saved(r1, id2, L2, c))
      /\ Named(Saved(r1, id2, L2, c), Issued(c0) \cup {id1} \cup {id2})
  <2>1. \A x \in L2 : c[x] = c1[x] + 1
    BY <1>2, <1>3
  <2>2. id2 \notin Issued(c0) \cup {id1}
    OBVIOUS
  <2> HIDE DEF c1, v1, r1
  <2> QED
    BY <1>1, <1>5, <2>1, <2>2, OneMoreEntry
<1>7. c2 = c
  <2> HIDE DEF c1, c2
  <2>1. \A x \in Lists : c2[x] = c[x]
    BY <1>2, <1>3, <1>4
  <2> QED
    BY <1>2, <1>4, <2>1, SameCounters
<1>8. Named(Saved(r1, id2, L2, c), Issued(c))
  <2>1. Issued(c0) \subseteq Issued(c)
    BY <1>1, <1>2, IssuedGrows
  <2> QED
    BY <1>6, <2>1 DEF Named
<1> QED
  BY <1>6, <1>7, <1>8 DEF Straight

\* A wallet's first call leaves straight books, in which it is a user.
LEMMA UserInitialized ==
  ASSUME CwBooksInv, NEW u \in CwUsers
  PROVE  /\ Straight(UserCounts(u), UserIds(u), UserRecords(u))
         /\ UserCounts(u) \in [Lists -> Nat]
         /\ UserCounts(u)[Chain("payables")] = counts[Chain("payables")]
<1>1. counts \in [Lists -> Nat]
  BY DEF CwBooksInv, Straight, Books
<1>2. CASE is_user(u)
  BY <1>1, <1>2 DEF UserCounts, UserIds, UserRecords, CwBooksInv
<1>3. CASE ~is_user(u)
  <2> DEFINE ch == {Chain("users")}
             L == InitLists(u)
             c == UserCounts(u)
  <2>1. /\ Chain("users") \in Lists /\ Chain("activities") \in Lists
        /\ Of(u, "activities") \in Lists /\ Chain("payables") \in Lists
    BY ListsThereAre DEF ChainKinds, UserKinds
  <2>2. counts[Of(u, "activities")] = 0
    BY <1>1, <1>3, <2>1 DEF is_user
  <2>3. c = Counted(counts, ch \cup L)
    <3>1. c = Counted(counts, L \cup ch) /\ L \cup ch = ch \cup L
      BY <1>3 DEF UserCounts
    <3> QED
      BY <3>1
  <2>4. /\ c \in [Lists -> Nat]
        /\ \A x \in Lists : c[x] = IF x \in ch \cup L THEN counts[x] + 1 ELSE counts[x]
    BY <1>1, <2>3, CountedType
  <2>5. c[Of(u, "activities")] = 1 /\ c[Chain("payables")] = counts[Chain("payables")]
    BY <2>1, <2>2, <2>4 DEF InitLists, Chain, Of
  <2>6. /\ UserId(u) \in Issued(c) \ Issued(counts)
        /\ UserActivityId(u, 1) \in Issued(c) \ Issued(counts)
    <3>1. /\ UserId(u) \in Issued(c) <=> c[Of(u, "activities")] > 0
          /\ UserActivityId(u, 1) \in Issued(c) <=> 1 <= c[Of(u, "activities")]
      BY <2>4, IdsOfUsers
    <3>2. /\ UserId(u) \in Issued(counts) <=> counts[Of(u, "activities")] > 0
          /\ UserActivityId(u, 1) \in Issued(counts) <=> 1 <= counts[Of(u, "activities")]
      BY <1>1, IdsOfUsers
    <3> QED
      BY <2>2, <2>5, <3>1, <3>2
  <2>7. UserId(u) # UserActivityId(u, 1)
    BY DEF UserId, UserActivityId
  <2>8. ch \in SUBSET Lists /\ L \in SUBSET Lists /\ ch \cap L = {}
    BY <2>1 DEF InitLists, Chain, Of
  <2>9. /\ UserIds(u) = Pushed(Pushed(ids, ch, UserId(u)), L, UserActivityId(u, 1))
        /\ UserRecords(u) = Saved(Saved(records, UserId(u), ch, c), UserActivityId(u, 1), L, c)
    BY <1>3 DEF UserIds, UserRecords
  <2>10. Straight(c, UserIds(u), UserRecords(u))
    <3> HIDE DEF ch, L, c
    <3> QED
      BY <2>3, <2>6, <2>7, <2>8, <2>9, TwoEntries DEF CwBooksInv
  <2> QED
    BY <2>4, <2>5, <2>10
<1> QED
  BY <1>2, <1>3

\* The counters that entries advance.
LEMMA ListsOfACall ==
  ASSUME NEW u \in CwUsers, NEW p \in CwPayableIds
  PROVE  /\ ActivityLists(u, p) \in SUBSET Lists
         /\ Of(u, "activities") \in ActivityLists(u, p)
         /\ \A kind : kind # "activities" =>
              /\ Chain(kind) \notin ActivityLists(u, p)
              /\ Of(u, kind) \notin ActivityLists(u, p)
              /\ At(p, kind) \notin ActivityLists(u, p)
BY ListsThereAre DEF ChainKinds, UserKinds, PayableKinds, ActivityLists, Chain, Of, At

LEMMA CreateKeepsBooks ==
  ASSUME CwBooksInv, NEW u \in CwUsers, NEW l \in CwAllowedLists, create_payable(u, l)
  PROVE  CwBooksInv'
<1> DEFINE p == counts[Chain("payables")] + 1
           entry == {Chain("payables"), Of(u, "payables")}
           acts == ActivityLists(u, p)
           c0 == UserCounts(u)
           c == Counted(c0, entry \cup acts)
           id == PayableId(u, c[Of(u, "payables")])
           activity == UserActivityId(u, c[Of(u, "activities")])
<1>1. /\ Straight(c0, UserIds(u), UserRecords(u))
      /\ c0 \in [Lists -> Nat]
  BY UserInitialized
<1>2. p \in CwPayableIds
  <2>1. counts[Chain("payables")] \in Nat
    BY ListsThereAre DEF CwBooksInv, Straight, Books, ChainKinds
  <2> QED
    BY <2>1, CwLedgerAssumption DEF create_payable, CwPayableIds
<1>3. /\ Chain("payables") \in Lists /\ Of(u, "payables") \in Lists
      /\ Of(u, "activities") \in Lists
  BY ListsThereAre DEF ChainKinds, UserKinds
<1>4. /\ entry \in SUBSET Lists /\ acts \in SUBSET Lists /\ entry \cap acts = {}
      /\ Of(u, "payables") \in entry /\ Of(u, "activities") \in acts
  BY <1>2, <1>3, ListsOfACall
<1>5. /\ c \in [Lists -> Nat]
      /\ \A x \in Lists : c[x] = IF x \in entry \cup acts THEN c0[x] + 1 ELSE c0[x]
  BY <1>1, CountedType
<1>6. /\ c[Of(u, "payables")] = c0[Of(u, "payables")] + 1
      /\ c[Of(u, "activities")] = c0[Of(u, "activities")] + 1
      /\ c0[Of(u, "payables")] \in Nat /\ c0[Of(u, "activities")] \in Nat
  BY <1>1, <1>3, <1>4, <1>5
<1>7. id \in Issued(c) \ Issued(c0) /\ activity \in Issued(c) \ Issued(c0)
  BY <1>1, <1>5, <1>6, IdsOfUsers
<1>8. id # activity
  BY DEF PayableId, UserActivityId
<1>9. /\ counts' = c
      /\ ids' = Pushed(Pushed(UserIds(u), entry, id), acts, activity)
      /\ records' = Saved(Saved(UserRecords(u), id, entry, c), activity, acts, c)
  BY DEF create_payable
<1> HIDE DEF entry, acts, c0, id, activity
<1> QED
  BY <1>1, <1>4, <1>7, <1>8, <1>9, TwoEntries DEF CwBooksInv

\* One activity of u on p, by itself.
LEMMA UpdateKeepsBooks ==
  ASSUME CwBooksInv, NEW p \in CwPayableIds, NEW payable,
         cw_payables[p].host \in CwUsers,
         record_update_payable_activity(p, payable)
  PROVE  CwBooksInv'
<1> DEFINE u == cw_payables[p].host
           acts == ActivityLists(u, p)
           c == Counted(counts, acts)
           activity == UserActivityId(u, c[Of(u, "activities")])
<1>1. counts \in [Lists -> Nat] /\ Books(counts, ids, records) /\ Named(records, Issued(counts))
  BY DEF CwBooksInv, Straight, Books
<1>2. acts \in SUBSET Lists /\ Of(u, "activities") \in acts
  BY ListsOfACall
<1>3. /\ c \in [Lists -> Nat] /\ Grown(counts, c)
      /\ \A x \in Lists : c[x] = IF x \in acts THEN counts[x] + 1 ELSE counts[x]
  BY <1>1, CountedType
<1>4. /\ c[Of(u, "activities")] = counts[Of(u, "activities")] + 1
      /\ counts[Of(u, "activities")] \in Nat
  BY <1>1, <1>2, <1>3
<1>5. activity \in Issued(c) /\ activity \notin Issued(counts) /\ activity \in CwIds
  BY <1>1, <1>3, <1>4, IdsOfUsers
<1>6. /\ counts' = c
      /\ ids' = Pushed(ids, acts, activity)
      /\ records' = Saved(records, activity, acts, c)
  BY DEF record_update_payable_activity
<1>7. /\ Books(c, ids', records')
      /\ Named(records', Issued(counts) \cup {activity})
  <2>1. \A x \in acts : c[x] = counts[x] + 1
    BY <1>2, <1>3
  <2> HIDE DEF activity, acts
  <2> QED
    BY <1>1, <1>2, <1>5, <1>6, <2>1, OneMoreEntry
<1>8. Named(records', Issued(c))
  <2>1. Issued(counts) \subseteq Issued(c)
    BY <1>1, <1>3, IssuedGrows
  <2> QED
    BY <1>5, <1>7, <2>1 DEF Named
<1> QED
  BY <1>6, <1>7, <1>8 DEF CwBooksInv, Straight

LEMMA WithdrawKeepsBooks ==
  ASSUME CwBooksInv, NEW p \in CwPayableIds, NEW t \in CwTokens, NEW a \in CwAmounts,
         cw_payables[p].host \in CwUsers,
         withdraw(p, t, a)
  PROVE  CwBooksInv'
<1> DEFINE u == cw_payables[p].host
           entry == {Chain("withdrawals"), Of(u, "withdrawals"), At(p, "withdrawals")}
           acts == ActivityLists(u, p)
           c == Counted(counts, entry \cup acts)
           id == WithdrawalId(u, c[Of(u, "withdrawals")])
           activity == UserActivityId(u, c[Of(u, "activities")])
<1>1. counts \in [Lists -> Nat] /\ Straight(counts, ids, records)
  BY DEF CwBooksInv, Straight, Books
<1>2. /\ Chain("withdrawals") \in Lists /\ Of(u, "withdrawals") \in Lists
      /\ At(p, "withdrawals") \in Lists /\ Of(u, "activities") \in Lists
  BY ListsThereAre DEF ChainKinds, UserKinds, PayableKinds
<1>3. /\ entry \in SUBSET Lists /\ acts \in SUBSET Lists /\ entry \cap acts = {}
      /\ Of(u, "withdrawals") \in entry /\ Of(u, "activities") \in acts
  BY <1>2, ListsOfACall
<1>4. /\ c \in [Lists -> Nat]
      /\ \A x \in Lists : c[x] = IF x \in entry \cup acts THEN counts[x] + 1 ELSE counts[x]
  BY <1>1, CountedType
<1>5. /\ c[Of(u, "withdrawals")] = counts[Of(u, "withdrawals")] + 1
      /\ c[Of(u, "activities")] = counts[Of(u, "activities")] + 1
      /\ counts[Of(u, "withdrawals")] \in Nat /\ counts[Of(u, "activities")] \in Nat
  BY <1>1, <1>2, <1>3, <1>4
<1>6. id \in Issued(c) \ Issued(counts) /\ activity \in Issued(c) \ Issued(counts)
  <2>1. \A n \in Nat :
          /\ WithdrawalId(u, n) \in Issued(c) <=> n <= c[Of(u, "withdrawals")]
          /\ UserActivityId(u, n) \in Issued(c) <=> n <= c[Of(u, "activities")]
    BY <1>4, IdsOfUsers
  <2>2. \A n \in Nat :
          /\ WithdrawalId(u, n) \in Issued(counts) <=> n <= counts[Of(u, "withdrawals")]
          /\ UserActivityId(u, n) \in Issued(counts) <=> n <= counts[Of(u, "activities")]
    BY <1>1, IdsOfUsers
  <2> HIDE DEF c, u
  <2> QED
    BY <1>5, <2>1, <2>2
<1>7. id # activity
  BY DEF WithdrawalId, UserActivityId
<1>8. /\ counts' = c
      /\ ids' = Pushed(Pushed(ids, entry, id), acts, activity)
      /\ records' = Saved(Saved(records, id, entry, c), activity, acts, c)
  BY DEF withdraw
<1> HIDE DEF u, entry, acts, id, activity
<1> QED
  BY <1>1, <1>3, <1>6, <1>7, <1>8, TwoEntries DEF CwBooksInv

\* A payment adds four entries; its two activities share the chain's list.
LEMMA PayKeepsBooks ==
  ASSUME CwBooksInv, NEW u \in CwUsers, NEW p \in CwPayableIds, NEW t \in CwTokens,
         NEW a \in CwAmounts, pay(u, p, t, a)
  PROVE  CwBooksInv'
<1> DEFINE byUser == {Chain("user_payments"), Of(u, "payments")}
           byPayable == {Chain("payable_payments"), At(p, "payments"), At(p, "local_payments")}
           userActs == {Chain("activities"), Of(u, "activities")}
           payableActs == {Chain("activities"), At(p, "activities")}
           c0 == UserCounts(u)
           half == Counted(c0, byUser \cup userActs)
           c == Counted(half, byPayable \cup payableActs)
           n == c[Of(u, "payments")]
           payment == UserPaymentId(u, n)
           received == PayablePaymentId(payment, c[At(p, "payments")])
           userAct == UserActivityId(u, c[Of(u, "activities")])
           payableAct == PayableActivityId(p, c[At(p, "activities")])
<1>1. /\ Books(c0, UserIds(u), UserRecords(u)) /\ Named(UserRecords(u), Issued(c0))
      /\ c0 \in [Lists -> Nat]
  BY UserInitialized DEF Straight
<1>2. /\ Chain("user_payments") \in Lists /\ Chain("payable_payments") \in Lists
      /\ Chain("activities") \in Lists
      /\ Of(u, "payments") \in Lists /\ Of(u, "activities") \in Lists
      /\ At(p, "payments") \in Lists /\ At(p, "local_payments") \in Lists
      /\ At(p, "activities") \in Lists
  BY ListsThereAre DEF ChainKinds, UserKinds, PayableKinds
<1>3. /\ byUser \in SUBSET Lists /\ byPayable \in SUBSET Lists
      /\ userActs \in SUBSET Lists /\ payableActs \in SUBSET Lists
  BY <1>2
<1>4. /\ byUser \cap byPayable = {} /\ byUser \cap userActs = {} /\ byUser \cap payableActs = {}
      /\ byPayable \cap userActs = {} /\ byPayable \cap payableActs = {}
      /\ userActs \cap payableActs = {Chain("activities")}
  BY DEF Chain, Of, At
<1>5. /\ half \in [Lists -> Nat]
      /\ \A x \in Lists : half[x] = IF x \in byUser \cup userActs THEN c0[x] + 1 ELSE c0[x]
  BY <1>1, CountedType
<1> HIDE DEF half
<1>6. /\ c \in [Lists -> Nat]
      /\ \A x \in Lists : c[x] = IF x \in byPayable \cup payableActs THEN half[x] + 1 ELSE half[x]
  BY <1>5, CountedType
<1> HIDE DEF c
<1>7. Grown(c0, c)
  <2>1. \A x \in Lists : c0[x] <= half[x]
    BY <1>1, <1>5
  <2>2. \A x \in Lists : half[x] <= c[x]
    BY <1>5, <1>6
  <2> QED
    BY <1>1, <1>5, <1>6, <2>1, <2>2 DEF Grown
<1>8. /\ n = c0[Of(u, "payments")] + 1
      /\ c[Of(u, "activities")] = c0[Of(u, "activities")] + 1
      /\ c[At(p, "activities")] = c0[At(p, "activities")] + 1
  <2>1. /\ Of(u, "payments") \in byUser /\ Of(u, "payments") \notin byPayable \cup payableActs
        /\ Of(u, "activities") \in userActs /\ Of(u, "activities") \notin byPayable \cup payableActs
        /\ At(p, "activities") \in payableActs /\ At(p, "activities") \notin byUser \cup userActs
    BY DEF Chain, Of, At
  <2> HIDE DEF byUser, byPayable, userActs, payableActs
  <2> QED
    BY <1>1, <1>2, <1>5, <1>6, <2>1
<1>9. /\ c0[Of(u, "payments")] \in Nat /\ c0[Of(u, "activities")] \in Nat
      /\ c0[At(p, "activities")] \in Nat /\ c[At(p, "payments")] \in Nat
      /\ n \in Nat /\ c[Of(u, "activities")] \in Nat /\ c[At(p, "activities")] \in Nat
  BY <1>1, <1>2, <1>6
<1>10. /\ payment \in CwIds /\ payment \notin Issued(c0) /\ payment \in Issued(c)
       /\ userAct \in CwIds /\ userAct \notin Issued(c0) /\ userAct \in Issued(c)
  <2> DEFINE m == c[Of(u, "activities")]
  <2>1. /\ UserPaymentId(u, n) \in CwIds
        /\ UserPaymentId(u, n) \in Issued(c0) <=> n <= c0[Of(u, "payments")]
        /\ UserPaymentId(u, n) \in Issued(c) <=> n <= c[Of(u, "payments")]
    BY <1>1, <1>6, <1>9, IdsOfUsers
  <2>2. /\ UserActivityId(u, m) \in CwIds
        /\ UserActivityId(u, m) \in Issued(c0) <=> m <= c0[Of(u, "activities")]
        /\ UserActivityId(u, m) \in Issued(c) <=> m <= c[Of(u, "activities")]
    BY <1>1, <1>6, <1>9, IdsOfUsers
  <2> QED
    BY <1>8, <1>9, <2>1, <2>2
<1>11. /\ received \in CwIds /\ received \notin Issued(c0) /\ received \in Issued(c)
       /\ payableAct \in CwIds /\ payableAct \notin Issued(c0) /\ payableAct \in Issued(c)
  <2> DEFINE k == c[At(p, "payments")]
             m == c[At(p, "activities")]
  <2>1. /\ PayablePaymentId(UserPaymentId(u, n), k) \in CwIds
        /\ PayablePaymentId(UserPaymentId(u, n), k) \in Issued(c0) <=> n <= c0[Of(u, "payments")]
        /\ PayablePaymentId(UserPaymentId(u, n), k) \in Issued(c) <=> n <= c[Of(u, "payments")]
    BY <1>1, <1>6, <1>9, IdsOfPayables
  <2>2. /\ PayableActivityId(p, m) \in CwIds
        /\ PayableActivityId(p, m) \in Issued(c0) <=> m <= c0[At(p, "activities")]
        /\ PayableActivityId(p, m) \in Issued(c) <=> m <= c[At(p, "activities")]
    BY <1>1, <1>6, <1>9, IdsOfPayables
  <2> QED
    BY <1>8, <1>9, <2>1, <2>2
<1>12. /\ payment # received /\ payment # userAct /\ payment # payableAct
       /\ received # userAct /\ received # payableAct /\ userAct # payableAct
  BY DEF UserPaymentId, PayablePaymentId, UserActivityId, PayableActivityId
<1> DEFINE c1 == Counted(c0, byUser)
           c2 == Counted(c1, byPayable)
           c3 == Counted(c2, userActs)
           c4 == Counted(c3, payableActs)
           v1 == Pushed(UserIds(u), byUser, payment)
           v2 == Pushed(v1, byPayable, received)
           v3 == Pushed(v2, userActs, userAct)
           v4 == Pushed(v3, payableActs, payableAct)
           r1 == Saved(UserRecords(u), payment, byUser, c)
           r2 == Saved(r1, received, byPayable, c)
           r3 == Saved(r2, userAct, userActs, BeforeLast(c))
           r4 == Saved(r3, payableAct, payableActs, c)
<1>13. counts' = c /\ ids' = v4 /\ records' = r4
  BY DEF pay, c, half
<1> HIDE DEF n, payment, received, userAct, payableAct
<1>14. /\ c1 \in [Lists -> Nat] /\ c2 \in [Lists -> Nat]
       /\ c3 \in [Lists -> Nat] /\ c4 \in [Lists -> Nat]
       /\ \A x \in Lists :
            /\ c1[x] = IF x \in byUser THEN c0[x] + 1 ELSE c0[x]
            /\ c2[x] = IF x \in byPayable THEN c1[x] + 1 ELSE c1[x]
            /\ c3[x] = IF x \in userActs THEN c2[x] + 1 ELSE c2[x]
            /\ c4[x] = IF x \in payableActs THEN c3[x] + 1 ELSE c3[x]
  <2> HIDE DEF byUser, byPayable, userActs, payableActs
  <2>1. /\ c1 \in [Lists -> Nat]
        /\ \A x \in Lists : c1[x] = IF x \in byUser THEN c0[x] + 1 ELSE c0[x]
    BY <1>1, CountedType
  <2> HIDE DEF c1
  <2>2. /\ c2 \in [Lists -> Nat]
        /\ \A x \in Lists : c2[x] = IF x \in byPayable THEN c1[x] + 1 ELSE c1[x]
    BY <2>1, CountedType
  <2> HIDE DEF c2
  <2>3. /\ c3 \in [Lists -> Nat]
        /\ \A x \in Lists : c3[x] = IF x \in userActs THEN c2[x] + 1 ELSE c2[x]
    BY <2>2, CountedType
  <2> HIDE DEF c3
  <2>4. /\ c4 \in [Lists -> Nat]
        /\ \A x \in Lists : c4[x] = IF x \in payableActs THEN c3[x] + 1 ELSE c3[x]
    BY <2>3, CountedType
  <2> QED
    BY <2>1, <2>2, <2>3, <2>4
<1>15. BeforeLast(c)[Chain("activities")] = c[Chain("activities")] - 1
       /\ BeforeLast(c)[Of(u, "activities")] = c[Of(u, "activities")]
  BY <1>2, <1>6 DEF BeforeLast, Chain, Of
<1> HIDE DEF c0, c1, c2, c3, c4
<1>16. /\ \A x \in byUser : c[x] = c0[x] + 1
       /\ \A x \in byPayable : c[x] = c1[x] + 1
       /\ \A x \in userActs : BeforeLast(c)[x] = c2[x] + 1
       /\ \A x \in payableActs : c[x] = c3[x] + 1
  <2>1. \A x \in byUser : c[x] = c0[x] + 1
    <3> HIDE DEF byUser, byPayable, userActs, payableActs
    <3> QED
      BY <1>1, <1>3, <1>4, <1>5, <1>6
  <2>2. \A x \in byPayable : c[x] = c1[x] + 1
    <3> HIDE DEF byUser, byPayable, userActs, payableActs
    <3> QED
      BY <1>1, <1>3, <1>4, <1>5, <1>6, <1>14
  <2>3. \A x \in payableActs : c[x] = c3[x] + 1
    <3> HIDE DEF byUser, byPayable, userActs, payableActs
    <3> QED
      BY <1>1, <1>3, <1>4, <1>5, <1>6, <1>14
  <2>4. \A x \in userActs : c2[x] = c0[x] /\ half[x] = c0[x] + 1
    <3> HIDE DEF byUser, byPayable, userActs, payableActs
    <3> QED
      BY <1>1, <1>3, <1>4, <1>5, <1>14
  <2>5. /\ c[Chain("activities")] = half[Chain("activities")] + 1
        /\ c[Of(u, "activities")] = half[Of(u, "activities")]
    <3>1. /\ Chain("activities") \in payableActs
          /\ Of(u, "activities") \notin byPayable \cup payableActs
      BY DEF Chain, Of, At
    <3> HIDE DEF byPayable, payableActs
    <3> QED
      BY <1>2, <1>5, <1>6, <3>1
  <2>6. /\ c0[Chain("activities")] \in Nat /\ c0[Of(u, "activities")] \in Nat
        /\ half[Chain("activities")] \in Nat /\ half[Of(u, "activities")] \in Nat
    BY <1>1, <1>2, <1>5
  <2>7. \A x \in userActs : BeforeLast(c)[x] = c2[x] + 1
    BY <1>15, <2>4, <2>5, <2>6
  <2> QED
    BY <2>1, <2>2, <2>3, <2>7
<1>17. c4 = c
  <2>1. \A x \in Lists : c4[x] = c[x]
    <3> HIDE DEF byUser, byPayable, userActs, payableActs
    <3> QED
      BY <1>1, <1>4, <1>5, <1>6, <1>14
  <2> QED
    BY <1>6, <1>14, <2>1, SameCounters
<1> HIDE DEF byUser, byPayable, userActs, payableActs
<1>18. Books(c1, v1, r1) /\ Named(r1, Issued(c0) \cup {payment})
  BY <1>1, <1>3, <1>10, <1>16, OneMoreEntry DEF c1
<1> HIDE DEF v1, r1
<1>19. Books(c2, v2, r2) /\ Named(r2, Issued(c0) \cup {payment} \cup {received})
  <2>1. received \notin Issued(c0) \cup {payment}
    BY <1>11, <1>12
  <2> QED
    BY <1>3, <1>11, <1>16, <1>18, <2>1, OneMoreEntry DEF c2
<1> HIDE DEF v2, r2
<1>20. /\ Books(c3, v3, r3)
       /\ Named(r3, Issued(c0) \cup {payment} \cup {received} \cup {userAct})
  <2>1. userAct \notin Issued(c0) \cup {payment} \cup {received}
    BY <1>10, <1>12
  <2> QED
    BY <1>3, <1>10, <1>16, <1>19, <2>1, OneMoreEntry DEF c3
<1> HIDE DEF v3, r3
<1>21. /\ Books(c4, v4, r4)
       /\ Named(r4, Issued(c0) \cup {payment} \cup {received} \cup {userAct} \cup {payableAct})
  <2>1. payableAct \notin Issued(c0) \cup {payment} \cup {received} \cup {userAct}
    BY <1>11, <1>12
  <2> QED
    BY <1>3, <1>11, <1>16, <1>20, <2>1, OneMoreEntry DEF c4
<1> HIDE DEF v4, r4
<1>22. Named(r4, Issued(c))
  <2>1. Issued(c0) \subseteq Issued(c)
    BY <1>1, <1>6, <1>7, IssuedGrows
  <2> QED
    BY <1>10, <1>11, <1>21, <2>1 DEF Named
<1> QED
  BY <1>13, <1>17, <1>21, <1>22 DEF CwBooksInv, Straight

-----------------------------------------------------------------------------
(* Types, and who payables belong to.                                      *)

\* What is well typed besides the books.
FundsTypes ==
  /\ token_details \in [CwTokens -> CwTokenDetails]
  /\ cw_payables \in [CwPayableIds -> CwPayable]
  /\ cw_balances \in [CwPayableIds -> [CwTokens -> Nat]]
  /\ cw_held \in [CwTokens -> Nat]
  /\ cw_earned \in [CwUsers -> [CwTokens -> Nat]]
  /\ cw_collected \in [CwTokens -> Nat]
  /\ given \in [CwTokens -> Nat]
  /\ owner_took \in [CwTokens -> Nat]

\* Payables are created in the order of their numbers.
Numbered == \A p \in CwPayableIds : has_payable(p) => p <= counts[Chain("payables")]

CwInv == FundsTypes /\ Numbered /\ CwBooksInv

\* An existing payable has one of the users as its host.
LEMMA HostIsUser ==
  ASSUME FundsTypes, NEW p \in CwPayableIds, has_payable(p)
  PROVE  cw_payables[p].host \in CwUsers
BY DEF FundsTypes, CwPayable, has_payable

\* A fee is between nothing and the amount, and the rest is due.
LEMMA CwFeesWithin ==
  ASSUME FundsTypes, NEW t \in CwTokens, NEW a \in CwAmounts
  PROVE  /\ a \in Nat
         /\ withdrawal_fees(t, a) \in Nat /\ withdrawal_fees(t, a) <= a
         /\ amount_due(t, a) = a - withdrawal_fees(t, a)
<1> DEFINE x == a * FeePercentage
           d == x \div 10000
           m == token_details[t].max_withdrawal_fees
<1>1. a \in Nat /\ FeePercentage \in 0..10000
  BY CwLedgerAssumption
<1>2. x \in Nat /\ x <= a * 10000
  BY <1>1
<1>3. m \in Nat
  BY DEF FundsTypes, CwTokenDetails
<1>4. withdrawal_fees(t, a) = IF d < m THEN d ELSE m
  BY DEF withdrawal_fees
<1> HIDE DEF x, m
<1>5. d \in Nat /\ d <= a
  BY <1>1, <1>2
<1> HIDE DEF d
<1>6. amount_due(t, a) = a - withdrawal_fees(t, a)
  BY DEF amount_due
<1> QED
  BY <1>1, <1>3, <1>4, <1>5, <1>6

\* The details of a token after a payment and after a withdrawal.
DetailsPaid(r, a) == [r EXCEPT !.total_user_paid = @ + a, !.total_payable_received = @ + a]
DetailsWithdrawn(r, a, f) ==
  [r EXCEPT !.total_withdrawn = @ + a, !.total_withdrawal_fees_collected = @ + f]

LEMMA DetailsAfterPayment ==
  ASSUME NEW r \in CwTokenDetails, NEW a \in Nat
  PROVE  /\ DetailsPaid(r, a) \in CwTokenDetails
         /\ DetailsPaid(r, a).total_payable_received = r.total_payable_received + a
         /\ DetailsPaid(r, a).total_withdrawn = r.total_withdrawn
         /\ DetailsPaid(r, a).total_withdrawal_fees_collected
              = r.total_withdrawal_fees_collected
<1> DEFINE q == [r EXCEPT !.total_user_paid = @ + a]
           z == [q EXCEPT !.total_payable_received = @ + a]
<1>1. /\ q \in CwTokenDetails
      /\ q.total_payable_received = r.total_payable_received
      /\ q.total_withdrawn = r.total_withdrawn
      /\ q.total_withdrawal_fees_collected = r.total_withdrawal_fees_collected
  BY DEF CwTokenDetails
<1>2. DetailsPaid(r, a) = z
  BY DEF DetailsPaid
<1> HIDE DEF q
<1>3. /\ z \in CwTokenDetails
      /\ z.total_payable_received = r.total_payable_received + a
      /\ z.total_withdrawn = r.total_withdrawn
      /\ z.total_withdrawal_fees_collected = r.total_withdrawal_fees_collected
  BY <1>1 DEF CwTokenDetails
<1> QED
  BY <1>2, <1>3

LEMMA DetailsAfterWithdrawal ==
  ASSUME NEW r \in CwTokenDetails, NEW a \in Nat, NEW f \in Nat
  PROVE  /\ DetailsWithdrawn(r, a, f) \in CwTokenDetails
         /\ DetailsWithdrawn(r, a, f).total_payable_received = r.total_payable_received
         /\ DetailsWithdrawn(r, a, f).total_withdrawn = r.total_withdrawn + a
         /\ DetailsWithdrawn(r, a, f).total_withdrawal_fees_collected
              = r.total_withdrawal_fees_collected + f
<1> DEFINE q == [r EXCEPT !.total_withdrawn = @ + a]
           z == [q EXCEPT !.total_withdrawal_fees_collected = @ + f]
<1>1. /\ q \in CwTokenDetails
      /\ q.total_payable_received = r.total_payable_received
      /\ q.total_withdrawn = r.total_withdrawn + a
      /\ q.total_withdrawal_fees_collected = r.total_withdrawal_fees_collected
  BY DEF CwTokenDetails
<1>2. DetailsWithdrawn(r, a, f) = z
  BY DEF DetailsWithdrawn
<1> HIDE DEF q
<1>3. /\ z \in CwTokenDetails
      /\ z.total_payable_received = r.total_payable_received
      /\ z.total_withdrawn = r.total_withdrawn + a
      /\ z.total_withdrawal_fees_collected = r.total_withdrawal_fees_collected + f
  BY <1>1 DEF CwTokenDetails
<1> QED
  BY <1>2, <1>3

LEMMA TotalsChanged ==
  ASSUME NEW t, NEW a, NEW f
  PROVE  /\ PaidTotals(t, a) = [token_details EXCEPT ![t] = DetailsPaid(token_details[t], a)]
         /\ WithdrawnTokenTotals(t, a, f)
              = [token_details EXCEPT ![t] = DetailsWithdrawn(token_details[t], a, f)]
BY DEF PaidTotals, WithdrawnTokenTotals, DetailsPaid, DetailsWithdrawn

LEMMA TotalsType ==
  ASSUME token_details \in [CwTokens -> CwTokenDetails],
         NEW t \in CwTokens, NEW a \in Nat, NEW f \in Nat
  PROVE  /\ PaidTotals(t, a) \in [CwTokens -> CwTokenDetails]
         /\ WithdrawnTokenTotals(t, a, f) \in [CwTokens -> CwTokenDetails]
<1>1. token_details[t] \in CwTokenDetails
  OBVIOUS
<1>2. /\ DetailsPaid(token_details[t], a) \in CwTokenDetails
      /\ DetailsWithdrawn(token_details[t], a, f) \in CwTokenDetails
  BY <1>1, DetailsAfterPayment, DetailsAfterWithdrawal
<1> QED
  BY <1>2, TotalsChanged

\* Raising or lowering one balance.
LEMMA BalancesType ==
  ASSUME cw_balances \in [CwPayableIds -> [CwTokens -> Nat]],
         NEW p \in CwPayableIds, NEW t \in CwTokens, NEW a \in Nat, NEW f
  PROVE  /\ Credited(p, t, a) \in [CwPayableIds -> [CwTokens -> Nat]]
         /\ a <= cw_balances[p][t] => Deducted(p, t, a, f) \in [CwPayableIds -> [CwTokens -> Nat]]
BY DEF Credited, Deducted

LEMMA CreateKeepsFunds ==
  ASSUME CwInv, NEW u \in CwUsers, NEW l \in CwAllowedLists, create_payable(u, l)
  PROVE  FundsTypes' /\ Numbered'
<1> DEFINE p == counts[Chain("payables")] + 1
           entry == {Chain("payables"), Of(u, "payables")}
<1>1. counts[Chain("payables")] \in Nat /\ Chain("payables") \in Lists
  BY ListsThereAre DEF CwInv, CwBooksInv, Straight, Books, ChainKinds
<1>2. p \in CwPayableIds
  BY <1>1, CwLedgerAssumption DEF create_payable, CwPayableIds
<1>3. cw_payables' = [cw_payables EXCEPT ![p] = [host |-> u, allowed |-> l, is_closed |-> FALSE]]
  BY DEF create_payable
<1>4. cw_payables' \in [CwPayableIds -> CwPayable]
  <2>1. [host |-> u, allowed |-> l, is_closed |-> FALSE] \in CwPayable
    BY DEF CwPayable
  <2> HIDE DEF p
  <2> QED
    BY <1>2, <1>3, <2>1 DEF CwInv, FundsTypes
<1>5. FundsTypes'
  BY <1>4 DEF CwInv, FundsTypes, create_payable, moneyVars
<1>6. counts'[Chain("payables")] = p
  <2>1. /\ UserCounts(u) \in [Lists -> Nat]
        /\ UserCounts(u)[Chain("payables")] = counts[Chain("payables")]
    BY UserInitialized DEF CwInv
  <2>2. counts' = Counted(UserCounts(u), entry \cup ActivityLists(u, p))
    BY DEF create_payable
  <2>3. Chain("payables") \in entry \cup ActivityLists(u, p)
    OBVIOUS
  <2> HIDE DEF entry
  <2>4. counts'[Chain("payables")] = UserCounts(u)[Chain("payables")] + 1
    BY <1>1, <2>1, <2>2, <2>3, CountedType
  <2> QED
    BY <2>1, <2>4
<1>7. Numbered'
  <2> SUFFICES ASSUME NEW q \in CwPayableIds, has_payable(q)'
               PROVE  q <= p
    BY <1>6 DEF Numbered
  <2>1. CASE q = p
    BY <1>1, <2>1
  <2>2. CASE q # p
    <3>1. cw_payables'[q] = cw_payables[q]
      BY <1>3, <2>2 DEF CwInv, FundsTypes
    <3>2. has_payable(q)
      BY <3>1 DEF has_payable
    <3> QED
      BY <1>1, <3>2 DEF CwInv, Numbered, CwPayableIds
  <2> QED
    BY <2>1, <2>2
<1> QED
  BY <1>5, <1>7

\* Other calls create no payable and give none away.
LEMMA StaysNumbered ==
  ASSUME CwInv, CwBooksInv',
         \A p \in CwPayableIds : cw_payables'[p].host = cw_payables[p].host,
         counts'[Chain("payables")] >= counts[Chain("payables")]
  PROVE  Numbered'
<1>1. /\ counts[Chain("payables")] \in Nat /\ counts'[Chain("payables")] \in Nat
  BY ListsThereAre DEF CwInv, CwBooksInv, Straight, Books, ChainKinds
<1>2. ASSUME NEW p \in CwPayableIds, has_payable(p)'
      PROVE  p <= counts'[Chain("payables")]
  <2>1. p <= counts[Chain("payables")] /\ p \in Int
    BY <1>2 DEF CwInv, Numbered, has_payable, CwPayableIds
  <2> QED
    BY <1>1, <2>1
<1> QED
  BY <1>2 DEF Numbered

LEMMA UpdateKeepsFunds ==
  ASSUME CwInv, NEW p \in CwPayableIds, NEW payable \in CwPayable,
         cw_payables[p].host \in CwUsers,
         payable.host = cw_payables[p].host,
         record_update_payable_activity(p, payable)
  PROVE  FundsTypes' /\ Numbered'
<1>1. cw_payables' = [cw_payables EXCEPT ![p] = payable]
  BY DEF record_update_payable_activity
<1>2. FundsTypes'
  BY <1>1 DEF CwInv, FundsTypes, record_update_payable_activity, moneyVars
<1>3. \A q \in CwPayableIds : cw_payables'[q].host = cw_payables[q].host
  BY <1>1 DEF CwInv, FundsTypes
<1>4. counts'[Chain("payables")] >= counts[Chain("payables")]
  <2>1. counts \in [Lists -> Nat] /\ Chain("payables") \in Lists
    BY ListsThereAre DEF CwInv, CwBooksInv, Straight, Books, ChainKinds
  <2>2. Grown(counts, counts')
    BY <2>1, CountedType DEF record_update_payable_activity
  <2>3. counts'[Chain("payables")] \in Nat
    BY <2>1, CountedType DEF record_update_payable_activity
  <2> QED
    BY <2>1, <2>2, <2>3 DEF Grown
<1>5. CwBooksInv'
  BY UpdateKeepsBooks DEF CwInv
<1> QED
  BY <1>2, <1>3, <1>4, <1>5, StaysNumbered

LEMMA PayKeepsFunds ==
  ASSUME CwInv, NEW u \in CwUsers, NEW p \in CwPayableIds, NEW t \in CwTokens,
         NEW a \in CwAmounts, pay(u, p, t, a)
  PROVE  FundsTypes' /\ Numbered'
<1>1. a \in Nat
  BY CwLedgerAssumption
<1>2. /\ cw_held' = [cw_held EXCEPT ![t] = @ + a]
      /\ cw_balances' = Credited(p, t, a)
      /\ token_details' = PaidTotals(t, a)
      /\ UNCHANGED <<cw_payables, cw_earned, cw_collected, given, owner_took>>
  BY DEF pay
<1>3. /\ token_details' \in [CwTokens -> CwTokenDetails]
      /\ cw_balances' \in [CwPayableIds -> [CwTokens -> Nat]]
      /\ cw_held' \in [CwTokens -> Nat]
  <2>1. token_details' \in [CwTokens -> CwTokenDetails]
    BY <1>1, <1>2, TotalsType DEF CwInv, FundsTypes
  <2>2. cw_balances' \in [CwPayableIds -> [CwTokens -> Nat]]
    BY <1>1, <1>2, BalancesType DEF CwInv, FundsTypes
  <2>3. cw_held' \in [CwTokens -> Nat]
    BY <1>1, <1>2 DEF CwInv, FundsTypes
  <2> QED
    BY <2>1, <2>2, <2>3
<1>4. FundsTypes'
  BY <1>2, <1>3 DEF CwInv, FundsTypes
<1>5. counts'[Chain("payables")] >= counts[Chain("payables")]
  <2> DEFINE c0 == UserCounts(u)
             L1 == {Chain("user_payments"), Of(u, "payments"), Chain("activities"),
                    Of(u, "activities")}
             L2 == {Chain("payable_payments"), At(p, "payments"), At(p, "local_payments"),
                    Chain("activities"), At(p, "activities")}
  <2>1. /\ c0 \in [Lists -> Nat] /\ Chain("payables") \in Lists
        /\ c0[Chain("payables")] = counts[Chain("payables")]
    BY UserInitialized, ListsThereAre DEF CwInv, ChainKinds
  <2>2. counts' = Counted(Counted(c0, L1), L2)
    <3>1. /\ L1 = {Chain("user_payments"), Of(u, "payments")}
                    \cup {Chain("activities"), Of(u, "activities")}
          /\ L2 = {Chain("payable_payments"), At(p, "payments"), At(p, "local_payments")}
                    \cup {Chain("activities"), At(p, "activities")}
      OBVIOUS
    <3> HIDE DEF L1, L2
    <3> QED
      BY <3>1 DEF pay
  <2> HIDE DEF c0, L1, L2
  <2>3. Counted(c0, L1) \in [Lists -> Nat] /\ Grown(c0, Counted(c0, L1))
    BY <2>1, CountedType
  <2>4. counts' \in [Lists -> Nat] /\ Grown(Counted(c0, L1), counts')
    BY <2>2, <2>3, CountedType
  <2> QED
    BY <2>1, <2>3, <2>4 DEF Grown
<1>6. CwBooksInv'
  BY PayKeepsBooks DEF CwInv
<1> QED
  BY <1>2, <1>4, <1>5, <1>6, StaysNumbered

LEMMA WithdrawKeepsFunds ==
  ASSUME CwInv, NEW p \in CwPayableIds, NEW t \in CwTokens, NEW a \in CwAmounts,
         withdraw(p, t, a)
  PROVE  FundsTypes' /\ Numbered'
<1> DEFINE u == cw_payables[p].host
           fees == withdrawal_fees(t, a)
           due == amount_due(t, a)
           L == {Chain("withdrawals"), Of(u, "withdrawals"), At(p, "withdrawals")}
                  \cup ActivityLists(u, p)
<1>1. u \in CwUsers
  BY HostIsUser DEF CwInv, withdraw
<1>2. a \in Nat /\ fees \in Nat /\ due \in Nat
  <2>1. a \in Nat /\ fees \in Nat /\ fees <= a /\ due = a - fees
    BY CwFeesWithin DEF CwInv
  <2> HIDE DEF fees, due
  <2> QED
    BY <2>1
<1>3. /\ a <= cw_balances[p][t] /\ due + fees <= cw_held[t]
      /\ cw_held' = [cw_held EXCEPT ![t] = @ - (due + fees)]
      /\ cw_earned' = [cw_earned EXCEPT ![u][t] = @ + due]
      /\ cw_collected' = [cw_collected EXCEPT ![t] = @ + fees]
      /\ cw_balances' = Deducted(p, t, a, fees)
      /\ token_details' = WithdrawnTokenTotals(t, a, fees)
      /\ counts' = Counted(counts, L)
      /\ UNCHANGED <<cw_payables, given, owner_took>>
  BY DEF withdraw
<1> HIDE DEF u, fees, due, L
<1>4. /\ token_details' \in [CwTokens -> CwTokenDetails]
      /\ cw_balances' \in [CwPayableIds -> [CwTokens -> Nat]]
  BY <1>2, <1>3, TotalsType, BalancesType DEF CwInv, FundsTypes
<1>5. /\ cw_held' \in [CwTokens -> Nat]
      /\ cw_earned' \in [CwUsers -> [CwTokens -> Nat]]
      /\ cw_collected' \in [CwTokens -> Nat]
  BY <1>1, <1>2, <1>3 DEF CwInv, FundsTypes
<1>6. FundsTypes'
  BY <1>3, <1>4, <1>5 DEF CwInv, FundsTypes
<1>7. counts'[Chain("payables")] >= counts[Chain("payables")]
  <2>1. counts \in [Lists -> Nat] /\ Chain("payables") \in Lists
    BY ListsThereAre DEF CwInv, CwBooksInv, Straight, Books, ChainKinds
  <2>2. counts' \in [Lists -> Nat] /\ Grown(counts, counts')
    BY <1>3, <2>1, CountedType
  <2> QED
    BY <2>1, <2>2 DEF Grown
<1>8. CwBooksInv'
  BY <1>1, WithdrawKeepsBooks DEF CwInv, u
<1> QED
  BY <1>3, <1>6, <1>7, <1>8, StaysNumbered

-----------------------------------------------------------------------------
(* The money.  A running total of the balances in a token, payable by      *)
(* payable, that never decreases: a payment raises one balance and every   *)
(* total after it, a withdrawal lowers them by no more than that balance.  *)

RunningTotals(s, b) ==
  /\ s \in [0..MaxCwPayables -> Nat]
  /\ s[0] = 0
  /\ \A p \in CwPayableIds : s[p] = s[p - 1] + b[p]
  /\ \A i, j \in 0..MaxCwPayables : i <= j => s[i] <= s[j]

Owed(t) == [p \in CwPayableIds |-> cw_balances[p][t]]

\* What n, the sum of the balances, has to agree with.
Ties(t, n) ==
  /\ cw_held[t] + owner_took[t] = n + given[t]
  /\ n + token_details[t].total_withdrawn = token_details[t].total_payable_received
  /\ cw_collected[t] = token_details[t].total_withdrawal_fees_collected

AddsUpIn(t) ==
  \E s \in [0..MaxCwPayables -> Nat] : RunningTotals(s, Owed(t)) /\ Ties(t, s[MaxCwPayables])

MoneyInv == \A t \in CwTokens : AddsUpIn(t)

\* One balance changed by k changes the last total by k.
LEMMA OneBalanceMoved ==
  ASSUME NEW s, NEW b \in [CwPayableIds -> Nat], RunningTotals(s, b),
         NEW p \in CwPayableIds, NEW k \in Int,
         NEW b2 \in [CwPayableIds -> Nat], b2[p] = b[p] + k,
         \A q \in CwPayableIds : q # p => b2[q] = b[q]
  PROVE  \E z \in [0..MaxCwPayables -> Nat] :
           RunningTotals(z, b2) /\ z[MaxCwPayables] = s[MaxCwPayables] + k
<1> DEFINE N == MaxCwPayables
           z == [i \in 0..N |-> IF i >= p THEN s[i] + k ELSE s[i]]
<1>1. N \in Nat /\ p \in 1..N
  BY CwLedgerAssumption DEF CwPayableIds
<1>2. /\ s \in [0..N -> Nat] /\ s[0] = 0
      /\ \A q \in CwPayableIds : s[q] = s[q - 1] + b[q]
      /\ \A i, j \in 0..N : i <= j => s[i] <= s[j]
  BY DEF RunningTotals
<1>3. /\ p \in 0..N /\ p - 1 \in 0..N
      /\ s[p] \in Nat /\ s[p - 1] \in Nat
      /\ s[p] + k >= s[p - 1]
  <2>1. p \in 0..N /\ p - 1 \in 0..N
    BY <1>1
  <2>2. s[p] = s[p - 1] + b[p] /\ s[p] \in Nat /\ s[p - 1] \in Nat /\ b[p] \in Nat
    BY <1>2, <2>1
  <2> QED
    BY <2>1, <2>2
<1>4. ASSUME NEW i \in 0..N, i >= p
      PROVE  s[i] + k \in Nat
  <2>1. s[i] \in Nat /\ s[p] <= s[i]
    BY <1>2, <1>3, <1>4
  <2> QED
    BY <1>3, <2>1
<1>5. z \in [0..N -> Nat]
  BY <1>2, <1>4
<1>6. z[0] = 0
  BY <1>1, <1>2
<1>7. ASSUME NEW q \in CwPayableIds
      PROVE  z[q] = z[q - 1] + b2[q]
  <2>1. q \in 0..N /\ q - 1 \in 0..N /\ q \in Int /\ p \in Int
    BY <1>1 DEF CwPayableIds
  <2>2. s[q] = s[q - 1] + b[q] /\ s[q] \in Nat /\ s[q - 1] \in Nat /\ b[q] \in Nat
    BY <1>2, <2>1
  <2>3. b2[q] = (IF q = p THEN b[q] + k ELSE b[q]) /\ b2[q] \in Nat
    OBVIOUS
  <2>4. /\ z[q] = (IF q >= p THEN s[q] + k ELSE s[q])
        /\ z[q - 1] = (IF q - 1 >= p THEN s[q - 1] + k ELSE s[q - 1])
    BY <2>1
  <2> HIDE DEF z
  <2> QED
    BY <2>1, <2>2, <2>3, <2>4
<1>8. ASSUME NEW i \in 0..N, NEW j \in 0..N, i <= j
      PROVE  z[i] <= z[j]
  <2>1. /\ s[i] \in Nat /\ s[j] \in Nat /\ s[i] <= s[j]
        /\ i \in Int /\ j \in Int /\ p \in Int
    BY <1>1, <1>2, <1>8
  <2>2. CASE i < p /\ j >= p
    <3>1. s[i] <= s[p - 1] /\ s[p] <= s[j]
      BY <1>2, <1>3, <2>1, <2>2
    <3> QED
      BY <1>3, <2>1, <2>2, <3>1
  <2>3. CASE ~(i < p /\ j >= p)
    BY <1>8, <2>1, <2>3
  <2> QED
    BY <2>2, <2>3
<1>9. z[N] = s[N] + k
  BY <1>1
<1> HIDE DEF z
<1>10. RunningTotals(z, b2)
  BY <1>5, <1>6, <1>7, <1>8 DEF RunningTotals
<1> QED
  BY <1>5, <1>9, <1>10

\* The amounts of a token, by type.
LEMMA AmountsOf ==
  ASSUME FundsTypes, NEW t \in CwTokens
  PROVE  /\ cw_held[t] \in Nat /\ owner_took[t] \in Nat /\ given[t] \in Nat
         /\ cw_collected[t] \in Nat
         /\ token_details[t] \in CwTokenDetails
         /\ token_details[t].total_withdrawn \in Nat
         /\ token_details[t].total_payable_received \in Nat
         /\ token_details[t].total_withdrawal_fees_collected \in Nat
         /\ Owed(t) \in [CwPayableIds -> Nat]
<1>1. token_details[t] \in CwTokenDetails
  BY DEF FundsTypes
<1>2. /\ token_details[t].total_withdrawn \in Nat
      /\ token_details[t].total_payable_received \in Nat
      /\ token_details[t].total_withdrawal_fees_collected \in Nat
  BY <1>1 DEF CwTokenDetails
<1> QED
  BY <1>1, <1>2 DEF FundsTypes, Owed

\* A token that a step leaves alone, but for money given to the contract or
\* taken by its owner.
LEMMA TokenKept ==
  ASSUME FundsTypes, FundsTypes', NEW t \in CwTokens, AddsUpIn(t),
         Owed(t)' = Owed(t),
         cw_held'[t] + owner_took'[t] - given'[t] = cw_held[t] + owner_took[t] - given[t],
         cw_collected'[t] = cw_collected[t],
         token_details'[t].total_withdrawn = token_details[t].total_withdrawn,
         token_details'[t].total_payable_received = token_details[t].total_payable_received,
         token_details'[t].total_withdrawal_fees_collected
           = token_details[t].total_withdrawal_fees_collected
  PROVE  AddsUpIn(t)'
<1>1. PICK s \in [0..MaxCwPayables -> Nat] :
             RunningTotals(s, Owed(t)) /\ Ties(t, s[MaxCwPayables])
  BY DEF AddsUpIn
<1>2. s[MaxCwPayables] \in Nat
  BY CwLedgerAssumption
<1>3. RunningTotals(s, Owed(t)')
  BY <1>1
<1>4. Ties(t, s[MaxCwPayables])'
  <2>1. cw_held'[t] + owner_took'[t] = s[MaxCwPayables] + given'[t]
    <3> DEFINE n == s[MaxCwPayables]
               h == cw_held[t]
               o == owner_took[t]
               g == given[t]
               h2 == cw_held'[t]
               o2 == owner_took'[t]
               g2 == given'[t]
    <3>1. /\ n \in Nat /\ h \in Nat /\ o \in Nat /\ g \in Nat
          /\ h2 \in Nat /\ o2 \in Nat /\ g2 \in Nat
      BY <1>2 DEF FundsTypes
    <3>2. h + o = n + g /\ h2 + o2 - g2 = h + o - g
      BY <1>1 DEF Ties
    <3> HIDE DEF n, h, o, g, h2, o2, g2
    <3>3. h2 + o2 = n + g2
      BY <3>1, <3>2
    <3> QED
      BY <3>3 DEF h2, o2, g2, n
  <2>2. /\ s[MaxCwPayables] + token_details'[t].total_withdrawn
             = token_details'[t].total_payable_received
        /\ cw_collected'[t] = token_details'[t].total_withdrawal_fees_collected
    BY <1>1 DEF Ties
  <2> QED
    BY <2>1, <2>2 DEF Ties
<1> QED
  BY <1>3, <1>4 DEF AddsUpIn

\* A payable is credited k, or debited -k, of which the fee f is collected.
LEMMA TokenMoved ==
  ASSUME FundsTypes, FundsTypes', NEW t \in CwTokens, AddsUpIn(t),
         NEW p \in CwPayableIds, NEW k \in Int,
         cw_balances'[p][t] = cw_balances[p][t] + k,
         \A q \in CwPayableIds : q # p => cw_balances'[q][t] = cw_balances[q][t],
         cw_held'[t] = cw_held[t] + k,
         owner_took'[t] = owner_took[t], given'[t] = given[t],
         cw_collected'[t] - token_details'[t].total_withdrawal_fees_collected
           = cw_collected[t] - token_details[t].total_withdrawal_fees_collected,
         token_details'[t].total_payable_received - token_details'[t].total_withdrawn
           = token_details[t].total_payable_received - token_details[t].total_withdrawn + k
  PROVE  AddsUpIn(t)'
<1>1. PICK s \in [0..MaxCwPayables -> Nat] :
             RunningTotals(s, Owed(t)) /\ Ties(t, s[MaxCwPayables])
  BY DEF AddsUpIn
<1>2. s[MaxCwPayables] \in Nat
  BY CwLedgerAssumption
<1>3. /\ Owed(t) \in [CwPayableIds -> Nat] /\ Owed(t)' \in [CwPayableIds -> Nat]
      /\ \A q \in CwPayableIds :
           Owed(t)[q] = cw_balances[q][t] /\ Owed(t)'[q] = cw_balances'[q][t]
  BY DEF Owed, FundsTypes
<1>4. \E z \in [0..MaxCwPayables -> Nat] :
        RunningTotals(z, Owed(t)') /\ z[MaxCwPayables] = s[MaxCwPayables] + k
  <2> DEFINE o == Owed(t)
             o2 == Owed(t)'
  <2>1. /\ o \in [CwPayableIds -> Nat] /\ o2 \in [CwPayableIds -> Nat]
        /\ o2[p] = o[p] + k /\ \A q \in CwPayableIds : q # p => o2[q] = o[q]
        /\ RunningTotals(s, o)
    BY <1>1, <1>3
  <2> HIDE DEF o, o2
  <2>2. \E z \in [0..MaxCwPayables -> Nat] :
          RunningTotals(z, o2) /\ z[MaxCwPayables] = s[MaxCwPayables] + k
    BY <2>1, OneBalanceMoved
  <2> QED
    BY <2>2 DEF o2
<1>5. PICK z \in [0..MaxCwPayables -> Nat] :
             RunningTotals(z, Owed(t)') /\ z[MaxCwPayables] = s[MaxCwPayables] + k
  BY <1>4
<1>6. RunningTotals(z, Owed(t)')
  BY <1>5
<1>7. Ties(t, z[MaxCwPayables])'
  <2> DEFINE n == s[MaxCwPayables]
             m == z[MaxCwPayables]
             w == token_details[t].total_withdrawn
             x == token_details[t].total_payable_received
             y == token_details[t].total_withdrawal_fees_collected
  <2>1. /\ cw_held[t] \in Nat /\ owner_took[t] \in Nat /\ given[t] \in Nat
        /\ cw_collected[t] \in Nat /\ w \in Nat /\ x \in Nat /\ y \in Nat
    BY AmountsOf
  <2>2. /\ n \in Nat /\ m = n + k
        /\ cw_held[t] + owner_took[t] = n + given[t]
        /\ n + w = x /\ cw_collected[t] = y
    BY <1>1, <1>2, <1>5 DEF Ties
  <2> DEFINE w2 == token_details'[t].total_withdrawn
             x2 == token_details'[t].total_payable_received
             y2 == token_details'[t].total_withdrawal_fees_collected
             c == cw_collected[t]
             c2 == cw_collected'[t]
  <2>3. /\ w2 \in Nat /\ x2 \in Nat /\ y2 \in Nat /\ c \in Nat /\ c2 \in Nat
        /\ x2 - w2 = x - w + k /\ c2 - y2 = c - y /\ c = y
    <3>1. token_details'[t] \in CwTokenDetails /\ c \in Nat /\ c2 \in Nat
      BY DEF FundsTypes
    <3>2. w2 \in Nat /\ x2 \in Nat /\ y2 \in Nat
      BY <3>1 DEF CwTokenDetails
    <3> QED
      BY <2>2, <3>1, <3>2
  <2> HIDE DEF n, m, w, x, y, w2, x2, y2, c, c2
  <2>4. cw_held'[t] + owner_took'[t] = m + given'[t]
    <3> DEFINE h == cw_held[t]
               o == owner_took[t]
               g == given[t]
               h2 == cw_held'[t]
               o2 == owner_took'[t]
               g2 == given'[t]
    <3>1. h \in Nat /\ o \in Nat /\ g \in Nat /\ h2 = h + k /\ o2 = o /\ g2 = g
      BY <2>1
    <3>2. n \in Nat /\ m = n + k /\ h + o = n + g
      BY <2>2
    <3> HIDE DEF h, o, g, h2, o2, g2
    <3>3. h2 + o2 = (h + o) + k
      BY <3>1
    <3>4. m + g2 = (n + g) + k
      BY <3>1, <3>2
    <3>5. h2 + o2 = m + g2
      BY <3>2, <3>3, <3>4
    <3> QED
      BY <3>5 DEF h2, o2, g2
  <2>5. m + w2 = x2
    BY <2>1, <2>2, <2>3
  <2>6. c2 = y2
    BY <2>1, <2>3
  <2> QED
    BY <2>4, <2>5, <2>6 DEF Ties, m, w2, x2, y2, c2
<1> QED
  BY <1>6, <1>7 DEF AddsUpIn

\* A step that leaves all money alone.
LEMMA MoneyKept ==
  ASSUME FundsTypes, FundsTypes', MoneyInv, UNCHANGED <<cw_balances, moneyVars>>,
         \A t \in CwTokens :
           /\ token_details'[t].total_withdrawn = token_details[t].total_withdrawn
           /\ token_details'[t].total_payable_received = token_details[t].total_payable_received
           /\ token_details'[t].total_withdrawal_fees_collected
                = token_details[t].total_withdrawal_fees_collected
  PROVE  MoneyInv'
<1> SUFFICES ASSUME NEW t \in CwTokens
             PROVE  AddsUpIn(t)'
  BY DEF MoneyInv
<1>1. AddsUpIn(t)
  BY DEF MoneyInv
<1>2. /\ Owed(t)' = Owed(t)
      /\ cw_held' = cw_held /\ owner_took' = owner_took /\ given' = given
      /\ cw_collected' = cw_collected
  BY DEF Owed, moneyVars
<1> QED
  BY <1>1, <1>2, TokenKept

\* The books of the other tokens, when one is paid or withdrawn.
LEMMA OtherTokens ==
  ASSUME FundsTypes, FundsTypes', MoneyInv, NEW t \in CwTokens, NEW x \in CwTokens, x # t,
         \A q \in CwPayableIds : cw_balances'[q][x] = cw_balances[q][x],
         cw_held'[x] = cw_held[x], owner_took'[x] = owner_took[x], given'[x] = given[x],
         cw_collected'[x] = cw_collected[x],
         token_details'[x] = token_details[x]
  PROVE  AddsUpIn(x)'
<1>1. AddsUpIn(x)
  BY DEF MoneyInv
<1>2. Owed(x)' = Owed(x)
  BY DEF Owed
<1> QED
  BY <1>1, <1>2, TokenKept

LEMMA PayKeepsMoney ==
  ASSUME CwInv, FundsTypes', MoneyInv, NEW u \in CwUsers, NEW p \in CwPayableIds,
         NEW t \in CwTokens, NEW a \in CwAmounts, pay(u, p, t, a)
  PROVE  MoneyInv'
<1>1. a \in Nat /\ FundsTypes
  BY CwLedgerAssumption DEF CwInv
<1>2. /\ cw_held' = [cw_held EXCEPT ![t] = @ + a]
      /\ cw_balances' = [cw_balances EXCEPT ![p][t] = @ + a]
      /\ token_details' = PaidTotals(t, a)
      /\ UNCHANGED <<cw_collected, given, owner_took>>
  BY DEF pay, Credited
<1>3. /\ \A x \in CwTokens : x # t => token_details'[x] = token_details[x]
      /\ token_details'[t].total_payable_received = token_details[t].total_payable_received + a
      /\ token_details'[t].total_withdrawn = token_details[t].total_withdrawn
      /\ token_details'[t].total_withdrawal_fees_collected
           = token_details[t].total_withdrawal_fees_collected
  <2> DEFINE z == DetailsPaid(token_details[t], a)
  <2>1. token_details' = [token_details EXCEPT ![t] = z]
    BY <1>2, TotalsChanged
  <2>2. /\ z.total_payable_received = token_details[t].total_payable_received + a
        /\ z.total_withdrawn = token_details[t].total_withdrawn
        /\ z.total_withdrawal_fees_collected = token_details[t].total_withdrawal_fees_collected
    BY <1>1, AmountsOf, DetailsAfterPayment
  <2> HIDE DEF z
  <2> QED
    BY <1>1, <2>1, <2>2 DEF FundsTypes
<1>4. AddsUpIn(t)'
  <2>1. /\ cw_balances'[p][t] = cw_balances[p][t] + a
        /\ \A q \in CwPayableIds : q # p => cw_balances'[q][t] = cw_balances[q][t]
    BY <1>1, <1>2 DEF FundsTypes
  <2>2. cw_held'[t] = cw_held[t] + a
    BY <1>1, <1>2 DEF FundsTypes
  <2>3. /\ owner_took'[t] = owner_took[t] /\ given'[t] = given[t]
        /\ cw_collected'[t] - token_details'[t].total_withdrawal_fees_collected
             = cw_collected[t] - token_details[t].total_withdrawal_fees_collected
    BY <1>2, <1>3
  <2>4. token_details'[t].total_payable_received - token_details'[t].total_withdrawn
          = token_details[t].total_payable_received - token_details[t].total_withdrawn + a
    <3> DEFINE w == token_details[t].total_withdrawn
               x == token_details[t].total_payable_received
    <3>1. w \in Nat /\ x \in Nat
      BY <1>1, AmountsOf
    <3>2. token_details'[t].total_payable_received = x + a /\ token_details'[t].total_withdrawn = w
      BY <1>3
    <3> HIDE DEF w, x
    <3>3. token_details'[t].total_payable_received - token_details'[t].total_withdrawn = x - w + a
      BY <1>1, <3>1, <3>2
    <3> QED
      BY <3>3 DEF w, x
  <2>5. AddsUpIn(t) /\ a \in Int
    BY <1>1 DEF MoneyInv
  <2> QED
    BY <1>1, <2>1, <2>2, <2>3, <2>4, <2>5, TokenMoved
<1>5. ASSUME NEW x \in CwTokens, x # t
      PROVE  AddsUpIn(x)'
  <2>1. /\ \A q \in CwPayableIds : cw_balances'[q][x] = cw_balances[q][x]
        /\ cw_held'[x] = cw_held[x]
    BY <1>1, <1>2, <1>5 DEF FundsTypes
  <2> QED
    BY <1>1, <1>2, <1>3, <1>5, <2>1, OtherTokens
<1> QED
  BY <1>4, <1>5 DEF MoneyInv

LEMMA WithdrawKeepsMoney ==
  ASSUME CwInv, FundsTypes', MoneyInv, NEW p \in CwPayableIds,
         NEW t \in CwTokens, NEW a \in CwAmounts, withdraw(p, t, a)
  PROVE  MoneyInv'
<1> DEFINE fees == withdrawal_fees(t, a)
           due == amount_due(t, a)
<1>1. /\ a \in Nat /\ fees \in Nat /\ due + fees = a
      /\ FundsTypes
  <2>1. a \in Nat /\ fees \in Nat /\ due = a - fees /\ FundsTypes
    BY CwFeesWithin DEF CwInv
  <2> HIDE DEF fees, due
  <2> QED
    BY <2>1
<1>2. /\ cw_held' = [cw_held EXCEPT ![t] = @ - (due + fees)]
      /\ cw_collected' = [cw_collected EXCEPT ![t] = @ + fees]
      /\ cw_balances' = [cw_balances EXCEPT ![p][t] = @ - a]
      /\ token_details' = WithdrawnTokenTotals(t, a, fees)
      /\ UNCHANGED <<given, owner_took>>
  BY DEF withdraw, Deducted
<1> HIDE DEF fees, due
<1>3. /\ \A x \in CwTokens : x # t => token_details'[x] = token_details[x]
      /\ token_details'[t].total_payable_received = token_details[t].total_payable_received
      /\ token_details'[t].total_withdrawn = token_details[t].total_withdrawn + a
      /\ token_details'[t].total_withdrawal_fees_collected
           = token_details[t].total_withdrawal_fees_collected + fees
  <2> DEFINE z == DetailsWithdrawn(token_details[t], a, fees)
  <2>1. token_details' = [token_details EXCEPT ![t] = z]
    BY <1>2, TotalsChanged
  <2>2. /\ z.total_payable_received = token_details[t].total_payable_received
        /\ z.total_withdrawn = token_details[t].total_withdrawn + a
        /\ z.total_withdrawal_fees_collected
             = token_details[t].total_withdrawal_fees_collected + fees
    <3> DEFINE r == token_details[t]
    <3>1. r \in CwTokenDetails /\ a \in Nat /\ fees \in Nat
      BY <1>1, AmountsOf
    <3> HIDE DEF r
    <3>2. /\ DetailsWithdrawn(r, a, fees).total_payable_received = r.total_payable_received
          /\ DetailsWithdrawn(r, a, fees).total_withdrawn = r.total_withdrawn + a
          /\ DetailsWithdrawn(r, a, fees).total_withdrawal_fees_collected
               = r.total_withdrawal_fees_collected + fees
      BY <3>1, DetailsAfterWithdrawal
    <3> QED
      BY <3>2 DEF r
  <2> HIDE DEF z
  <2> QED
    BY <1>1, <2>1, <2>2 DEF FundsTypes
<1>4. AddsUpIn(t)'
  <2> DEFINE k == -a
  <2>1. /\ cw_balances'[p][t] = cw_balances[p][t] + k
        /\ \A q \in CwPayableIds : q # p => cw_balances'[q][t] = cw_balances[q][t]
    BY <1>1, <1>2 DEF FundsTypes
  <2>2. cw_held'[t] = cw_held[t] + k
    <3>1. cw_held'[t] = cw_held[t] - a
      BY <1>1, <1>2 DEF FundsTypes
    <3> QED
      BY <1>1, <3>1, AmountsOf
  <2>3. owner_took'[t] = owner_took[t] /\ given'[t] = given[t]
    BY <1>2
  <2> DEFINE w == token_details[t].total_withdrawn
             x == token_details[t].total_payable_received
             y == token_details[t].total_withdrawal_fees_collected
             c == cw_collected[t]
             c2 == cw_collected'[t]
  <2>4. k \in Int /\ w \in Nat /\ x \in Nat /\ y \in Nat /\ c \in Nat /\ c2 = c + fees
    BY <1>1, <1>2, AmountsOf DEF FundsTypes
  <2>6. c2 - token_details'[t].total_withdrawal_fees_collected = c - y
    <3>1. token_details'[t].total_withdrawal_fees_collected = y + fees
      BY <1>3
    <3> HIDE DEF w, x, y, c, c2
    <3> QED
      BY <1>1, <2>4, <3>1
  <2>7. token_details'[t].total_payable_received - token_details'[t].total_withdrawn = x - w + k
    <3>1. token_details'[t].total_payable_received = x /\ token_details'[t].total_withdrawn = w + a
      BY <1>3
    <3> HIDE DEF w, x, y
    <3> QED
      BY <1>1, <2>4, <3>1
  <2> HIDE DEF k
  <2>5. AddsUpIn(t)
    BY DEF MoneyInv
  <2> QED
    BY <1>1, <2>1, <2>2, <2>3, <2>4, <2>5, <2>6, <2>7, TokenMoved
<1>5. ASSUME NEW x \in CwTokens, x # t
      PROVE  AddsUpIn(x)'
  <2>1. /\ \A q \in CwPayableIds : cw_balances'[q][x] = cw_balances[q][x]
        /\ cw_held'[x] = cw_held[x] /\ cw_collected'[x] = cw_collected[x]
    BY <1>1, <1>2, <1>5 DEF FundsTypes
  <2> QED
    BY <1>1, <1>2, <1>3, <1>5, <2>1, OtherTokens
<1> QED
  BY <1>4, <1>5 DEF MoneyInv

\* The owner's withdrawals and strangers' gifts show on their own side only.
LEMMA PoolKeepsMoney ==
  ASSUME FundsTypes, FundsTypes', MoneyInv, NEW t \in CwTokens, NEW g \in Int, NEW o \in Int,
         cw_held' = [cw_held EXCEPT ![t] = @ + g - o],
         given' = [given EXCEPT ![t] = @ + g],
         owner_took' = [owner_took EXCEPT ![t] = @ + o],
         UNCHANGED <<token_details, cw_balances, cw_collected>>
  PROVE  MoneyInv'
<1>1. ASSUME NEW x \in CwTokens, x # t
      PROVE  AddsUpIn(x)'
  <2>1. cw_held'[x] = cw_held[x] /\ given'[x] = given[x] /\ owner_took'[x] = owner_took[x]
    BY <1>1 DEF FundsTypes
  <2> QED
    BY <1>1, <2>1, OtherTokens
<1>2. AddsUpIn(t)'
  <2>1. /\ cw_held'[t] = cw_held[t] + g - o
        /\ given'[t] = given[t] + g /\ owner_took'[t] = owner_took[t] + o
    BY DEF FundsTypes
  <2>2. cw_held'[t] + owner_took'[t] - given'[t] = cw_held[t] + owner_took[t] - given[t]
    BY <2>1, AmountsOf
  <2>3. Owed(t)' = Owed(t) /\ AddsUpIn(t)
    BY DEF Owed, MoneyInv
  <2> QED
    BY <2>1, <2>2, <2>3, TokenKept
<1> QED
  BY <1>1, <1>2 DEF MoneyInv

-----------------------------------------------------------------------------
(* The calls of the owner, and gifts.                                      *)

DetailsSet(r, n, m) ==
  [r EXCEPT !.is_supported = TRUE, !.is_native_token = n, !.max_withdrawal_fees = m]

LEMMA DetailsAfterUpdate ==
  ASSUME NEW r \in CwTokenDetails, NEW n \in BOOLEAN, NEW m \in Nat
  PROVE  /\ DetailsSet(r, n, m) \in CwTokenDetails
         /\ DetailsSet(r, n, m).total_withdrawn = r.total_withdrawn
         /\ DetailsSet(r, n, m).total_payable_received = r.total_payable_received
         /\ DetailsSet(r, n, m).total_withdrawal_fees_collected
              = r.total_withdrawal_fees_collected
<1> DEFINE q == [r EXCEPT !.is_supported = TRUE]
           w == [q EXCEPT !.is_native_token = n]
           z == [w EXCEPT !.max_withdrawal_fees = m]
<1>1. /\ q \in CwTokenDetails
      /\ q.total_payable_received = r.total_payable_received
      /\ q.total_withdrawn = r.total_withdrawn
      /\ q.total_withdrawal_fees_collected = r.total_withdrawal_fees_collected
  BY DEF CwTokenDetails
<1>2. DetailsSet(r, n, m) = z
  BY DEF DetailsSet
<1> HIDE DEF q
<1>3. /\ w \in CwTokenDetails
      /\ w.total_payable_received = r.total_payable_received
      /\ w.total_withdrawn = r.total_withdrawn
      /\ w.total_withdrawal_fees_collected = r.total_withdrawal_fees_collected
  BY <1>1 DEF CwTokenDetails
<1> HIDE DEF w
<1>4. /\ z \in CwTokenDetails
      /\ z.total_payable_received = r.total_payable_received
      /\ z.total_withdrawn = r.total_withdrawn
      /\ z.total_withdrawal_fees_collected = r.total_withdrawal_fees_collected
  BY <1>3 DEF CwTokenDetails
<1> QED
  BY <1>2, <1>4

\* What only touches the money of the contract leaves payables and books be.
LEMMA SameBooks ==
  ASSUME CwInv, UNCHANGED <<cw_payables, bookVars>>
  PROVE  Numbered' /\ CwBooksInv'
<1>1. counts' = counts /\ ids' = ids /\ records' = records /\ cw_payables' = cw_payables
  BY DEF bookVars
<1>2. CwBooksInv'
  BY <1>1 DEF CwInv, CwBooksInv
<1>3. Numbered'
  BY <1>1 DEF CwInv, Numbered, has_payable
<1> QED
  BY <1>2, <1>3

LEMMA UpdateFeesKeeps ==
  ASSUME CwInv, MoneyInv, NEW t \in CwTokens, NEW n \in BOOLEAN, NEW m \in MaxFees,
         update_max_withdrawal_fees(t, n, m)
  PROVE  CwInv' /\ MoneyInv'
<1> DEFINE r == token_details[t]
           z == DetailsSet(r, n, m)
<1>1. FundsTypes /\ m \in Nat /\ r \in CwTokenDetails
  BY CwLedgerAssumption DEF CwInv, FundsTypes
<1>2. /\ token_details' = [token_details EXCEPT ![t] = z]
      /\ UNCHANGED <<cw_payables, cw_balances, bookVars, moneyVars>>
  BY DEF update_max_withdrawal_fees, DetailsSet
<1>3. /\ z \in CwTokenDetails
      /\ z.total_withdrawn = r.total_withdrawn
      /\ z.total_payable_received = r.total_payable_received
      /\ z.total_withdrawal_fees_collected = r.total_withdrawal_fees_collected
  <2> HIDE DEF r
  <2> QED
    BY <1>1, DetailsAfterUpdate
<1> HIDE DEF z
<1>4. FundsTypes'
  <2>1. token_details' \in [CwTokens -> CwTokenDetails]
    BY <1>1, <1>2, <1>3 DEF FundsTypes
  <2> QED
    BY <1>1, <1>2, <2>1 DEF FundsTypes, moneyVars
<1>5. \A x \in CwTokens :
        /\ token_details'[x].total_withdrawn = token_details[x].total_withdrawn
        /\ token_details'[x].total_payable_received = token_details[x].total_payable_received
        /\ token_details'[x].total_withdrawal_fees_collected
             = token_details[x].total_withdrawal_fees_collected
  BY <1>1, <1>2, <1>3 DEF FundsTypes
<1>6. MoneyInv'
  BY <1>1, <1>2, <1>4, <1>5, MoneyKept
<1> QED
  BY <1>2, <1>4, <1>6, SameBooks DEF CwInv

LEMMA OwnerWithdrawKeeps ==
  ASSUME CwInv, MoneyInv, NEW t \in CwTokens, NEW a \in CwAmounts, owner_withdraw(t, a)
  PROVE  CwInv' /\ MoneyInv'
<1> DEFINE zero == 0
<1>1. FundsTypes /\ a \in Nat /\ a <= cw_held[t]
  BY CwLedgerAssumption DEF CwInv, owner_withdraw
<1>2. /\ cw_held' = [cw_held EXCEPT ![t] = @ - a]
      /\ owner_took' = [owner_took EXCEPT ![t] = @ + a]
      /\ UNCHANGED <<token_details, cw_payables, cw_balances, bookVars,
                     cw_earned, cw_collected, given>>
  BY DEF owner_withdraw
<1>3. FundsTypes'
  <2>1. cw_held' \in [CwTokens -> Nat] /\ owner_took' \in [CwTokens -> Nat]
    BY <1>1, <1>2 DEF FundsTypes
  <2> QED
    BY <1>1, <1>2, <2>1 DEF FundsTypes
<1>4. zero \in Int /\ a \in Int
  BY <1>1
<1>5. cw_held' = [cw_held EXCEPT ![t] = @ + zero - a]
  <2> DEFINE k == cw_held[t] + zero - a
             m == cw_held[t] - a
  <2>1. k = m
    BY <1>1 DEF FundsTypes
  <2>2. cw_held' = [cw_held EXCEPT ![t] = m]
    BY <1>2
  <2> HIDE DEF k, m
  <2>3. cw_held' = [cw_held EXCEPT ![t] = k]
    BY <2>1, <2>2
  <2> QED
    BY <2>3 DEF k
<1>6. given' = [given EXCEPT ![t] = @ + zero]
  <2> DEFINE k == given[t] + zero
  <2>1. k = given[t]
    BY <1>1 DEF FundsTypes
  <2> HIDE DEF k
  <2>2. given' = [given EXCEPT ![t] = k]
    BY <1>1, <1>2, <2>1 DEF FundsTypes
  <2> QED
    BY <2>2 DEF k
<1> HIDE DEF zero
<1>7. MoneyInv'
  BY <1>1, <1>2, <1>3, <1>4, <1>5, <1>6, PoolKeepsMoney
<1> QED
  BY <1>2, <1>3, <1>7, SameBooks DEF CwInv

LEMMA StrayKeeps ==
  ASSUME CwInv, MoneyInv, NEW t \in CwTokens, NEW a \in CwAmounts, Stray(t, a)
  PROVE  CwInv' /\ MoneyInv'
<1> DEFINE zero == 0
<1>1. FundsTypes /\ a \in Nat
  BY CwLedgerAssumption DEF CwInv
<1>2. /\ cw_held' = [cw_held EXCEPT ![t] = @ + a]
      /\ given' = [given EXCEPT ![t] = @ + a]
      /\ UNCHANGED <<token_details, cw_payables, cw_balances, bookVars,
                     cw_earned, cw_collected, owner_took>>
  BY DEF Stray
<1>3. FundsTypes'
  <2>1. cw_held' \in [CwTokens -> Nat] /\ given' \in [CwTokens -> Nat]
    BY <1>1, <1>2 DEF FundsTypes
  <2> QED
    BY <1>1, <1>2, <2>1 DEF FundsTypes
<1>4. zero \in Int /\ a \in Int
  BY <1>1
<1>5. cw_held' = [cw_held EXCEPT ![t] = @ + a - zero]
  <2> DEFINE k == cw_held[t] + a - zero
             m == cw_held[t] + a
  <2>1. k = m
    BY <1>1 DEF FundsTypes
  <2>2. cw_held' = [cw_held EXCEPT ![t] = m]
    BY <1>2
  <2> HIDE DEF k, m
  <2>3. cw_held' = [cw_held EXCEPT ![t] = k]
    BY <2>1, <2>2
  <2> QED
    BY <2>3 DEF k
<1>6. owner_took' = [owner_took EXCEPT ![t] = @ + zero]
  <2> DEFINE k == owner_took[t] + zero
  <2>1. k = owner_took[t]
    BY <1>1 DEF FundsTypes
  <2> HIDE DEF k
  <2>2. owner_took' = [owner_took EXCEPT ![t] = k]
    BY <1>1, <1>2, <2>1 DEF FundsTypes
  <2> QED
    BY <2>2 DEF k
<1> HIDE DEF zero
<1>7. MoneyInv'
  BY <1>1, <1>2, <1>3, <1>4, <1>5, <1>6, PoolKeepsMoney
<1> QED
  BY <1>2, <1>3, <1>7, SameBooks DEF CwInv

-----------------------------------------------------------------------------
(* The invariant of the ledger: every call keeps it.                       *)

CwIInv == CwInv /\ MoneyInv

LEMMA CreateKeeps ==
  ASSUME CwIInv, NEW u \in CwUsers, NEW l \in CwAllowedLists, create_payable(u, l)
  PROVE  CwIInv'
<1>1. CwInv /\ MoneyInv /\ FundsTypes /\ CwBooksInv
  BY DEF CwIInv, CwInv
<1>2. FundsTypes' /\ Numbered' /\ CwBooksInv'
  BY <1>1, CreateKeepsFunds, CreateKeepsBooks
<1>3. UNCHANGED <<token_details, cw_balances, moneyVars>>
  BY DEF create_payable
<1>4. MoneyInv'
  BY <1>1, <1>2, <1>3, MoneyKept
<1> QED
  BY <1>2, <1>4 DEF CwIInv, CwInv

LEMMA UpdateKeeps ==
  ASSUME CwIInv, NEW p \in CwPayableIds, has_payable(p), NEW payable \in CwPayable,
         payable.host = cw_payables[p].host,
         record_update_payable_activity(p, payable)
  PROVE  CwIInv'
<1>1. /\ CwInv /\ MoneyInv /\ FundsTypes /\ CwBooksInv
      /\ cw_payables[p].host \in CwUsers
  BY HostIsUser DEF CwIInv, CwInv
<1>2. FundsTypes' /\ Numbered' /\ CwBooksInv'
  BY <1>1, UpdateKeepsFunds, UpdateKeepsBooks
<1>3. UNCHANGED <<token_details, cw_balances, moneyVars>>
  BY DEF record_update_payable_activity
<1>4. MoneyInv'
  BY <1>1, <1>2, <1>3, MoneyKept
<1> QED
  BY <1>2, <1>4 DEF CwIInv, CwInv

LEMMA HostCallKeeps ==
  ASSUME CwIInv,
         \/ \E p \in CwPayableIds : close_payable(p)
         \/ \E p \in CwPayableIds : reopen_payable(p)
         \/ \E p \in CwPayableIds, l \in CwAllowedLists :
               update_payable_tokens_and_amounts(p, l)
  PROVE  /\ CwIInv'
         /\ UNCHANGED <<CwHosts, token_details, cw_balances, moneyVars>>
<1>1. FundsTypes
  BY DEF CwIInv, CwInv
<1>2. PICK p \in CwPayableIds, payable \in CwPayable :
             /\ has_payable(p) /\ payable.host = cw_payables[p].host
             /\ record_update_payable_activity(p, payable)
  <2>1. ASSUME NEW p \in CwPayableIds, close_payable(p) \/ reopen_payable(p)
        PROVE  \E payable \in CwPayable :
                 /\ has_payable(p) /\ payable.host = cw_payables[p].host
                 /\ record_update_payable_activity(p, payable)
    <3>1. cw_payables[p] \in CwPayable
      BY <1>1 DEF FundsTypes
    <3>2. \A b \in BOOLEAN :
            /\ [cw_payables[p] EXCEPT !.is_closed = b] \in CwPayable
            /\ [cw_payables[p] EXCEPT !.is_closed = b].host = cw_payables[p].host
      BY <3>1 DEF CwPayable
    <3> QED
      BY <2>1, <3>2 DEF close_payable, reopen_payable
  <2>2. ASSUME NEW p \in CwPayableIds, NEW l \in CwAllowedLists,
               update_payable_tokens_and_amounts(p, l)
        PROVE  \E payable \in CwPayable :
                 /\ has_payable(p) /\ payable.host = cw_payables[p].host
                 /\ record_update_payable_activity(p, payable)
    <3>1. cw_payables[p] \in CwPayable
      BY <1>1 DEF FundsTypes
    <3>2. /\ [cw_payables[p] EXCEPT !.allowed = l] \in CwPayable
          /\ [cw_payables[p] EXCEPT !.allowed = l].host = cw_payables[p].host
      BY <3>1 DEF CwPayable
    <3> QED
      BY <2>2, <3>2 DEF update_payable_tokens_and_amounts
  <2> QED
    BY <2>1, <2>2
<1>3. CwIInv'
  BY <1>2, UpdateKeeps
<1>4. UNCHANGED <<token_details, cw_balances, moneyVars>>
  BY <1>2 DEF record_update_payable_activity
<1>5. \A q \in CwPayableIds : cw_payables'[q].host = cw_payables[q].host
  BY <1>1, <1>2 DEF record_update_payable_activity, FundsTypes
<1>6. CwHosts' = CwHosts
  BY <1>5 DEF CwHosts
<1> QED
  BY <1>3, <1>4, <1>6

LEMMA PayKeeps ==
  ASSUME CwIInv, NEW u \in CwUsers, NEW p \in CwPayableIds, NEW t \in CwTokens,
         NEW a \in CwAmounts, pay(u, p, t, a)
  PROVE  CwIInv'
<1>1. CwInv /\ MoneyInv /\ CwBooksInv
  BY DEF CwIInv, CwInv
<1>2. FundsTypes' /\ Numbered' /\ CwBooksInv'
  BY <1>1, PayKeepsFunds, PayKeepsBooks
<1>3. MoneyInv'
  BY <1>1, <1>2, PayKeepsMoney
<1> QED
  BY <1>2, <1>3 DEF CwIInv, CwInv

LEMMA WithdrawKeeps ==
  ASSUME CwIInv, NEW p \in CwPayableIds, NEW t \in CwTokens, NEW a \in CwAmounts,
         withdraw(p, t, a)
  PROVE  CwIInv'
<1>1. /\ CwInv /\ MoneyInv /\ CwBooksInv
      /\ cw_payables[p].host \in CwUsers
  BY HostIsUser DEF CwIInv, CwInv, withdraw
<1>2. FundsTypes' /\ Numbered' /\ CwBooksInv'
  BY <1>1, WithdrawKeepsFunds, WithdrawKeepsBooks
<1>3. MoneyInv'
  BY <1>1, <1>2, WithdrawKeepsMoney
<1> QED
  BY <1>2, <1>3 DEF CwIInv, CwInv

LEMMA CwInitInvariant == CwInit => CwIInv
<1> SUFFICES ASSUME CwInit PROVE CwIInv
  OBVIOUS
<1>1. FundsTypes
  <2>1. token_details \in [CwTokens -> CwTokenDetails]
    BY DEF CwInit, CwTokenDetails
  <2>2. cw_payables \in [CwPayableIds -> CwPayable]
    BY DEF CwInit, CwPayable
  <2>3. /\ cw_balances \in [CwPayableIds -> [CwTokens -> Nat]]
        /\ cw_held \in [CwTokens -> Nat]
        /\ cw_earned \in [CwUsers -> [CwTokens -> Nat]]
        /\ cw_collected \in [CwTokens -> Nat]
        /\ given \in [CwTokens -> Nat] /\ owner_took \in [CwTokens -> Nat]
    BY DEF CwInit
  <2> QED
    BY <2>1, <2>2, <2>3 DEF FundsTypes
<1>2. Numbered
  BY DEF CwInit, Numbered, has_payable
<1>3. CwBooksInv
  <2>1. ids \in [Lists -> Seq(CwIds)] /\ \A x \in Lists : Len(ids[x]) = counts[x]
    BY DEF CwInit
  <2>2. counts \in [Lists -> Nat] /\ records \subseteq CwRecords
    BY DEF CwInit
  <2>3. Told(ids, records)
    BY DEF CwInit, Told
  <2>4. Named(records, Issued(counts))
    BY DEF CwInit, Named
  <2> QED
    BY <2>1, <2>2, <2>3, <2>4 DEF CwBooksInv, Straight, Books
<1>4. ASSUME NEW t \in CwTokens
      PROVE  AddsUpIn(t)
  <2> DEFINE s == [i \in 0..MaxCwPayables |-> 0]
  <2>1. MaxCwPayables \in Nat
    BY CwLedgerAssumption
  <2>2. s \in [0..MaxCwPayables -> Nat] /\ s[0] = 0 /\ s[MaxCwPayables] = 0
        /\ \A i, j \in 0..MaxCwPayables : s[i] <= s[j]
    BY <2>1
  <2>3. \A p \in CwPayableIds : Owed(t)[p] = 0 /\ s[p] = 0 /\ s[p - 1] = 0
    BY <2>1 DEF CwInit, Owed, CwPayableIds
  <2>4. Ties(t, 0)
    BY DEF CwInit, Ties
  <2> HIDE DEF s
  <2>5. RunningTotals(s, Owed(t))
    BY <2>2, <2>3 DEF RunningTotals
  <2> QED
    BY <2>2, <2>4, <2>5 DEF AddsUpIn
<1> QED
  BY <1>1, <1>2, <1>3, <1>4 DEF CwIInv, CwInv, MoneyInv

LEMMA CwStepInvariant == CwIInv /\ [CwNext]_cwVars => CwIInv'
<1> SUFFICES ASSUME CwIInv, [CwNext]_cwVars PROVE CwIInv'
  OBVIOUS
<1>1. CASE \E u \in CwUsers, l \in CwAllowedLists : create_payable(u, l)
  BY <1>1, CreateKeeps
<1>2. CASE \/ \E p \in CwPayableIds : close_payable(p)
           \/ \E p \in CwPayableIds : reopen_payable(p)
           \/ \E p \in CwPayableIds, l \in CwAllowedLists :
                 update_payable_tokens_and_amounts(p, l)
  BY <1>2, HostCallKeeps
<1>3. CASE \E u \in CwUsers, p \in CwPayableIds, t \in CwTokens, a \in CwAmounts :
             pay(u, p, t, a)
  BY <1>3, PayKeeps
<1>4. CASE \E p \in CwPayableIds, t \in CwTokens, a \in CwAmounts : withdraw(p, t, a)
  BY <1>4, WithdrawKeeps
<1>5. CASE \E t \in CwTokens, n \in BOOLEAN, m \in MaxFees :
             update_max_withdrawal_fees(t, n, m)
  BY <1>5, UpdateFeesKeeps DEF CwIInv
<1>6. CASE \E t \in CwTokens, a \in CwAmounts : owner_withdraw(t, a)
  BY <1>6, OwnerWithdrawKeeps DEF CwIInv
<1>7. CASE \E t \in CwTokens, a \in CwAmounts : Stray(t, a)
  BY <1>7, StrayKeeps DEF CwIInv
<1>8. CASE UNCHANGED cwVars
  <2>1. /\ FundsTypes /\ CwInv /\ MoneyInv
        /\ UNCHANGED <<token_details, cw_payables, cw_balances, bookVars, moneyVars>>
    BY <1>8 DEF CwIInv, CwInv, cwVars
  <2>2. FundsTypes'
    BY <2>1 DEF FundsTypes, moneyVars
  <2>3. MoneyInv'
    BY <2>1, <2>2, MoneyKept
  <2> QED
    BY <2>1, <2>2, <2>3, SameBooks DEF CwIInv, CwInv
<1> QED
  BY <1>1, <1>2, <1>3, <1>4, <1>5, <1>6, <1>7, <1>8 DEF CwNext

LEMMA CwAlways == CwSpec => []CwIInv
BY CwInitInvariant, CwStepInvariant, PTL DEF CwSpec

-----------------------------------------------------------------------------
(* The theorems about states.                                              *)

\* Whatever is called in whatever order, every counter, balance, total and id
\* of the contract is of its kind: no balance, no total and no holding of the
\* contract ever goes below zero.
THEOREM CwTypeCorrect == CwSpec => []CwTypeOK
<1>1. CwIInv => CwTypeOK
  BY DEF CwIInv, CwInv, FundsTypes, CwBooksInv, Straight, Books, CwRecords, CwTypeOK
<1> QED
  BY <1>1, CwAlways, PTL

\* For any number of users, payables and calls, every getter finds under each
\* number up to the counter an id, and under that id the record that says it
\* is that entry of that list: no id is issued twice, and the two activities
\* of a payment, counted together, keep their own places.
THEOREM CwListsAlwaysMatch == CwSpec => []CwListsMatchCounts
<1>1. CwIInv => CwListsMatchCounts
  BY DEF CwIInv, CwInv, CwBooksInv, Straight, Books, Told, CwListsMatchCounts
<1> QED
  BY <1>1, CwAlways, PTL

\* For any tokens, payables and amounts, the contract holds what it owes its
\* payables plus what it was given less what its owner took, and the totals of
\* each token agree with the balances, whatever is_native_token says meanwhile.
THEOREM CwMoneyAlwaysAddsUp == CwSpec => []CwMoneyAddsUp
<1>1. CwIInv => CwMoneyAddsUp
  <2> SUFFICES ASSUME CwIInv, NEW t \in CwTokens
               PROVE  \E s \in [0..MaxCwPayables -> 0..token_details[t].total_payable_received] :
                        /\ AddsUp(s, t)
                        /\ cw_held[t] + owner_took[t] = s[MaxCwPayables] + given[t]
                        /\ s[MaxCwPayables] + token_details[t].total_withdrawn
                             = token_details[t].total_payable_received
                        /\ cw_collected[t] = token_details[t].total_withdrawal_fees_collected
    BY DEF CwMoneyAddsUp
  <2> DEFINE N == MaxCwPayables
             x == token_details[t].total_payable_received
             w == token_details[t].total_withdrawn
  <2>1. N \in Nat /\ x \in Nat /\ w \in Nat
    BY CwLedgerAssumption, AmountsOf DEF CwIInv, CwInv
  <2>2. PICK s \in [0..N -> Nat] : RunningTotals(s, Owed(t)) /\ Ties(t, s[N])
    BY DEF CwIInv, MoneyInv, AddsUpIn
  <2>3. s[N] \in Nat /\ s[N] + w = x
    BY <2>1, <2>2 DEF Ties
  <2> HIDE DEF x, w
  <2>4. ASSUME NEW i \in 0..N
        PROVE  s[i] \in 0..x
    <3>1. s[i] \in Nat /\ N \in 0..N /\ i <= N
      BY <2>1
    <3>2. s[i] <= s[N]
      BY <2>2, <3>1 DEF RunningTotals
    <3> QED
      BY <2>1, <2>3, <3>1, <3>2
  <2>5. s \in [0..N -> 0..x]
    BY <2>4
  <2>6. AddsUp(s, t)
    BY <2>2 DEF RunningTotals, AddsUp, Owed
  <2> QED
    BY <2>2, <2>5, <2>6 DEF Ties, x
<1> QED
  BY <1>1, CwAlways, PTL

-----------------------------------------------------------------------------
(* The refinement.  The vault of the escrow is what the contract holds,    *)
(* with what the owner took put back and what it was given taken out.      *)

LEMMA VaultIs ==
  ASSUME FundsTypes
  PROVE  /\ CwVault \in [CwTokens -> Int]
         /\ \A t \in CwTokens : CwVault[t] = cw_held[t] + owner_took[t] - given[t]
BY DEF FundsTypes, CwVault

LEMMA VaultIsNext ==
  ASSUME FundsTypes'
  PROVE  /\ CwVault' \in [CwTokens -> Int]
         /\ \A t \in CwTokens : CwVault'[t] = cw_held'[t] + owner_took'[t] - given'[t]
BY DEF FundsTypes, CwVault

\* What is taken or given for nothing does not show.
LEMMA SameVault ==
  ASSUME FundsTypes, FundsTypes',
         \A x \in CwTokens :
           cw_held'[x] + owner_took'[x] - given'[x] = cw_held[x] + owner_took[x] - given[x]
  PROVE  CwVault' = CwVault
<1> DEFINE v == CwVault
           z == CwVault'
<1>1. /\ v \in [CwTokens -> Int] /\ z \in [CwTokens -> Int]
      /\ \A x \in CwTokens : z[x] = v[x]
  BY VaultIs, VaultIsNext
<1> HIDE DEF v, z
<1>2. z = v
  BY <1>1
<1> QED
  BY <1>2 DEF v, z

\* Money of one token comes in or goes out.
LEMMA VaultMoved ==
  ASSUME FundsTypes, FundsTypes', NEW t \in CwTokens, NEW k \in Int,
         cw_held' = [cw_held EXCEPT ![t] = @ + k],
         UNCHANGED <<owner_took, given>>
  PROVE  \A x \in CwTokens : CwVault'[x] = IF x = t THEN CwVault[x] + k ELSE CwVault[x]
<1> SUFFICES ASSUME NEW x \in CwTokens
             PROVE  CwVault'[x] = IF x = t THEN CwVault[x] + k ELSE CwVault[x]
  OBVIOUS
<1> DEFINE h == cw_held[x]
           o == owner_took[x]
           g == given[x]
           h2 == cw_held'[x]
           v == CwVault[x]
           v2 == CwVault'[x]
<1>1. /\ v = h + o - g /\ v2 = h2 + o - g
      /\ h \in Nat /\ o \in Nat /\ g \in Nat
      /\ h2 = IF x = t THEN h + k ELSE h
  BY VaultIs, VaultIsNext DEF FundsTypes
<1> HIDE DEF h, o, g, h2, v, v2
<1>2. v2 = IF x = t THEN v + k ELSE v
  BY <1>1
<1> QED
  BY <1>2 DEF v, v2

LEMMA CwInitEscrow == CwInit => CwEscrow!Init
<1> SUFFICES ASSUME CwInit PROVE CwEscrow!Init
  OBVIOUS
<1>1. CwHosts = [p \in CwPayableIds |-> NoWallet]
  BY DEF CwInit, CwHosts
<1>2. CwVault = [t \in CwTokens |-> 0]
  BY DEF CwInit, CwVault
<1> QED
  BY <1>1, <1>2 DEF CwInit, CwEscrow!Init

LEMMA CreateEscrow ==
  ASSUME CwIInv, CwIInv', NEW u \in CwUsers, NEW l \in CwAllowedLists, create_payable(u, l)
  PROVE  CwEscrow!Next
<1> DEFINE p == counts[Chain("payables")] + 1
           r == [host |-> u, allowed |-> l, is_closed |-> FALSE]
<1>1. FundsTypes /\ FundsTypes' /\ Numbered
  BY DEF CwIInv, CwInv
<1>2. counts[Chain("payables")] \in Nat /\ p <= MaxCwPayables
  BY ListsThereAre
  DEF CwIInv, CwInv, CwBooksInv, Straight, Books, ChainKinds, create_payable
<1>3. p \in CwPayableIds
  BY <1>2, CwLedgerAssumption DEF CwPayableIds
<1>4. cw_payables[p].host = NoWallet
  <2>1. has_payable(p) => p <= counts[Chain("payables")]
    BY <1>1, <1>3 DEF Numbered
  <2> QED
    BY <1>2, <2>1 DEF has_payable
<1>5. /\ cw_payables' = [cw_payables EXCEPT ![p] = r]
      /\ UNCHANGED <<cw_balances, moneyVars>>
  BY DEF create_payable
<1> HIDE DEF p
<1>6. CwHosts[p] = NoWallet
  BY <1>3, <1>4 DEF CwHosts
<1>7. CwHosts' = [CwHosts EXCEPT ![p] = u]
  <2>1. ASSUME NEW q \in CwPayableIds
        PROVE  cw_payables'[q].host = IF q = p THEN u ELSE cw_payables[q].host
    BY <1>1, <1>3, <1>5 DEF FundsTypes
  <2> QED
    BY <2>1 DEF CwHosts
<1>8. CwVault' = CwVault
  BY <1>1, <1>5, SameVault DEF moneyVars
<1>9. CwEscrow!Open(p, u)
  BY <1>5, <1>6, <1>7, <1>8 DEF CwEscrow!Open, moneyVars
<1> QED
  BY <1>3, <1>9 DEF CwEscrow!Next

LEMMA CwPayEscrow ==
  ASSUME CwIInv, CwIInv', NEW u \in CwUsers, NEW p \in CwPayableIds, NEW t \in CwTokens,
         NEW a \in CwAmounts, pay(u, p, t, a)
  PROVE  CwEscrow!Next
<1>1. FundsTypes /\ FundsTypes' /\ a \in Int
  BY CwLedgerAssumption DEF CwIInv, CwInv
<1>2. /\ cw_payables[p].host # NoWallet
      /\ cw_held' = [cw_held EXCEPT ![t] = @ + a]
      /\ cw_balances' = [cw_balances EXCEPT ![p][t] = @ + a]
      /\ UNCHANGED <<cw_payables, cw_earned, cw_collected, given, owner_took>>
  BY DEF pay, has_payable, Credited
<1>3. CwHosts' = CwHosts /\ CwHosts[p] # NoWallet
  BY <1>2 DEF CwHosts
<1> DEFINE zero == 0
           z == [x \in CwTokens |-> IF x = t THEN CwVault[x] + a
                                    ELSE IF x = NoWallet THEN CwVault[x] + zero
                                    ELSE CwVault[x]]
           v == CwVault'
<1>4. v = z
  <2>1. \A x \in CwTokens : v[x] = IF x = t THEN CwVault[x] + a ELSE CwVault[x]
    BY <1>1, <1>2, VaultMoved
  <2>2. v = [x \in CwTokens |-> v[x]]
    BY DEF CwVault
  <2>3. \A x \in CwTokens : x # NoWallet
    BY CwLedgerAssumption
  <2>4. \A x \in CwTokens : v[x] = z[x]
    BY <2>1, <2>3
  <2> HIDE DEF v
  <2> QED
    BY <2>2, <2>4
<1>5. CwEscrow!Deposit(p, t, a, zero)
  BY <1>2, <1>3, <1>4 DEF CwEscrow!Deposit
<1>6. zero \in {0, a}
  OBVIOUS
<1> HIDE DEF zero
<1> QED
  BY <1>5, <1>6 DEF CwEscrow!Next

LEMMA CwWithdrawEscrow ==
  ASSUME CwIInv, CwIInv', NEW p \in CwPayableIds, NEW t \in CwTokens, NEW a \in CwAmounts,
         withdraw(p, t, a)
  PROVE  CwEscrow!Next
<1> DEFINE fee == withdrawal_fees(t, a)
           due == amount_due(t, a)
           u == cw_payables[p].host
<1>1. FundsTypes /\ FundsTypes'
  BY DEF CwIInv, CwInv
<1>2. a \in Nat /\ fee \in Nat /\ fee <= a /\ due = a - fee
  BY <1>1, CwFeesWithin
<1>3. /\ u # NoWallet /\ a <= cw_balances[p][t]
      /\ cw_held' = [cw_held EXCEPT ![t] = @ - (due + fee)]
      /\ cw_earned' = [cw_earned EXCEPT ![u][t] = @ + due]
      /\ cw_collected' = [cw_collected EXCEPT ![t] = @ + fee]
      /\ cw_balances' = [cw_balances EXCEPT ![p][t] = @ - a]
      /\ UNCHANGED <<cw_payables, given, owner_took>>
  BY DEF withdraw, has_payable, Deducted
<1> HIDE DEF fee, due
<1>4. CwHosts' = CwHosts /\ CwHosts[p] = u
  BY <1>3 DEF CwHosts
<1> HIDE DEF u
<1>5. CwVault' = [CwVault EXCEPT ![t] = @ - a]
  <2> DEFINE k == -a
             v == CwVault
             z == CwVault'
  <2>1. cw_held' = [cw_held EXCEPT ![t] = cw_held[t] + k]
    <3> DEFINE h == cw_held[t]
               m == h - (due + fee)
               n == h + k
    <3>1. h \in Nat
      BY <1>1 DEF FundsTypes
    <3> HIDE DEF h
    <3>2. m = n
      BY <1>2, <3>1
    <3>3. cw_held' = [cw_held EXCEPT ![t] = m]
      BY <1>3 DEF h
    <3> HIDE DEF m, n
    <3>4. cw_held' = [cw_held EXCEPT ![t] = n]
      BY <3>2, <3>3
    <3> QED
      BY <3>4 DEF n, h
  <2>2. k \in Int /\ \A x \in CwTokens : v[x] \in Int => v[x] + k = v[x] - a
    BY <1>2
  <2> HIDE DEF k
  <2>3. \A x \in CwTokens : z[x] = IF x = t THEN v[x] + k ELSE v[x]
    BY <1>1, <1>3, <2>1, <2>2, VaultMoved
  <2>4. v \in [CwTokens -> Int] /\ z \in [CwTokens -> Int]
    BY <1>1, VaultIs, VaultIsNext
  <2> HIDE DEF v, z
  <2>5. z = [v EXCEPT ![t] = v[t] - a]
    BY <2>2, <2>3, <2>4
  <2> QED
    BY <2>5 DEF v, z
<1>6. CwEscrow!PayOut(p, t, a)
  <2>1. CwEscrow!Share(p, t, a, fee)
    BY <1>2, <1>3, <1>4 DEF CwEscrow!Share
  <2>2. fee \in 0..a
    BY <1>2
  <2> QED
    BY <1>3, <1>4, <1>5, <2>1, <2>2 DEF CwEscrow!PayOut
<1> QED
  BY <1>2, <1>6 DEF CwEscrow!Next

LEMMA CwStepEscrow ==
  CwIInv /\ CwIInv' /\ [CwNext]_cwVars => [CwEscrow!Next]_(CwEscrow!vars)
<1> SUFFICES ASSUME CwIInv, CwIInv', [CwNext]_cwVars
             PROVE  CwEscrow!Next \/ UNCHANGED CwEscrow!vars
  OBVIOUS
<1>1. FundsTypes /\ FundsTypes'
  BY DEF CwIInv, CwInv
<1>2. CASE \E u \in CwUsers, l \in CwAllowedLists : create_payable(u, l)
  BY <1>2, CreateEscrow
<1>3. CASE \/ \E p \in CwPayableIds : close_payable(p)
           \/ \E p \in CwPayableIds : reopen_payable(p)
           \/ \E p \in CwPayableIds, l \in CwAllowedLists :
                 update_payable_tokens_and_amounts(p, l)
  <2>1. UNCHANGED <<CwHosts, cw_balances, moneyVars>>
    BY <1>3, HostCallKeeps
  <2>2. CwVault' = CwVault
    BY <1>1, <2>1, SameVault DEF moneyVars
  <2> QED
    BY <2>1, <2>2 DEF CwEscrow!vars, moneyVars
<1>4. CASE \E u \in CwUsers, p \in CwPayableIds, t \in CwTokens, a \in CwAmounts :
             pay(u, p, t, a)
  BY <1>4, CwPayEscrow
<1>5. CASE \E p \in CwPayableIds, t \in CwTokens, a \in CwAmounts : withdraw(p, t, a)
  BY <1>5, CwWithdrawEscrow
<1>6. CASE \E t \in CwTokens, n \in BOOLEAN, m \in MaxFees :
             update_max_withdrawal_fees(t, n, m)
  <2>1. UNCHANGED <<cw_payables, cw_balances, moneyVars>>
    BY <1>6 DEF update_max_withdrawal_fees
  <2>2. CwVault' = CwVault /\ CwHosts' = CwHosts
    BY <1>1, <2>1, SameVault DEF moneyVars, CwHosts
  <2> QED
    BY <2>1, <2>2 DEF CwEscrow!vars, moneyVars
<1>7. CASE \E t \in CwTokens, a \in CwAmounts : owner_withdraw(t, a) \/ Stray(t, a)
  <2>1. PICK t \in CwTokens, a \in CwAmounts : owner_withdraw(t, a) \/ Stray(t, a)
    BY <1>7
  <2>2. a \in Nat
    BY CwLedgerAssumption
  <2>3. UNCHANGED <<cw_payables, cw_balances, cw_earned, cw_collected>>
    BY <2>1 DEF owner_withdraw, Stray
  <2>4. ASSUME NEW x \in CwTokens
        PROVE  cw_held'[x] + owner_took'[x] - given'[x] = cw_held[x] + owner_took[x] - given[x]
    <3>1. cw_held[x] \in Nat /\ owner_took[x] \in Nat /\ given[x] \in Nat
      BY <1>1 DEF FundsTypes
    <3>2. CASE owner_withdraw(t, a)
      <4>1. /\ cw_held'[x] = (IF x = t THEN cw_held[x] - a ELSE cw_held[x])
            /\ owner_took'[x] = (IF x = t THEN owner_took[x] + a ELSE owner_took[x])
            /\ given'[x] = given[x]
        BY <1>1, <3>2 DEF owner_withdraw, FundsTypes
      <4> QED
        BY <2>2, <3>1, <4>1
    <3>3. CASE Stray(t, a)
      <4>1. /\ cw_held'[x] = (IF x = t THEN cw_held[x] + a ELSE cw_held[x])
            /\ given'[x] = (IF x = t THEN given[x] + a ELSE given[x])
            /\ owner_took'[x] = owner_took[x]
        BY <1>1, <3>3 DEF Stray, FundsTypes
      <4> QED
        BY <2>2, <3>1, <4>1
    <3> QED
      BY <2>1, <3>2, <3>3
  <2>5. CwVault' = CwVault /\ CwHosts' = CwHosts
    BY <1>1, <2>3, <2>4, SameVault DEF CwHosts
  <2> QED
    BY <2>3, <2>5 DEF CwEscrow!vars
<1>8. CASE UNCHANGED cwVars
  <2>1. UNCHANGED <<cw_payables, cw_balances, moneyVars>>
    BY <1>8 DEF cwVars
  <2>2. CwVault' = CwVault /\ CwHosts' = CwHosts
    BY <1>1, <2>1, SameVault DEF moneyVars, CwHosts
  <2> QED
    BY <2>1, <2>2 DEF CwEscrow!vars, moneyVars
<1> QED
  BY <1>2, <1>3, <1>4, <1>5, <1>6, <1>7, <1>8 DEF CwNext

\* The calls of the CosmWasm contract, whoever makes them in whatever order and
\* whatever its owner takes or sets, do to the payables and their hosts what
\* the atomic escrow does, which the EVM ledger implements too: a payable is
\* opened once, and paid out to its own host only, against its own balance.
THEOREM CwLedgerImplementsEscrow == CwSpec => CwImplementsEscrow
<1>1. CwInit => CwEscrow!Init
  BY CwInitEscrow
<1>2. CwIInv /\ CwIInv' /\ [CwNext]_cwVars => [CwEscrow!Next]_(CwEscrow!vars)
  BY CwStepEscrow
<1> QED
  BY <1>1, <1>2, CwAlways, PTL DEF CwSpec, CwImplementsEscrow, CwEscrow!Spec

-----------------------------------------------------------------------------
(* The two ledgers together.  Each sees only its own steps, so all that is *)
(* proved of a ledger holds in the whole that is run.                      *)

\* A behaviour of the two is a behaviour of each.
THEOREM EachLedgerAlone == LedgersSpec => Spec /\ CwSpec
<1>1. LedgersInit => Init /\ CwInit
  BY DEF LedgersInit
<1>2. [LedgersNext]_ledgerVars => [Next]_vars
  BY DEF LedgersNext, ledgerVars
<1>3. [LedgersNext]_ledgerVars => [CwNext]_cwVars
  BY DEF LedgersNext, ledgerVars
<1> QED
  BY <1>1, <1>2, <1>3, PTL DEF LedgersSpec, Spec, CwSpec

\* Whatever is called in whatever order, on one chain or the other, the states
\* of both ledgers are well formed.
THEOREM LedgersTypeCorrect == LedgersSpec => []TypesOK
<1>1. TypeOK /\ CwTypeOK => TypesOK
  BY DEF TypesOK
<1> QED
  BY <1>1, EachLedgerAlone, TypeCorrect, CwTypeCorrect, PTL
=============================================================================
