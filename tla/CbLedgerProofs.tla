--------------------------- MODULE CbLedgerProofs ---------------------------
(***************************************************************************)
(* The contract of CbLedger is well typed, can pay what it owes, and        *)
(* implements Escrow; what its ids and counters say is in CbLedgerCounts.   *)
(***************************************************************************)
EXTENDS CbLedger, FiniteSetTheorems, SequenceTheorems, TLAPS

-----------------------------------------------------------------------------
(* Lemmas about the helpers. *)

LEMMA AmountsAreNat == \A a \in Amounts : a \in Nat /\ a > 0
BY AmountsArePositive

LEMMA Uint16IsNat == \A x \in uint16 : x \in Nat
BY DEF uint16

\* The fee is a number for every amount and every percentage of a uint16.
LEMMA FeesAreNat ==
  ASSUME TypeOK, NEW t \in Tokens, NEW a \in Nat
  PROVE  Fees(t, a) \in Nat
<1> DEFINE product == a * config.withdrawalFeePercentage
<1>1. config \in Config /\ tokenDetails[t] \in TokenDetails
  BY DEF TypeOK
<1>2. config.withdrawalFeePercentage \in uint16
  BY <1>1 DEF Config
<1>3. product \in Nat
  <2>1. config.withdrawalFeePercentage \in Nat
    BY <1>2, Uint16IsNat
  <2> QED
    BY <2>1
<1>4. product \div 10000 \in Nat
  <2> HIDE DEF product
  <2> QED
    BY <1>3
<1>5. tokenDetails[t].maxWithdrawalFees \in Nat
  BY <1>1 DEF TokenDetails
<1> QED
  BY <1>4, <1>5 DEF Fees

(* Records of counters stay records of counters, one field at a time.      *)

LEMMA UserPays ==
  ASSUME NEW r \in User, NEW n \in Nat
  PROVE  [r EXCEPT !.paymentsCount = @ + 1,
                   !.activitiesCount = n] \in User
<1> DEFINE q == [r EXCEPT !.paymentsCount = @ + 1]
<1>1. q \in User
  BY DEF User
<1> HIDE DEF q
<1>2. [q EXCEPT !.activitiesCount = n] \in User
  BY <1>1 DEF User
<1> QED
  BY <1>2 DEF q

LEMMA UserCreates ==
  ASSUME NEW r \in User, NEW n \in Nat
  PROVE  [r EXCEPT !.payablesCount = @ + 1,
                   !.activitiesCount = n] \in User
<1> DEFINE q == [r EXCEPT !.payablesCount = @ + 1]
<1>1. q \in User
  BY DEF User
<1> HIDE DEF q
<1>2. [q EXCEPT !.activitiesCount = n] \in User
  BY <1>1 DEF User
<1> QED
  BY <1>2 DEF q

LEMMA UserWithdraws ==
  ASSUME NEW r \in User, NEW n \in Nat
  PROVE  [r EXCEPT !.withdrawalsCount = @ + 1,
                   !.activitiesCount = n] \in User
<1> DEFINE q == [r EXCEPT !.withdrawalsCount = @ + 1]
<1>1. q \in User
  BY DEF User
<1> HIDE DEF q
<1>2. [q EXCEPT !.activitiesCount = n] \in User
  BY <1>1 DEF User
<1> QED
  BY <1>2 DEF q

LEMMA PayableReceives ==
  ASSUME NEW r \in Payable, NEW n \in Nat
  PROVE  [r EXCEPT !.paymentsCount = @ + 1,
                   !.activitiesCount = n] \in Payable
<1> DEFINE q == [r EXCEPT !.paymentsCount = @ + 1]
<1>1. q \in Payable
  BY DEF Payable
<1> HIDE DEF q
<1>2. [q EXCEPT !.activitiesCount = n] \in Payable
  BY <1>1 DEF Payable
<1> QED
  BY <1>2 DEF q

LEMMA PayableWithdraws ==
  ASSUME NEW r \in Payable
  PROVE  [r EXCEPT !.withdrawalsCount = @ + 1,
                   !.activitiesCount = @ + 1] \in Payable
<1> DEFINE q == [r EXCEPT !.withdrawalsCount = @ + 1]
<1>1. q \in Payable
  BY DEF Payable
<1> HIDE DEF q
<1>2. [q EXCEPT !.activitiesCount = @ + 1] \in Payable
  BY <1>1 DEF Payable
<1> QED
  BY <1>2 DEF q

LEMMA TokenPaid ==
  ASSUME NEW r \in TokenDetails, NEW a \in Nat
  PROVE  [r EXCEPT !.totalUserPaid = @ + a,
                   !.totalPayableReceived = @ + a] \in TokenDetails
<1> DEFINE q == [r EXCEPT !.totalUserPaid = @ + a]
<1>1. q \in TokenDetails
  BY DEF TokenDetails
<1> HIDE DEF q
<1>2. [q EXCEPT !.totalPayableReceived = @ + a] \in TokenDetails
  BY <1>1 DEF TokenDetails
<1> QED
  BY <1>2 DEF q

LEMMA TokenWithdrawn ==
  ASSUME NEW r \in TokenDetails, NEW a \in Nat, NEW fees \in Nat
  PROVE  [r EXCEPT !.totalWithdrawn = @ + a,
                   !.totalWithdrawalFeesCollected = @ + fees] \in TokenDetails
<1> DEFINE q == [r EXCEPT !.totalWithdrawn = @ + a]
<1>1. q \in TokenDetails
  BY DEF TokenDetails
<1> HIDE DEF q
<1>2. [q EXCEPT !.totalWithdrawalFeesCollected = @ + fees] \in TokenDetails
  BY <1>1 DEF TokenDetails
<1> QED
  BY <1>2 DEF q

LEMMA StatsCreate ==
  ASSUME NEW r \in ChainStats, NEW k \in {0, 1}, NEW p \in 0..MaxPayables
  PROVE  [r EXCEPT !.usersCount = @ + k,
                   !.payablesCount = p,
                   !.activitiesCount = @ + k + 1] \in ChainStats
<1> DEFINE q == [r EXCEPT !.usersCount = @ + k]
<1>1. q \in ChainStats
  BY DEF ChainStats
<1> HIDE DEF q
<1> DEFINE s == [q EXCEPT !.payablesCount = p]
<1>2. s \in ChainStats
  BY <1>1 DEF ChainStats
<1> HIDE DEF s
<1>3. [s EXCEPT !.activitiesCount = @ + k + 1] \in ChainStats
  BY <1>2 DEF ChainStats
<1> QED
  BY <1>3 DEF q, s

LEMMA StatsPay ==
  ASSUME NEW r \in ChainStats, NEW k \in {0, 1}
  PROVE  [r EXCEPT !.usersCount = @ + k,
                   !.userPaymentsCount = @ + 1,
                   !.payablePaymentsCount = @ + 1,
                   !.activitiesCount = @ + k + 2] \in ChainStats
<1> DEFINE q == [r EXCEPT !.usersCount = @ + k]
<1>1. q \in ChainStats
  BY DEF ChainStats
<1> HIDE DEF q
<1> DEFINE s == [q EXCEPT !.userPaymentsCount = @ + 1]
<1>2. s \in ChainStats
  BY <1>1 DEF ChainStats
<1> HIDE DEF s
<1> DEFINE v == [s EXCEPT !.payablePaymentsCount = @ + 1]
<1>3. v \in ChainStats
  BY <1>2 DEF ChainStats
<1> HIDE DEF v
<1>4. [v EXCEPT !.activitiesCount = @ + k + 2] \in ChainStats
  BY <1>3 DEF ChainStats
<1> QED
  BY <1>4 DEF q, s, v

LEMMA StatsReceive ==
  ASSUME NEW r \in ChainStats
  PROVE  [r EXCEPT !.payablePaymentsCount = @ + 1,
                   !.activitiesCount = @ + 1,
                   !.consumedWormholeMessagesCount = @ + 1] \in ChainStats
<1> DEFINE q == [r EXCEPT !.payablePaymentsCount = @ + 1]
<1>1. q \in ChainStats
  BY DEF ChainStats
<1> HIDE DEF q
<1> DEFINE s == [q EXCEPT !.activitiesCount = @ + 1]
<1>2. s \in ChainStats
  BY <1>1 DEF ChainStats
<1> HIDE DEF s
<1>3. [s EXCEPT !.consumedWormholeMessagesCount = @ + 1] \in ChainStats
  BY <1>2 DEF ChainStats
<1> QED
  BY <1>3 DEF q, s

LEMMA StatsWithdraw ==
  ASSUME NEW r \in ChainStats
  PROVE  [r EXCEPT !.withdrawalsCount = @ + 1,
                   !.activitiesCount = @ + 1] \in ChainStats
<1> DEFINE q == [r EXCEPT !.withdrawalsCount = @ + 1]
<1>1. q \in ChainStats
  BY DEF ChainStats
<1> HIDE DEF q
<1>2. [q EXCEPT !.activitiesCount = @ + 1] \in ChainStats
  BY <1>1 DEF ChainStats
<1> QED
  BY <1>2 DEF q

\* Putting a frame on an empty stack leaves a stack of one.
LEMMA PushFrame ==
  ASSUME NEW f \in Frame
  PROVE  /\ <<f>> \o <<>> = <<f>>
         /\ <<f>> \in Seq(Frame) /\ Len(<<f>>) = 1
         /\ Head(<<f>>) = f /\ Tail(<<f>>) = <<>>
OBVIOUS

\* A stack of at most one frame is empty or is its head.
LEMMA OneFrame ==
  ASSUME TypeOK, calls # <<>>
  PROVE  /\ Head(calls) \in Frame
         /\ calls = <<Head(calls)>>
         /\ Tail(calls) = <<>>
<1>1. calls \in Seq(Frame) /\ Len(calls) <= 1
  BY DEF TypeOK
<1>2. Len(calls) \in Nat \ {0}
  BY <1>1, EmptySeq
<1>3. Len(calls) = 1
  <2> DEFINE n == Len(calls)
  <2>1. n \in Nat \ {0} /\ n <= 1
    BY <1>1, <1>2
  <2> HIDE DEF n
  <2>2. n = 1
    BY <2>1
  <2> QED
    BY <2>2 DEF n
<1>4. Head(calls) \in Frame /\ calls = <<Head(calls)>>
  BY <1>1, <1>3
<1>5. Tail(<<Head(calls)>>) = <<>>
  BY <1>4, PushFrame
<1> QED
  BY <1>4, <1>5

\* _initializeUserIfNeedBe leaves a well-formed user.
LEMMA InitializedUserType ==
  ASSUME TypeOK, NEW u \in Users
  PROVE  InitializedUser(u) \in User /\ NewUser(u) \in {0, 1}
<1>1. users \in [Users -> User] /\ chainStats \in ChainStats
  BY DEF TypeOK
<1>2. chainStats.usersCount + 1 \in Nat
  BY <1>1 DEF ChainStats
<1> QED
  BY <1>1, <1>2 DEF InitializedUser, NewUser, User

\* A payout starts from what the contract holds and leaves it no debt.
LEMMA PayHostType ==
  ASSUME TypeOK, calls = <<>>,
         NEW p \in PayableIds, NEW t \in Tokens, NEW a \in Nat,
         NEW funds \in [Tokens -> Nat],
         PayHost(p, t, a, funds)
  PROVE  /\ held' \in [Tokens -> Nat]
         /\ earned' \in [Users -> [Tokens -> Nat]]
         /\ collected' = collected
         /\ calls' \in Seq(Frame) /\ Len(calls') <= 1
<1> DEFINE f == [payable |-> p, token |-> t, amount |-> a,
                 fees |-> Fees(t, a), callee |-> "host"]
<1>1. Fees(t, a) \in Nat
  BY FeesAreNat
<1>2. AmountDue(t, a) \in Nat /\ AmountDue(t, a) <= funds[t]
  BY <1>1 DEF PayHost, PayoutCommits, AmountDue
<1>3. held' \in [Tokens -> Nat]
  BY <1>2 DEF PayHost
<1>4. earned' \in [Users -> [Tokens -> Nat]]
  <2>1. earned \in [Users -> [Tokens -> Nat]]
    BY DEF TypeOK
  <2>2. earned' = [earned EXCEPT ![payables[p].host][t] = @ + AmountDue(t, a)]
    BY DEF PayHost
  <2> DEFINE h == payables[p].host
  <2>3. CASE h \in Users
    <3>1. earned[h] \in [Tokens -> Nat]
      BY <2>1, <2>3
    <3>2. [earned[h] EXCEPT ![t] = @ + AmountDue(t, a)] \in [Tokens -> Nat]
      BY <1>2, <3>1
    <3>3. earned' = [earned EXCEPT ![h] = [earned[h] EXCEPT ![t] = @ + AmountDue(t, a)]]
      BY <2>2
    <3> QED
      BY <2>1, <3>2, <3>3
  <2>4. CASE h \notin Users
    BY <2>1, <2>2, <2>4
  <2> QED
    BY <2>3, <2>4
<1>5. f \in Frame
  BY <1>1 DEF Frame
<1>6. calls' = <<f>> \o <<>>
  BY DEF PayHost
<1> HIDE DEF f
<1> QED
  BY <1>3, <1>4, <1>5, <1>6, PushFrame DEF PayHost

-----------------------------------------------------------------------------
LEMMA InitType == Init => TypeOK
<1> SUFFICES ASSUME Init PROVE TypeOK
  OBVIOUS
<1> USE DEF Init
<1>1. \E f \in InitialFeePercents, c \in FeeCollectors \ {NoAddress} :
        config = [paused |-> FALSE, withdrawalFeePercentage |-> f,
                  feeCollector |-> c]
  OBVIOUS
<1>2. config \in Config
  BY <1>1, FeesAreNumbers DEF Config
<1>3. 0 \in 0..MaxPayables
  BY BoundsAreNaturals
<1>4. chainStats \in ChainStats
  BY <1>3 DEF ChainStats, NoStats
<1>5. users \in [Users -> User]
  BY DEF User, NoUserYet
<1>6. payables \in [PayableIds -> Payable]
  BY DEF Payable, NoPayable
<1>7. tokenDetails \in [Tokens -> TokenDetails]
  BY DEF TokenDetails, NoToken
<1>8. calls \in Seq(Frame) /\ Len(calls) <= 1
  BY EmptySeq
<1> QED
  BY <1>2, <1>4, <1>5, <1>6, <1>7, <1>8 DEF TypeOK

LEMMA OwnerCallType == ASSUME TypeOK, OwnerCall PROVE TypeOK'
<1>1. /\ config \in Config
      /\ tokenDetails \in [Tokens -> TokenDetails]
  BY DEF TypeOK
<1>2. config' \in Config /\ tokenDetails' \in [Tokens -> TokenDetails]
  <2>1. CASE Pause
    BY <1>1, <2>1 DEF Pause, Config
  <2>2. CASE Unpause
    BY <1>1, <2>2 DEF Unpause, Config
  <2>3. CASE \E f \in FeePercents : SetWithdrawalFeePercentage(f)
    BY <1>1, <2>3, FeesAreNumbers DEF SetWithdrawalFeePercentage, Config
  <2>4. CASE \E c \in FeeCollectors : SetFeeCollectorAddress(c)
    BY <1>1, <2>4 DEF SetFeeCollectorAddress, Config
  <2>5. CASE \E t \in Tokens, c \in FeeCaps : UpdateMaxWithdrawalFees(t, c)
    <3>1. PICK t \in Tokens, c \in FeeCaps : UpdateMaxWithdrawalFees(t, c)
      BY <2>5
    <3> DEFINE r == [tokenDetails[t] EXCEPT !.maxWithdrawalFees = c]
    <3>2. tokenDetails' = [tokenDetails EXCEPT ![t] = r] /\ config' = config
      BY <3>1 DEF UpdateMaxWithdrawalFees, UpdateTokenDetails
    <3>3. r \in TokenDetails
      BY <1>1, FeesAreNumbers DEF TokenDetails
    <3> HIDE DEF r
    <3> QED
      BY <1>1, <3>2, <3>3
  <2>6. CASE \E t \in Tokens : AllowPaymentsForToken(t)
    BY <1>1, <2>6 DEF AllowPaymentsForToken, UpdateTokenDetails, TokenDetails
  <2>7. CASE \E t \in Tokens : StopPaymentsForToken(t)
    BY <1>1, <2>7 DEF StopPaymentsForToken, UpdateTokenDetails, TokenDetails
  <2> QED
    BY <2>1, <2>2, <2>3, <2>4, <2>5, <2>6, <2>7 DEF OwnerCall
<1>3. UNCHANGED <<chainStats, users, payables, payableBalances,
                  historyVars, messageVars, fundVars, calls>>
  BY DEF OwnerCall, Pause, Unpause, SetWithdrawalFeePercentage,
         SetFeeCollectorAddress, UpdateMaxWithdrawalFees, UpdateTokenDetails,
         AllowPaymentsForToken, StopPaymentsForToken
<1> QED
  BY <1>2, <1>3 DEF TypeOK, messageVars, fundVars

LEMMA CreatePayableType ==
  ASSUME TypeOK, NEW u \in Users, NEW l \in AllowedLists, NEW b \in BOOLEAN,
         CreatePayable(u, l, b)
  PROVE  TypeOK'
<1> DEFINE p == chainStats.payablesCount + 1
           user == InitializedUser(u)
           n == user.activitiesCount + 1
<1>1. /\ chainStats \in ChainStats
      /\ payables \in [PayableIds -> Payable]
      /\ users \in [Users -> User]
  BY DEF TypeOK
<1>2. user \in User /\ NewUser(u) \in {0, 1}
  BY InitializedUserType
<1>3. n \in Nat
  BY <1>2 DEF User
<1>4. p \in PayableIds
  BY <1>1, BoundsAreNaturals DEF CreatePayable, ChainStats, PayableIds
<1>5. users' \in [Users -> User]
  <2> DEFINE r == [user EXCEPT !.payablesCount = @ + 1, !.activitiesCount = n]
  <2>1. users' = [users EXCEPT ![u] = r]
    BY DEF CreatePayable
  <2> HIDE DEF n, user
  <2>2. r \in User
    BY <1>2, <1>3, UserCreates
  <2> HIDE DEF r
  <2> QED
    BY <1>1, <2>1, <2>2
<1>6. chainStats' \in ChainStats
  <2>1. p \in 0..MaxPayables
    BY <1>4, BoundsAreNaturals DEF PayableIds
  <2>2. chainStats' = [chainStats EXCEPT !.usersCount = @ + NewUser(u),
                                      !.payablesCount = p,
                                      !.activitiesCount = @ + NewUser(u) + 1]
    BY DEF CreatePayable
  <2> HIDE DEF p
  <2> QED
    BY <1>1, <1>2, <2>1, <2>2, StatsCreate
<1>7. payables' \in [PayableIds -> Payable]
  BY <1>1, <1>4 DEF CreatePayable, NoPayable, Payable
<1> QED
  BY <1>5, <1>6, <1>7
  DEF TypeOK, CreatePayable, configVars, messageVars, fundVars

\* Every update of a payable by its host.
LEMMA UpdateType ==
  ASSUME TypeOK, NEW p \in PayableIds, NEW updated \in Payable,
         RecordUpdatePayableActivity(p, updated)
  PROVE  TypeOK'
<1>1. chainStats \in ChainStats /\ users \in [Users -> User]
      /\ payables \in [PayableIds -> Payable]
  BY DEF TypeOK
<1>2. chainStats' \in ChainStats
  BY <1>1 DEF RecordUpdatePayableActivity, ChainStats
<1>3. users' \in [Users -> User]
  <2> DEFINE u == payables[p].host
             n == users[u].activitiesCount + 1
  <2>1. users' = [users EXCEPT ![u].activitiesCount = n]
    BY DEF RecordUpdatePayableActivity
  <2>2. CASE u \in Users
    BY <1>1, <2>1, <2>2 DEF User
  <2>3. CASE u \notin Users
    BY <1>1, <2>1, <2>3
  <2> QED
    BY <2>2, <2>3
<1>4. payables' \in [PayableIds -> Payable]
  BY <1>1 DEF RecordUpdatePayableActivity, Payable
<1> QED
  BY <1>2, <1>3, <1>4
  DEF TypeOK, RecordUpdatePayableActivity, configVars, messageVars, fundVars

LEMMA WithdrawType ==
  ASSUME TypeOK, NEW p \in PayableIds, NEW t \in Tokens, NEW a \in Amounts,
         Withdraw(p, t, a)
  PROVE  TypeOK'
<1>1. a \in Nat /\ held \in [Tokens -> Nat] /\ calls = <<>>
  BY AmountsAreNat DEF TypeOK, Withdraw, Entered, NonReentrant
<1>2. PayHost(p, t, a, held)
  BY DEF Withdraw
<1>3. /\ held' \in [Tokens -> Nat]
      /\ earned' \in [Users -> [Tokens -> Nat]]
      /\ collected' = collected
      /\ calls' \in Seq(Frame) /\ Len(calls') <= 1
  BY <1>1, <1>2, PayHostType
<1> QED
  BY <1>3 DEF TypeOK, Withdraw, configVars, messageVars

LEMMA HostCallType == ASSUME TypeOK, HostCall PROVE TypeOK'
<1>1. payables \in [PayableIds -> Payable]
  BY DEF TypeOK
<1>2. CASE \E u \in Users, l \in AllowedLists, b \in BOOLEAN : CreatePayable(u, l, b)
  BY <1>2, CreatePayableType
<1>3. CASE \E p \in PayableIds : ClosePayable(p)
  BY <1>1, <1>3, UpdateType DEF ClosePayable, Payable
<1>4. CASE \E p \in PayableIds : ReopenPayable(p)
  BY <1>1, <1>4, UpdateType DEF ReopenPayable, Payable
<1>5. CASE \E p \in PayableIds, l \in AllowedLists :
             UpdatePayableAllowedTokensAndAmounts(p, l)
  BY <1>1, <1>5, UpdateType DEF UpdatePayableAllowedTokensAndAmounts, Payable
<1>6. CASE \E p \in PayableIds, b \in BOOLEAN : UpdatePayableAutoWithdraw(p, b)
  BY <1>1, <1>6, UpdateType DEF UpdatePayableAutoWithdraw, Payable
<1>7. CASE \E p \in PayableIds, t \in Tokens, a \in Amounts : Withdraw(p, t, a)
  BY <1>7, WithdrawType
<1> QED
  BY <1>2, <1>3, <1>4, <1>5, <1>6, <1>7 DEF HostCall

\* The payout part of a payment: KeepOrPayOut leaves well-formed funds.
LEMMA KeepOrPayOutType ==
  ASSUME TypeOK, calls = <<>>,
         NEW p \in PayableIds, NEW t \in Tokens, NEW a \in Nat,
         NEW funds \in [Tokens -> Nat],
         KeepOrPayOut(p, t, a, funds)
  PROVE  /\ held' \in [Tokens -> Nat]
         /\ earned' \in [Users -> [Tokens -> Nat]]
         /\ collected' = collected
         /\ calls' \in Seq(Frame) /\ Len(calls') <= 1
<1>1. CASE PayHost(p, t, a, funds)
  BY <1>1, PayHostType
<1>2. CASE held' = funds /\ UNCHANGED <<earned, collected, calls>>
  BY <1>2 DEF TypeOK
<1> QED
  BY <1>1, <1>2 DEF KeepOrPayOut

LEMMA CreditPayableType ==
  ASSUME TypeOK, NEW p \in PayableIds, NEW t \in Tokens, NEW a \in Nat,
         CreditPayable(p, t, a)
  PROVE  /\ payables' \in [PayableIds -> Payable]
         /\ payableBalances' \in [PayableIds -> [Tokens -> Nat]]
<1> DEFINE n == payables[p].activitiesCount + 1
<1>1. /\ payables \in [PayableIds -> Payable]
      /\ payableBalances \in [PayableIds -> [Tokens -> Nat]]
  BY DEF TypeOK
<1>2. n \in Nat
  BY <1>1 DEF Payable
<1> DEFINE r == [payables[p] EXCEPT !.paymentsCount = @ + 1,
                                   !.activitiesCount = n]
           c == [payableBalances[p] EXCEPT ![t] = @ + a]
<1>3. payables' = [payables EXCEPT ![p] = r]
  BY DEF CreditPayable
<1>4. payableBalances' = [payableBalances EXCEPT ![p] = c]
  BY DEF CreditPayable
<1>5. c \in [Tokens -> Nat]
  BY <1>1
<1> HIDE DEF n, c
<1>6. r \in Payable
  BY <1>1, <1>2, PayableReceives
<1> HIDE DEF r
<1> QED
  BY <1>1, <1>3, <1>4, <1>5, <1>6

LEMMA PayType ==
  ASSUME TypeOK, NEW u \in Users, NEW p \in PayableIds, NEW t \in Tokens,
         NEW a \in Amounts, NEW value \in Nat, Pay(u, p, t, a, value)
  PROVE  TypeOK'
<1> DEFINE user == InitializedUser(u)
           n == user.activitiesCount + 1
           userAfter == [user EXCEPT !.paymentsCount = @ + 1, !.activitiesCount = n]
           tokenAfter == [tokenDetails[t] EXCEPT !.totalUserPaid = @ + a,
                                                 !.totalPayableReceived = @ + a]
           funds == [x \in Tokens |-> IF x = t THEN held[x] + a
                                      ELSE IF x = Native THEN held[x] + value
                                      ELSE held[x]]
<1>1. /\ a \in Nat /\ calls = <<>>
      /\ held \in [Tokens -> Nat]
      /\ tokenDetails \in [Tokens -> TokenDetails]
      /\ chainStats \in ChainStats
      /\ users \in [Users -> User]
  BY AmountsAreNat DEF TypeOK, Pay, Entered, NonReentrant
<1>2. user \in User /\ NewUser(u) \in {0, 1}
  BY InitializedUserType
<1>3. n \in Nat
  BY <1>2 DEF User
<1>4. funds \in [Tokens -> Nat]
  BY <1>1
<1>5. KeepOrPayOut(p, t, a, funds) /\ CreditPayable(p, t, a)
  BY DEF Pay
<1>6. users' = [users EXCEPT ![u] = userAfter]
  BY DEF Pay
<1>7. chainStats' = [chainStats EXCEPT !.usersCount = @ + NewUser(u),
                                      !.userPaymentsCount = @ + 1,
                                      !.payablePaymentsCount = @ + 1,
                                      !.activitiesCount = @ + NewUser(u) + 2]
  BY DEF Pay
<1>8. tokenDetails' = [tokenDetails EXCEPT ![t] = tokenAfter]
  BY DEF Pay
<1> HIDE DEF n, user, funds
<1>9. users' \in [Users -> User]
  <2>1. userAfter \in User
    BY <1>2, <1>3, UserPays
  <2> HIDE DEF userAfter
  <2> QED
    BY <1>1, <1>6, <2>1
<1>10. chainStats' \in ChainStats
  BY <1>1, <1>2, <1>7, StatsPay
<1>11. tokenDetails' \in [Tokens -> TokenDetails]
  <2>1. tokenAfter \in TokenDetails
    BY <1>1, TokenPaid
  <2> HIDE DEF tokenAfter
  <2> QED
    BY <1>1, <1>8, <2>1
<1>12. /\ held' \in [Tokens -> Nat]
       /\ earned' \in [Users -> [Tokens -> Nat]]
       /\ collected' = collected
       /\ calls' \in Seq(Frame) /\ Len(calls') <= 1
  BY <1>1, <1>4, <1>5, KeepOrPayOutType
<1>13. /\ payables' \in [PayableIds -> Payable]
       /\ payableBalances' \in [PayableIds -> [Tokens -> Nat]]
  BY <1>1, <1>5, CreditPayableType
<1>14. UNCHANGED <<config, consumedMessages, usedCircleNonces>>
  BY DEF Pay, messageVars
<1> QED
  BY <1>9, <1>10, <1>11, <1>12, <1>13, <1>14 DEF TypeOK

LEMMA ReceiveType ==
  ASSUME TypeOK, NEW m \in Inbound, ReceiveForeignPaymentWithCircle(m)
  PROVE  TypeOK'
<1> DEFINE p == m.payable
           t == m.token
           a == m.amount
           funds == [held EXCEPT ![t] = @ + a]
<1>1. p \in PayableIds /\ t \in Tokens /\ a \in Nat
  BY InboundAreMessages, AmountsAreNat
<1>2. /\ calls = <<>>
      /\ held \in [Tokens -> Nat]
      /\ tokenDetails \in [Tokens -> TokenDetails]
      /\ chainStats \in ChainStats
  BY DEF TypeOK, ReceiveForeignPaymentWithCircle, Entered, NonReentrant
<1>3. funds \in [Tokens -> Nat]
  BY <1>1, <1>2
<1>4. KeepOrPayOut(p, t, a, funds) /\ CreditPayable(p, t, a)
  BY DEF ReceiveForeignPaymentWithCircle
<1>5. chainStats' = [chainStats EXCEPT !.payablePaymentsCount = @ + 1,
                                      !.activitiesCount = @ + 1,
                                      !.consumedWormholeMessagesCount = @ + 1]
  BY DEF ReceiveForeignPaymentWithCircle
<1>6. tokenDetails' = [tokenDetails EXCEPT ![t].totalPayableReceived = @ + a]
  BY DEF ReceiveForeignPaymentWithCircle
<1>7. /\ consumedMessages' \subseteq {i.vaa : i \in Inbound}
      /\ usedCircleNonces' \subseteq {i.circleNonce : i \in Inbound}
  BY DEF ReceiveForeignPaymentWithCircle, ConsumeWormholeMessage, TypeOK
<1>8. UNCHANGED <<config, users>>
  BY DEF ReceiveForeignPaymentWithCircle
<1> HIDE DEF p, t, a, funds
<1>9. chainStats' \in ChainStats
  BY <1>2, <1>5, StatsReceive
<1>10. tokenDetails' \in [Tokens -> TokenDetails]
  <2> DEFINE r == [tokenDetails[t] EXCEPT !.totalPayableReceived = @ + a]
  <2>1. tokenDetails' = [tokenDetails EXCEPT ![t] = r]
    BY <1>6
  <2>2. r \in TokenDetails
    <3> DEFINE d == tokenDetails[t]
    <3>1. d \in TokenDetails
      BY <1>1, <1>2
    <3> HIDE DEF d
    <3>2. [d EXCEPT !.totalPayableReceived = @ + a] \in TokenDetails
      BY <1>1, <3>1 DEF TokenDetails
    <3> QED
      BY <3>2 DEF d
  <2> HIDE DEF r
  <2> QED
    BY <1>2, <2>1, <2>2
<1>11. /\ held' \in [Tokens -> Nat]
       /\ earned' \in [Users -> [Tokens -> Nat]]
       /\ collected' = collected
       /\ calls' \in Seq(Frame) /\ Len(calls') <= 1
  BY <1>1, <1>2, <1>3, <1>4, KeepOrPayOutType
<1>12. /\ payables' \in [PayableIds -> Payable]
       /\ payableBalances' \in [PayableIds -> [Tokens -> Nat]]
  BY <1>1, <1>4, CreditPayableType
<1> QED
  BY <1>7, <1>8, <1>9, <1>10, <1>11, <1>12 DEF TypeOK

LEMMA RedeemDirectlyType ==
  ASSUME TypeOK, NEW m \in Inbound, RedeemDirectly(m)
  PROVE  TypeOK'
<1> DEFINE t == m.token
           a == m.amount
<1>1. t \in Tokens /\ a \in Nat /\ held \in [Tokens -> Nat]
  BY InboundAreMessages, AmountsAreNat DEF TypeOK
<1>2. /\ held' = [held EXCEPT ![t] = @ + a]
      /\ UNCHANGED <<config, tokenDetails, chainStats, users, payables,
                     payableBalances, consumedMessages, earned, collected, calls>>
  BY DEF RedeemDirectly, configVars
<1>3. usedCircleNonces' \subseteq {i.circleNonce : i \in Inbound}
  BY DEF RedeemDirectly, TypeOK
<1> HIDE DEF t, a
<1>4. held' \in [Tokens -> Nat]
  BY <1>1, <1>2
<1> QED
  BY <1>2, <1>3, <1>4 DEF TypeOK

LEMMA PayCollectorType == ASSUME TypeOK, PayCollector PROVE TypeOK'
<1> DEFINE f == Head(calls)
           g == [f EXCEPT !.callee = "collector"]
<1>1. /\ held \in [Tokens -> Nat] /\ collected \in [Tokens -> Nat]
      /\ f \in Frame /\ Tail(calls) = <<>>
  BY OneFrame DEF TypeOK, PayCollector
<1>2. f.token \in Tokens /\ f.fees \in Nat /\ g \in Frame
  BY <1>1 DEF Frame
<1>3. held' = [held EXCEPT ![f.token] = @ - f.fees] /\ f.fees <= held[f.token]
  BY DEF PayCollector
<1>4. collected' = [collected EXCEPT ![f.token] = @ + f.fees]
  BY DEF PayCollector
<1>5. calls' = <<g>> \o <<>>
  BY <1>1 DEF PayCollector
<1>6. UNCHANGED <<config, tokenDetails, chainStats, users, payables,
                  payableBalances, consumedMessages, usedCircleNonces, earned>>
  BY DEF PayCollector, configVars, messageVars
<1> HIDE DEF f, g
<1>7. held' \in [Tokens -> Nat] /\ collected' \in [Tokens -> Nat]
  BY <1>1, <1>2, <1>3, <1>4
<1>8. calls' \in Seq(Frame) /\ Len(calls') <= 1
  BY <1>2, <1>5, PushFrame
<1> QED
  BY <1>6, <1>7, <1>8 DEF TypeOK

LEMMA SettleWithdrawalType == ASSUME TypeOK, SettleWithdrawal PROVE TypeOK'
<1> DEFINE f == Head(calls)
           p == f.payable
           t == f.token
           u == payables[p].host
           n == users[u].activitiesCount + 1
           userAfter == [users[u] EXCEPT !.withdrawalsCount = @ + 1,
                                         !.activitiesCount = n]
           payableAfter == [payables[p] EXCEPT !.withdrawalsCount = @ + 1,
                                               !.activitiesCount = @ + 1]
           tokenAfter == [tokenDetails[t] EXCEPT
                            !.totalWithdrawn = @ + f.amount,
                            !.totalWithdrawalFeesCollected = @ + f.fees]
<1>1. /\ f \in Frame /\ Tail(calls) = <<>>
      /\ chainStats \in ChainStats
      /\ users \in [Users -> User]
      /\ payables \in [PayableIds -> Payable]
      /\ payableBalances \in [PayableIds -> [Tokens -> Nat]]
      /\ tokenDetails \in [Tokens -> TokenDetails]
  BY OneFrame DEF TypeOK, SettleWithdrawal
<1>2. p \in PayableIds /\ t \in Tokens /\ f.amount \in Nat /\ f.fees \in Nat
  BY <1>1 DEF Frame
<1>3. chainStats' = [chainStats EXCEPT !.withdrawalsCount = @ + 1,
                                      !.activitiesCount = @ + 1]
  BY DEF SettleWithdrawal
<1>4. users' = [users EXCEPT ![u] = userAfter]
  BY DEF SettleWithdrawal
<1>5. payables' = [payables EXCEPT ![p] = payableAfter]
  BY DEF SettleWithdrawal
<1>6. /\ f.amount <= payableBalances[p][t]
      /\ payableBalances' = [payableBalances EXCEPT ![p][t] = @ - f.amount]
  BY DEF SettleWithdrawal, DeductBalance
<1>7. tokenDetails' = [tokenDetails EXCEPT ![t] = tokenAfter]
  BY DEF SettleWithdrawal, WithdrawnTotals
<1>8. /\ UNCHANGED <<config, consumedMessages, usedCircleNonces, held, earned,
                     collected>>
      /\ calls' = <<>>
  BY <1>1 DEF SettleWithdrawal, messageVars, fundVars
<1> HIDE DEF f
<1>10. chainStats' \in ChainStats
  BY <1>1, <1>3, StatsWithdraw
<1>11. users' \in [Users -> User]
  <2>1. CASE u \in Users
    <3>1. users[u] \in User /\ n \in Nat
      BY <1>1, <2>1 DEF User
    <3> HIDE DEF n, u
    <3>2. userAfter \in User
      BY <3>1, UserWithdraws
    <3> HIDE DEF userAfter
    <3> QED
      BY <1>1, <1>4, <3>2
  <2>2. CASE u \notin Users
    <3> HIDE DEF userAfter, n
    <3> QED
      BY <1>1, <1>4, <2>2
  <2> QED
    BY <2>1, <2>2
<1> HIDE DEF u, n, p, t
<1>12. payables' \in [PayableIds -> Payable]
  <2>1. payableAfter \in Payable
    BY <1>1, <1>2, PayableWithdraws
  <2> HIDE DEF payableAfter
  <2> QED
    BY <1>1, <1>5, <2>1
<1>13. payableBalances' \in [PayableIds -> [Tokens -> Nat]]
  BY <1>1, <1>2, <1>6
<1>14. tokenDetails' \in [Tokens -> TokenDetails]
  <2>1. tokenAfter \in TokenDetails
    BY <1>1, <1>2, TokenWithdrawn
  <2> HIDE DEF tokenAfter
  <2> QED
    BY <1>1, <1>7, <2>1
<1> QED
  BY <1>8, <1>10, <1>11, <1>12, <1>13, <1>14, EmptySeq DEF TypeOK

LEMMA StepType == TypeOK /\ [Next]_vars => TypeOK'
<1> SUFFICES ASSUME TypeOK, [Next]_vars PROVE TypeOK'
  OBVIOUS
<1>1. CASE OwnerCall
  BY <1>1, OwnerCallType
<1>2. CASE HostCall
  BY <1>2, HostCallType
<1>3. CASE PaymentCall
  <2>1. CASE \E u \in Users, p \in PayableIds, t \in Tokens, a \in Amounts :
               \E value \in {0, a} : Pay(u, p, t, a, value)
    BY <2>1, PayType, AmountsAreNat
  <2>2. CASE \E m \in Inbound : ReceiveForeignPaymentWithCircle(m)
    BY <2>2, ReceiveType
  <2>3. CASE \E m \in Inbound : RedeemDirectly(m)
    BY <2>3, RedeemDirectlyType
  <2> QED
    BY <1>3, <2>1, <2>2, <2>3 DEF PaymentCall
<1>4. CASE PayCollector
  BY <1>4, PayCollectorType
<1>5. CASE SettleWithdrawal
  BY <1>5, SettleWithdrawalType
<1>6. CASE UNCHANGED vars
  BY <1>6 DEF vars, TypeOK
<1> QED
  BY <1>1, <1>2, <1>3, <1>4, <1>5, <1>6 DEF Next

\* Every reachable state is well formed, and nonReentrant admits at most one
\* withdrawal at a time.
THEOREM TypeCorrect == Spec => []TypeOK
BY InitType, StepType, PTL DEF Spec

-----------------------------------------------------------------------------
(* Solvency.  The invariant Backed keeps, for every token, the running     *)
(* total of the balances, payable by payable: the total never decreases    *)
(* along the payables (so that taking from one of them takes from every    *)
(* later total), it ends at no more than the contract owns or has in       *)
(* flight, and at what was received less what was withdrawn.  Each action  *)
(* leaves balances, funds and totals alone (KeepTally), adds one payment   *)
(* (CreditTally) or settles one withdrawal (DebitTally).                   *)

Worth(t) == held[t] + InFlight(t)

Tally(s, t) ==
  /\ RunningTotal(s, t)
  /\ \A i, j \in 0..MaxPayables : i <= j => s[i] <= s[j]
  /\ s[MaxPayables] <= Worth(t)
  /\ s[MaxPayables] + tokenDetails[t].totalWithdrawn
       = tokenDetails[t].totalPayableReceived

Backed == \A t \in Tokens : \E s \in [0..MaxPayables -> Nat] : Tally(s, t)

IInv == TypeOK /\ Backed /\ PayoutCanFinish /\ FeesAccounted

-----------------------------------------------------------------------------
(* Types of what the tally adds up. *)

LEMMA TotalsAreNat ==
  ASSUME TypeOK, NEW t \in Tokens
  PROVE  /\ tokenDetails[t].totalWithdrawn \in Nat
         /\ tokenDetails[t].totalPayableReceived \in Nat
         /\ tokenDetails[t].totalWithdrawalFeesCollected \in Nat
<1>1. tokenDetails[t] \in TokenDetails
  BY DEF TypeOK
<1> QED
  BY <1>1 DEF TokenDetails

LEMMA WorthIsInt ==
  ASSUME TypeOK, NEW t \in Tokens
  PROVE  held[t] \in Nat /\ InFlight(t) \in Int /\ Worth(t) \in Int
<1>1. held[t] \in Nat
  BY DEF TypeOK
<1>2. CASE calls # <<>>
  <2>1. Head(calls) \in Frame
    BY <1>2, OneFrame
  <2>2. Head(calls).amount \in Nat /\ Head(calls).fees \in Nat
    BY <2>1 DEF Frame
  <2> QED
    BY <1>1, <2>2 DEF InFlight, Sent, Worth
<1>3. CASE calls = <<>>
  BY <1>1, <1>3 DEF InFlight, Worth
<1> QED
  BY <1>2, <1>3

LEMMA WorthIsIntNext == TypeOK' => (\A t \in Tokens : Worth(t) \in Int)'
<1>1. TypeOK => \A t \in Tokens : Worth(t) \in Int
  BY WorthIsInt
<1> QED
  BY <1>1, PTL

\* A step that takes nothing from the funds and leaves the balances alone.
LEMMA KeepTally ==
  ASSUME TypeOK, TypeOK', NEW t \in Tokens, NEW s \in [0..MaxPayables -> Nat],
         Tally(s, t),
         \A p \in PayableIds : payableBalances'[p][t] = payableBalances[p][t],
         Worth(t)' >= Worth(t),
         tokenDetails'[t].totalWithdrawn = tokenDetails[t].totalWithdrawn,
         tokenDetails'[t].totalPayableReceived = tokenDetails[t].totalPayableReceived
  PROVE  Tally(s, t)'
<1>1. MaxPayables \in 0..MaxPayables /\ s[MaxPayables] \in Nat
  BY BoundsAreNaturals
<1>2. Worth(t) \in Int /\ Worth(t)' \in Int
  BY WorthIsInt, WorthIsIntNext
<1>3. RunningTotal(s, t)'
  BY DEF Tally, RunningTotal
<1>4. s[MaxPayables] <= Worth(t)'
  <2> DEFINE w == Worth(t)
             v == Worth(t)'
             x == s[MaxPayables]
  <2>1. x \in Nat /\ w \in Int /\ v \in Int /\ x <= w /\ v >= w
    BY <1>1, <1>2 DEF Tally
  <2> HIDE DEF w, v, x
  <2>2. x <= v
    BY <2>1
  <2> QED
    BY <2>2 DEF v, x
<1> QED
  BY <1>3, <1>4 DEF Tally
\* A payment of a to payable p: every later total grows by a.
LEMMA CreditTally ==
  ASSUME TypeOK, TypeOK', NEW t \in Tokens, NEW s \in [0..MaxPayables -> Nat],
         Tally(s, t), NEW p \in PayableIds, NEW a \in Nat,
         payableBalances' = [payableBalances EXCEPT ![p][t] = @ + a],
         Worth(t)' >= Worth(t) + a,
         tokenDetails'[t].totalWithdrawn = tokenDetails[t].totalWithdrawn,
         tokenDetails'[t].totalPayableReceived
           = tokenDetails[t].totalPayableReceived + a
  PROVE  \E z \in [0..MaxPayables -> Nat] : Tally(z, t)'
<1> DEFINE z == [i \in 0..MaxPayables |-> IF i >= p THEN s[i] + a ELSE s[i]]
           top == s[MaxPayables]
<1>1. /\ MaxPayables \in Nat /\ p \in 1..MaxPayables
      /\ payableBalances \in [PayableIds -> [Tokens -> Nat]]
  BY BoundsAreNaturals DEF PayableIds, TypeOK
<1>2. z \in [0..MaxPayables -> Nat]
  OBVIOUS
<1>3. RunningTotal(s, t) /\ \A i, j \in 0..MaxPayables : i <= j => s[i] <= s[j]
  BY DEF Tally
<1>4. RunningTotal(z, t)'
  <2>1. z[0] = 0
    BY <1>1, <1>3 DEF RunningTotal
  <2>2. ASSUME NEW q \in PayableIds
        PROVE  z[q] = z[q-1] + payableBalances'[q][t]
    <3> DEFINE b == payableBalances[q][t]
    <3>1. /\ q \in 0..MaxPayables /\ q - 1 \in 0..MaxPayables
          /\ q \in Int /\ p \in Int
      BY <1>1 DEF PayableIds
    <3>2. s[q] = s[q-1] + b /\ b \in Nat /\ s[q] \in Nat /\ s[q-1] \in Nat
      BY <1>1, <1>3, <3>1 DEF RunningTotal
    <3>3. payableBalances'[q][t] = IF q = p THEN b + a ELSE b
      BY <1>1
    <3>4. /\ z[q] = (IF q >= p THEN s[q] + a ELSE s[q])
          /\ z[q-1] = (IF q - 1 >= p THEN s[q-1] + a ELSE s[q-1])
      BY <3>1
    <3> HIDE DEF z, b
    <3> QED
      BY <3>1, <3>2, <3>3, <3>4
  <2> HIDE DEF z
  <2> QED
    BY <2>1, <2>2 DEF RunningTotal
<1>5. ASSUME NEW i \in 0..MaxPayables, NEW j \in 0..MaxPayables, i <= j
      PROVE  z[i] <= z[j]
  <2>1. s[i] \in Nat /\ s[j] \in Nat /\ i \in Int /\ j \in Int /\ p \in Int
    BY <1>1
  <2>2. s[i] <= s[j]
    BY <1>3, <1>5
  <2> QED
    BY <1>5, <2>1, <2>2
<1>6. z[MaxPayables] = top + a /\ top \in Nat
  BY <1>1
<1> HIDE DEF z
<1>7. z[MaxPayables] <= Worth(t)'
  <2> DEFINE w == Worth(t)
             v == Worth(t)'
  <2>1. w \in Int /\ v \in Int /\ top <= w /\ v >= w + a
    BY WorthIsInt, WorthIsIntNext DEF Tally
  <2> HIDE DEF w, v, top
  <2>2. top + a <= v
    BY <1>6, <2>1
  <2> QED
    BY <1>6, <2>2 DEF v
<1>8. z[MaxPayables] + tokenDetails'[t].totalWithdrawn
        = tokenDetails'[t].totalPayableReceived
  <2> DEFINE w == tokenDetails[t].totalWithdrawn
             r == tokenDetails[t].totalPayableReceived
  <2>1. w \in Nat /\ r \in Nat /\ top + w = r
    BY TotalsAreNat DEF Tally
  <2>2. tokenDetails'[t].totalWithdrawn = w
        /\ tokenDetails'[t].totalPayableReceived = r + a
    OBVIOUS
  <2> HIDE DEF w, r, top
  <2> QED
    BY <1>6, <2>1, <2>2
<1>9. Tally(z, t)'
  BY <1>4, <1>5, <1>7, <1>8 DEF Tally
<1> QED
  BY <1>2, <1>9

\* A withdrawal of a from payable p: every later total shrinks by a, and none
\* below zero, because the totals never decrease along the payables.
LEMMA DebitTally ==
  ASSUME TypeOK, TypeOK', NEW t \in Tokens, NEW s \in [0..MaxPayables -> Nat],
         Tally(s, t), NEW p \in PayableIds, NEW a \in Nat,
         a <= payableBalances[p][t],
         payableBalances' = [payableBalances EXCEPT ![p][t] = @ - a],
         Worth(t)' >= Worth(t) - a,
         tokenDetails'[t].totalWithdrawn = tokenDetails[t].totalWithdrawn + a,
         tokenDetails'[t].totalPayableReceived
           = tokenDetails[t].totalPayableReceived
  PROVE  \E z \in [0..MaxPayables -> Nat] : Tally(z, t)'
<1> DEFINE z == [i \in 0..MaxPayables |-> IF i >= p THEN s[i] - a ELSE s[i]]
           top == s[MaxPayables]
<1>1. /\ MaxPayables \in Nat /\ p \in 1..MaxPayables
      /\ payableBalances \in [PayableIds -> [Tokens -> Nat]]
  BY BoundsAreNaturals DEF PayableIds, TypeOK
<1>2. RunningTotal(s, t) /\ \A i, j \in 0..MaxPayables : i <= j => s[i] <= s[j]
  BY DEF Tally
<1>3. /\ p \in 0..MaxPayables /\ p - 1 \in 0..MaxPayables
      /\ s[p] \in Nat /\ s[p-1] \in Nat
      /\ s[p] - a >= s[p-1]
  <2> DEFINE b == payableBalances[p][t]
  <2>1. p \in 0..MaxPayables /\ p - 1 \in 0..MaxPayables
    BY <1>1
  <2>2. s[p] = s[p-1] + b /\ b \in Nat /\ s[p] \in Nat /\ s[p-1] \in Nat
    BY <1>1, <1>2, <2>1 DEF RunningTotal, PayableIds
  <2>3. a <= b
    OBVIOUS
  <2> HIDE DEF b
  <2> QED
    BY <2>1, <2>2, <2>3
<1>4. ASSUME NEW i \in 0..MaxPayables, i >= p PROVE s[i] - a \in Nat
  <2>1. s[i] \in Nat /\ s[p] <= s[i]
    BY <1>2, <1>3, <1>4
  <2> QED
    BY <1>3, <2>1
<1>5. z \in [0..MaxPayables -> Nat]
  BY <1>4
<1>6. RunningTotal(z, t)'
  <2>1. z[0] = 0
    BY <1>1, <1>2 DEF RunningTotal
  <2>2. ASSUME NEW q \in PayableIds
        PROVE  z[q] = z[q-1] + payableBalances'[q][t]
    <3> DEFINE b == payableBalances[q][t]
    <3>1. /\ q \in 0..MaxPayables /\ q - 1 \in 0..MaxPayables
          /\ q \in Int /\ p \in Int
      BY <1>1 DEF PayableIds
    <3>2. s[q] = s[q-1] + b /\ b \in Nat /\ s[q] \in Nat /\ s[q-1] \in Nat
      BY <1>1, <1>2, <3>1 DEF RunningTotal
    <3>3. payableBalances'[q][t] = IF q = p THEN b - a ELSE b
      BY <1>1
    <3>4. /\ z[q] = (IF q >= p THEN s[q] - a ELSE s[q])
          /\ z[q-1] = (IF q - 1 >= p THEN s[q-1] - a ELSE s[q-1])
      BY <3>1
    <3> HIDE DEF z, b
    <3> QED
      BY <3>1, <3>2, <3>3, <3>4
  <2> HIDE DEF z
  <2> QED
    BY <2>1, <2>2 DEF RunningTotal
<1>7. ASSUME NEW i \in 0..MaxPayables, NEW j \in 0..MaxPayables, i <= j
      PROVE  z[i] <= z[j]
  <2>1. /\ s[i] \in Nat /\ s[j] \in Nat /\ s[i] <= s[j]
        /\ i \in Int /\ j \in Int /\ p \in Int
    BY <1>1, <1>2, <1>7
  <2>2. CASE i < p /\ j >= p
    <3>1. s[i] <= s[p-1]
      BY <1>2, <1>3, <2>1, <2>2
    <3>2. s[p] <= s[j]
      BY <1>2, <1>3, <2>1, <2>2
    <3> QED
      BY <1>3, <2>1, <2>2, <3>1, <3>2
  <2>3. CASE ~(i < p /\ j >= p)
    BY <1>7, <2>1, <2>3
  <2> QED
    BY <2>2, <2>3
<1>8. z[MaxPayables] = top - a /\ top \in Nat
  BY <1>1
<1> HIDE DEF z
<1>9. z[MaxPayables] <= Worth(t)'
  <2> DEFINE w == Worth(t)
             v == Worth(t)'
  <2>1. w \in Int /\ v \in Int /\ top <= w /\ v >= w - a
    BY WorthIsInt, WorthIsIntNext DEF Tally
  <2> HIDE DEF w, v, top
  <2>2. top - a <= v
    BY <1>8, <2>1
  <2> QED
    BY <1>8, <2>2 DEF v
<1>10. z[MaxPayables] + tokenDetails'[t].totalWithdrawn
        = tokenDetails'[t].totalPayableReceived
  <2> DEFINE w == tokenDetails[t].totalWithdrawn
             r == tokenDetails[t].totalPayableReceived
  <2>1. w \in Nat /\ r \in Nat /\ top + w = r
    BY TotalsAreNat DEF Tally
  <2>2. tokenDetails'[t].totalWithdrawn = w + a
        /\ tokenDetails'[t].totalPayableReceived = r
    OBVIOUS
  <2> HIDE DEF w, r, top
  <2> QED
    BY <1>8, <2>1, <2>2
<1>11. Tally(z, t)'
  BY <1>6, <1>7, <1>9, <1>10 DEF Tally
<1> QED
  BY <1>5, <1>11

-----------------------------------------------------------------------------
(* The three kinds of step, for all tokens at once. *)

TotalsKept(t) ==
  /\ tokenDetails'[t].totalWithdrawn = tokenDetails[t].totalWithdrawn
  /\ tokenDetails'[t].totalPayableReceived = tokenDetails[t].totalPayableReceived

LEMMA KeepBacked ==
  ASSUME TypeOK, TypeOK', Backed,
         payableBalances' = payableBalances,
         \A t \in Tokens : Worth(t)' >= Worth(t) /\ TotalsKept(t)
  PROVE  Backed'
<1> SUFFICES ASSUME NEW t \in Tokens
             PROVE  \E s \in [0..MaxPayables -> Nat] : Tally(s, t)'
  BY DEF Backed
<1>1. PICK s \in [0..MaxPayables -> Nat] : Tally(s, t)
  BY DEF Backed
<1>2. Tally(s, t)'
  BY <1>1, KeepTally DEF TotalsKept
<1> QED
  BY <1>2

LEMMA CreditBacked ==
  ASSUME TypeOK, TypeOK', Backed,
         NEW p \in PayableIds, NEW t \in Tokens, NEW a \in Nat,
         payableBalances' = [payableBalances EXCEPT ![p][t] = @ + a],
         Worth(t)' >= Worth(t) + a,
         tokenDetails'[t].totalWithdrawn = tokenDetails[t].totalWithdrawn,
         tokenDetails'[t].totalPayableReceived
           = tokenDetails[t].totalPayableReceived + a,
         \A x \in Tokens \ {t} : Worth(x)' >= Worth(x) /\ TotalsKept(x)
  PROVE  Backed'
<1> SUFFICES ASSUME NEW x \in Tokens
             PROVE  \E s \in [0..MaxPayables -> Nat] : Tally(s, x)'
  BY DEF Backed
<1>1. PICK s \in [0..MaxPayables -> Nat] : Tally(s, x)
  BY DEF Backed
<1>2. CASE x = t
  BY <1>1, <1>2, CreditTally
<1>3. CASE x # t
  <2>1. payableBalances \in [PayableIds -> [Tokens -> Nat]]
    BY DEF TypeOK
  <2>2. \A q \in PayableIds : payableBalances'[q][x] = payableBalances[q][x]
    BY <1>3, <2>1
  <2>3. Tally(s, x)'
    BY <1>1, <1>3, <2>2, KeepTally DEF TotalsKept
  <2> QED
    BY <2>3
<1> QED
  BY <1>2, <1>3

LEMMA DebitBacked ==
  ASSUME TypeOK, TypeOK', Backed,
         NEW p \in PayableIds, NEW t \in Tokens, NEW a \in Nat,
         a <= payableBalances[p][t],
         payableBalances' = [payableBalances EXCEPT ![p][t] = @ - a],
         Worth(t)' >= Worth(t) - a,
         tokenDetails'[t].totalWithdrawn = tokenDetails[t].totalWithdrawn + a,
         tokenDetails'[t].totalPayableReceived
           = tokenDetails[t].totalPayableReceived,
         \A x \in Tokens \ {t} : Worth(x)' >= Worth(x) /\ TotalsKept(x)
  PROVE  Backed'
<1> SUFFICES ASSUME NEW x \in Tokens
             PROVE  \E s \in [0..MaxPayables -> Nat] : Tally(s, x)'
  BY DEF Backed
<1>1. PICK s \in [0..MaxPayables -> Nat] : Tally(s, x)
  BY DEF Backed
<1>2. CASE x = t
  BY <1>1, <1>2, DebitTally
<1>3. CASE x # t
  <2>1. payableBalances \in [PayableIds -> [Tokens -> Nat]]
    BY DEF TypeOK
  <2>2. \A q \in PayableIds : payableBalances'[q][x] = payableBalances[q][x]
    BY <1>3, <2>1
  <2>3. Tally(s, x)'
    BY <1>1, <1>3, <2>2, KeepTally DEF TotalsKept
  <2> QED
    BY <2>3
<1> QED
  BY <1>2, <1>3

-----------------------------------------------------------------------------
(* What a payout does to the contract's worth. *)

LEMMA WorthIdle ==
  ASSUME TypeOK, calls = <<>>, NEW t \in Tokens
  PROVE  Worth(t) = held[t]
<1>1. held[t] \in Nat
  BY DEF TypeOK
<1> QED
  BY <1>1 DEF Worth, InFlight

LEMMA PayHostWorth ==
  ASSUME TypeOK, calls = <<>>,
         NEW p \in PayableIds, NEW t \in Tokens, NEW a \in Nat,
         NEW funds \in [Tokens -> Nat],
         PayHost(p, t, a, funds)
  PROVE  /\ \A x \in Tokens : Worth(x)' = funds[x]
         /\ Fees(t, a) <= held'[t]
         /\ calls' # <<>>
         /\ Head(calls') = [payable |-> p, token |-> t, amount |-> a,
                            fees |-> Fees(t, a), callee |-> "host"]
<1> DEFINE f == [payable |-> p, token |-> t, amount |-> a,
                 fees |-> Fees(t, a), callee |-> "host"]
<1>1. Fees(t, a) \in Nat /\ Fees(t, a) <= a /\ a <= funds[t]
  BY FeesAreNat DEF PayHost, PayoutCommits
<1>2. held' = [funds EXCEPT ![t] = @ - (a - Fees(t, a))]
  BY DEF PayHost, AmountDue
<1>3. calls' = <<f>>
  <2>1. f \in Frame
    BY <1>1 DEF Frame
  <2>2. calls' = <<f>> \o <<>>
    BY DEF PayHost
  <2> HIDE DEF f
  <2> QED
    BY <2>1, <2>2, PushFrame
<1>4. calls' # <<>> /\ Head(calls') = f
  BY <1>3
<1>5. ASSUME NEW x \in Tokens PROVE Worth(x)' = funds[x]
  <2>1. InFlight(x)' = IF t = x THEN a - Fees(t, a) ELSE 0
    BY <1>4 DEF InFlight, Sent
  <2>2. held'[x] = IF t = x THEN funds[x] - (a - Fees(t, a)) ELSE funds[x]
    BY <1>2
  <2>3. Worth(x)' = held'[x] + InFlight(x)'
    BY DEF Worth
  <2>4. funds[x] \in Nat
    OBVIOUS
  <2> DEFINE due == a - Fees(t, a)
  <2>5. due \in Nat
    BY <1>1
  <2> QED
    BY <2>1, <2>2, <2>3, <2>4, <2>5
<1>6. Fees(t, a) <= held'[t]
  <2> DEFINE fees == Fees(t, a)
             h == funds[t]
  <2>1. held'[t] = h - (a - fees) /\ h \in Nat /\ fees \in Nat /\ a <= h
    BY <1>1, <1>2
  <2> HIDE DEF fees, h
  <2>2. fees <= held'[t]
    BY <2>1
  <2> QED
    BY <2>2 DEF fees
<1> QED
  BY <1>4, <1>5, <1>6

LEMMA KeepOrPayOutWorth ==
  ASSUME TypeOK, calls = <<>>,
         NEW p \in PayableIds, NEW t \in Tokens, NEW a \in Nat,
         NEW funds \in [Tokens -> Nat],
         KeepOrPayOut(p, t, a, funds)
  PROVE  /\ \A x \in Tokens : Worth(x)' = funds[x]
         /\ calls' # <<>> =>
              /\ Head(calls') = [payable |-> p, token |-> t, amount |-> a,
                                 fees |-> Fees(t, a), callee |-> "host"]
              /\ Fees(t, a) <= held'[t]
<1>1. CASE PayHost(p, t, a, funds)
  BY <1>1, PayHostWorth
<1>2. CASE held' = funds /\ UNCHANGED <<earned, collected, calls>>
  <2>1. calls' = <<>>
    BY <1>2
  <2>2. ASSUME NEW x \in Tokens PROVE Worth(x)' = funds[x]
    <3>1. funds[x] \in Nat
      OBVIOUS
    <3> QED
      BY <1>2, <2>1, <3>1 DEF Worth, InFlight
  <2> QED
    BY <2>1, <2>2
<1> QED
  BY <1>1, <1>2 DEF KeepOrPayOut

-----------------------------------------------------------------------------
(* Each kind of step keeps the inductive invariant. *)

\* A call that touches neither balances nor funds nor totals.
QuietFunds ==
  /\ calls = <<>> /\ calls' = <<>>
  /\ payableBalances' = payableBalances /\ held' = held /\ collected' = collected
  /\ \A t \in Tokens :
       /\ TotalsKept(t)
       /\ tokenDetails'[t].totalWithdrawalFeesCollected
            = tokenDetails[t].totalWithdrawalFeesCollected

LEMMA QuietStep == ASSUME IInv, TypeOK', QuietFunds PROVE IInv'
<1>1. ASSUME NEW t \in Tokens PROVE Worth(t)' >= Worth(t)
  <2>1. Worth(t)' = Worth(t) /\ Worth(t) \in Int
    BY WorthIsInt DEF IInv, QuietFunds, Worth, InFlight
  <2> QED
    BY <2>1
<1>2. Backed'
  BY <1>1, KeepBacked DEF IInv, QuietFunds
<1>3. PayoutCanFinish'
  BY DEF QuietFunds, PayoutCanFinish
<1>4. FeesAccounted'
  BY DEF IInv, QuietFunds, FeesAccounted
<1> QED
  BY <1>2, <1>3, <1>4 DEF IInv

LEMMA OwnerCallQuiet == ASSUME TypeOK, OwnerCall PROVE QuietFunds
<1>1. /\ calls = <<>>
      /\ UNCHANGED <<payableBalances, held, collected, calls>>
  BY DEF OwnerCall, Pause, Unpause, SetWithdrawalFeePercentage,
         SetFeeCollectorAddress, UpdateMaxWithdrawalFees, UpdateTokenDetails,
         AllowPaymentsForToken, StopPaymentsForToken, Entered, NonReentrant,
         fundVars
<1>2. ASSUME NEW t \in Tokens
      PROVE  /\ TotalsKept(t)
             /\ tokenDetails'[t].totalWithdrawalFeesCollected
                  = tokenDetails[t].totalWithdrawalFeesCollected
  <2>1. CASE tokenDetails' = tokenDetails
    BY <2>1 DEF TotalsKept
  <2>2. CASE \E x \in Tokens, c \in FeeCaps : UpdateMaxWithdrawalFees(x, c)
    <3>1. PICK x \in Tokens, c \in FeeCaps :
            tokenDetails' = [tokenDetails EXCEPT
              ![x] = [tokenDetails[x] EXCEPT !.maxWithdrawalFees = c]]
      BY <2>2 DEF UpdateMaxWithdrawalFees, UpdateTokenDetails
    <3> QED
      BY <3>1 DEF TotalsKept, TypeOK, TokenDetails
  <2>3. CASE \E x \in Tokens, b \in BOOLEAN :
               tokenDetails' = [tokenDetails EXCEPT
                 ![x] = [tokenDetails[x] EXCEPT !.isSupported = b]]
    <3>1. PICK x \in Tokens, b \in BOOLEAN :
            tokenDetails' = [tokenDetails EXCEPT
              ![x] = [tokenDetails[x] EXCEPT !.isSupported = b]]
      BY <2>3
    <3> QED
      BY <3>1 DEF TotalsKept, TypeOK, TokenDetails
  <2> QED
    BY <2>1, <2>2, <2>3
    DEF OwnerCall, Pause, Unpause, SetWithdrawalFeePercentage,
        SetFeeCollectorAddress, UpdateTokenDetails, AllowPaymentsForToken,
        StopPaymentsForToken
<1> QED
  BY <1>1, <1>2 DEF QuietFunds

\* The calls of a host about its payables move no money; Withdraw does.
LEMMA HostUpdateQuiet ==
  ASSUME HostCall,
         ~ \E p \in PayableIds, t \in Tokens, a \in Amounts : Withdraw(p, t, a)
  PROVE  QuietFunds
<1>1. /\ calls = <<>>
      /\ UNCHANGED <<tokenDetails, payableBalances, held, collected, calls>>
  BY DEF HostCall, CreatePayable, ClosePayable, ReopenPayable,
         UpdatePayableAllowedTokensAndAmounts, UpdatePayableAutoWithdraw,
         RecordUpdatePayableActivity, Entered, NonReentrant, configVars, fundVars
<1> QED
  BY <1>1 DEF QuietFunds, TotalsKept

LEMMA WithdrawStep ==
  ASSUME IInv, TypeOK', NEW p \in PayableIds, NEW t \in Tokens, NEW a \in Amounts,
         Withdraw(p, t, a)
  PROVE  IInv'
<1>1. /\ TypeOK /\ a \in Nat /\ calls = <<>> /\ held \in [Tokens -> Nat]
      /\ a <= payableBalances[p][t]
      /\ payableBalances' = payableBalances /\ tokenDetails' = tokenDetails
  BY AmountsAreNat
  DEF IInv, TypeOK, Withdraw, Entered, NonReentrant, HasBalance, configVars
<1>2. PayHost(p, t, a, held) /\ collected' = collected
  BY DEF Withdraw, PayHost
<1>3. /\ \A x \in Tokens : Worth(x)' = held[x]
      /\ Fees(t, a) <= held'[t]
      /\ calls' # <<>>
      /\ Head(calls') = [payable |-> p, token |-> t, amount |-> a,
                         fees |-> Fees(t, a), callee |-> "host"]
  BY <1>1, <1>2, PayHostWorth
<1>4. ASSUME NEW x \in Tokens PROVE Worth(x)' >= Worth(x) /\ TotalsKept(x)
  <2>1. Worth(x) = held[x] /\ held[x] \in Nat
    BY <1>1, WorthIdle
  <2> QED
    BY <1>1, <1>3, <2>1 DEF TotalsKept
<1>5. Backed'
  BY <1>1, <1>4, KeepBacked DEF IInv
<1>6. PayoutCanFinish'
  BY <1>1, <1>3 DEF PayoutCanFinish
<1>7. FeesAccounted'
  BY <1>1, <1>2, <1>3 DEF IInv, FeesAccounted
<1> QED
  BY <1>5, <1>6, <1>7 DEF IInv

\* A payment of a to p, kept or paid out at once; "funds" is what the contract
\* holds with it, at least a more than before.
LEMMA PaymentStep ==
  ASSUME IInv, TypeOK', calls = <<>>,
         NEW p \in PayableIds, NEW t \in Tokens, NEW a \in Nat,
         NEW funds \in [Tokens -> Nat],
         funds[t] = held[t] + a,
         \A x \in Tokens : funds[x] >= held[x],
         KeepOrPayOut(p, t, a, funds), CreditPayable(p, t, a),
         tokenDetails'[t].totalPayableReceived
           = tokenDetails[t].totalPayableReceived + a,
         tokenDetails'[t].totalWithdrawn = tokenDetails[t].totalWithdrawn,
         \A x \in Tokens \ {t} : TotalsKept(x),
         \A x \in Tokens : tokenDetails'[x].totalWithdrawalFeesCollected
                            = tokenDetails[x].totalWithdrawalFeesCollected
  PROVE  IInv'
<1>1. /\ TypeOK /\ Backed /\ FeesAccounted
      /\ payableBalances \in [PayableIds -> [Tokens -> Nat]]
      /\ payableBalances' = [payableBalances EXCEPT ![p][t] = @ + a]
  BY DEF IInv, TypeOK, CreditPayable
<1>2. /\ \A x \in Tokens : Worth(x)' = funds[x]
      /\ calls' # <<>> =>
           /\ Head(calls') = [payable |-> p, token |-> t, amount |-> a,
                              fees |-> Fees(t, a), callee |-> "host"]
           /\ Fees(t, a) <= held'[t]
  BY <1>1, KeepOrPayOutWorth
<1>3. \A x \in Tokens : Worth(x) = held[x]
  BY <1>1, WorthIdle
<1>4. Worth(t)' >= Worth(t) + a
  <2>1. held[t] \in Nat
    BY <1>1 DEF TypeOK
  <2> QED
    BY <1>2, <1>3, <2>1
<1>5. \A x \in Tokens \ {t} : Worth(x)' >= Worth(x) /\ TotalsKept(x)
  BY <1>2, <1>3
<1>6. Backed'
  BY <1>1, <1>4, <1>5, CreditBacked
<1>7. PayoutCanFinish'
  <2>1. a <= payableBalances'[p][t]
    <3>1. payableBalances'[p][t] = payableBalances[p][t] + a
          /\ payableBalances[p][t] \in Nat
      BY <1>1
    <3> QED
      BY <3>1
  <2> QED
    BY <1>2, <2>1 DEF PayoutCanFinish
<1>8. FeesAccounted'
  <2>1. collected' = collected
    BY DEF KeepOrPayOut, PayHost
  <2>2. calls' # <<>> => Head(calls').callee = "host"
    BY <1>2
  <2>3. ASSUME NEW x \in Tokens
        PROVE  collected'[x] = tokenDetails'[x].totalWithdrawalFeesCollected + 0
    BY <1>1, <2>1 DEF FeesAccounted
  <2> QED
    BY <2>2, <2>3 DEF FeesAccounted
<1> QED
  BY <1>6, <1>7, <1>8 DEF IInv


LEMMA PayStep ==
  ASSUME IInv, TypeOK', NEW u \in Users, NEW p \in PayableIds, NEW t \in Tokens,
         NEW a \in Amounts, NEW value \in Nat, Pay(u, p, t, a, value)
  PROVE  IInv'
<1> DEFINE funds == [x \in Tokens |-> IF x = t THEN held[x] + a
                                      ELSE IF x = Native THEN held[x] + value
                                      ELSE held[x]]
           tokenAfter == [tokenDetails[t] EXCEPT !.totalUserPaid = @ + a,
                                                 !.totalPayableReceived = @ + a]
<1>1. /\ a \in Nat /\ calls = <<>> /\ held \in [Tokens -> Nat]
      /\ tokenDetails \in [Tokens -> TokenDetails]
  BY AmountsAreNat DEF IInv, TypeOK, Pay, Entered, NonReentrant
<1>2. funds \in [Tokens -> Nat] /\ funds[t] = held[t] + a
  BY <1>1
<1>3. \A x \in Tokens : funds[x] >= held[x]
  BY <1>1
<1>4. KeepOrPayOut(p, t, a, funds) /\ CreditPayable(p, t, a)
  BY DEF Pay
<1>5. tokenDetails' = [tokenDetails EXCEPT ![t] = tokenAfter]
  BY DEF Pay
<1>6. /\ tokenAfter.totalPayableReceived = tokenDetails[t].totalPayableReceived + a
      /\ tokenAfter.totalWithdrawn = tokenDetails[t].totalWithdrawn
      /\ tokenAfter.totalWithdrawalFeesCollected
           = tokenDetails[t].totalWithdrawalFeesCollected
  <2>1. tokenDetails[t] \in TokenDetails
    BY <1>1
  <2> QED
    BY <2>1 DEF TokenDetails
<1> HIDE DEF funds, tokenAfter
<1>7. /\ tokenDetails'[t] = tokenAfter
      /\ \A x \in Tokens \ {t} : tokenDetails'[x] = tokenDetails[x]
  BY <1>1, <1>5
<1>8. \A x \in Tokens \ {t} : TotalsKept(x)
  BY <1>7 DEF TotalsKept
<1>9. \A x \in Tokens : tokenDetails'[x].totalWithdrawalFeesCollected
                         = tokenDetails[x].totalWithdrawalFeesCollected
  BY <1>6, <1>7
<1> QED
  BY <1>1, <1>2, <1>3, <1>4, <1>6, <1>7, <1>8, <1>9, PaymentStep

LEMMA ReceiveStep ==
  ASSUME IInv, TypeOK', NEW m \in Inbound, ReceiveForeignPaymentWithCircle(m)
  PROVE  IInv'
<1> DEFINE p == m.payable
           t == m.token
           a == m.amount
           funds == [held EXCEPT ![t] = @ + a]
           tokenAfter == [tokenDetails[t] EXCEPT !.totalPayableReceived = @ + a]
<1>1. p \in PayableIds /\ t \in Tokens /\ a \in Nat
  BY InboundAreMessages, AmountsAreNat
<1>2. /\ calls = <<>> /\ held \in [Tokens -> Nat]
      /\ tokenDetails \in [Tokens -> TokenDetails]
  BY DEF IInv, TypeOK, ReceiveForeignPaymentWithCircle, Entered, NonReentrant
<1>3. KeepOrPayOut(p, t, a, funds) /\ CreditPayable(p, t, a)
  BY DEF ReceiveForeignPaymentWithCircle
<1>4. tokenDetails' = [tokenDetails EXCEPT ![t] = tokenAfter]
  BY DEF ReceiveForeignPaymentWithCircle
<1> HIDE DEF p, t, a
<1>5. funds \in [Tokens -> Nat] /\ funds[t] = held[t] + a
  BY <1>1, <1>2
<1>6. \A x \in Tokens : funds[x] >= held[x]
  BY <1>1, <1>2
<1>7. /\ tokenAfter.totalPayableReceived = tokenDetails[t].totalPayableReceived + a
      /\ tokenAfter.totalWithdrawn = tokenDetails[t].totalWithdrawn
      /\ tokenAfter.totalWithdrawalFeesCollected
           = tokenDetails[t].totalWithdrawalFeesCollected
  <2>1. tokenDetails[t] \in TokenDetails
    BY <1>1, <1>2
  <2> QED
    BY <2>1 DEF TokenDetails
<1> HIDE DEF funds, tokenAfter
<1>8. /\ tokenDetails'[t] = tokenAfter
      /\ \A x \in Tokens \ {t} : tokenDetails'[x] = tokenDetails[x]
  BY <1>1, <1>2, <1>4
<1>9. \A x \in Tokens \ {t} : TotalsKept(x)
  BY <1>8 DEF TotalsKept
<1>10. \A x \in Tokens : tokenDetails'[x].totalWithdrawalFeesCollected
                         = tokenDetails[x].totalWithdrawalFeesCollected
  BY <1>7, <1>8
<1> QED
  BY <1>1, <1>2, <1>3, <1>5, <1>6, <1>7, <1>8, <1>9, <1>10, PaymentStep

\* A burn redeemed at Circle directly adds to the funds, whatever is under way.
LEMMA RedeemDirectlyStep ==
  ASSUME IInv, TypeOK', NEW m \in Inbound, RedeemDirectly(m)
  PROVE  IInv'
<1> DEFINE t == m.token
           a == m.amount
<1>1. t \in Tokens /\ a \in Nat /\ held \in [Tokens -> Nat] /\ TypeOK
  BY InboundAreMessages, AmountsAreNat DEF IInv, TypeOK
<1>2. /\ held' = [held EXCEPT ![t] = @ + a]
      /\ UNCHANGED <<tokenDetails, payableBalances, collected, calls>>
  BY DEF RedeemDirectly, configVars
<1> HIDE DEF t, a
<1>3. \A x \in Tokens : held[x] \in Nat /\ held'[x] \in Nat /\ held'[x] >= held[x]
  BY <1>1, <1>2
<1>4. ASSUME NEW x \in Tokens PROVE Worth(x)' >= Worth(x) /\ TotalsKept(x)
  <2>1. /\ Worth(x) = held[x] + InFlight(x) /\ Worth(x)' = held'[x] + InFlight(x)
        /\ InFlight(x) \in Int
    BY <1>1, <1>2, WorthIsInt DEF Worth, InFlight
  <2> QED
    BY <1>2, <1>3, <2>1 DEF TotalsKept
<1>5. Backed'
  BY <1>1, <1>2, <1>4, KeepBacked DEF IInv
<1>6. PayoutCanFinish'
  <2> SUFFICES ASSUME calls # <<>>
               PROVE  LET f == Head(calls) IN
                      /\ f.callee = "host" => f.fees <= held'[f.token]
                      /\ f.amount <= payableBalances[f.payable][f.token]
    BY <1>2 DEF PayoutCanFinish
  <2> DEFINE f == Head(calls)
  <2>1. f.token \in Tokens /\ f.fees \in Nat
    BY <1>1, OneFrame DEF Frame
  <2>2. /\ f.callee = "host" => f.fees <= held[f.token]
        /\ f.amount <= payableBalances[f.payable][f.token]
    BY DEF IInv, PayoutCanFinish
  <2> HIDE DEF f
  <2>3. held[f.token] \in Nat /\ held'[f.token] \in Nat /\ held'[f.token] >= held[f.token]
    BY <1>3, <2>1
  <2>4. f.callee = "host" => f.fees <= held'[f.token]
    BY <2>1, <2>2, <2>3
  <2> QED
    BY <2>2, <2>4 DEF f
<1>7. FeesAccounted'
  BY <1>2 DEF IInv, FeesAccounted
<1> QED
  BY <1>5, <1>6, <1>7 DEF IInv

\* The second transfer moves the fee from the funds to the collector.
LEMMA PayCollectorStep == ASSUME IInv, TypeOK', PayCollector PROVE IInv'
<1> DEFINE f == Head(calls)
<1>1. /\ TypeOK /\ held \in [Tokens -> Nat] /\ collected \in [Tokens -> Nat]
      /\ f \in Frame /\ Tail(calls) = <<>>
  BY OneFrame DEF IInv, TypeOK, PayCollector
<1>2. /\ calls # <<>> /\ f.callee = "host" /\ f.fees <= held[f.token]
      /\ held' = [held EXCEPT ![f.token] = @ - f.fees]
      /\ collected' = [collected EXCEPT ![f.token] = @ + f.fees]
      /\ UNCHANGED <<tokenDetails, payableBalances>>
  BY DEF PayCollector, configVars
<1>3. f.token \in Tokens /\ f.amount \in Nat /\ f.fees \in Nat
  BY <1>1 DEF Frame
<1> DEFINE g == [f EXCEPT !.callee = "collector"]
<1>4. /\ g \in Frame /\ g.callee = "collector" /\ g.token = f.token
      /\ g.amount = f.amount /\ g.fees = f.fees /\ g.payable = f.payable
  BY <1>1 DEF Frame
<1>5. calls' # <<>> /\ Head(calls') = g
  <2>1. calls' = <<g>> \o <<>>
    BY <1>1 DEF PayCollector
  <2> HIDE DEF g
  <2>2. <<g>> \o <<>> = <<g>> /\ Head(<<g>>) = g /\ Len(<<g>>) = 1
    BY <1>4, PushFrame
  <2> QED
    BY <2>1, <2>2
<1> HIDE DEF f, g
<1>6. ASSUME NEW x \in Tokens PROVE Worth(x)' >= Worth(x) /\ TotalsKept(x)
  <2>1. /\ Worth(x) = held[x] + (IF f.token = x THEN f.amount - f.fees ELSE 0)
        /\ Worth(x)' = held'[x] + (IF f.token = x THEN f.amount ELSE 0)
    BY <1>2, <1>4, <1>5 DEF Worth, InFlight, Sent, f
  <2>2. /\ held[x] \in Nat
        /\ held'[x] = IF f.token = x THEN held[x] - f.fees ELSE held[x]
    BY <1>1, <1>2, <1>3
  <2> QED
    BY <1>2, <1>3, <2>1, <2>2 DEF TotalsKept
<1>7. Backed'
  BY <1>1, <1>2, <1>6, KeepBacked DEF IInv
<1>8. PayoutCanFinish'
  BY <1>2, <1>4, <1>5 DEF IInv, PayoutCanFinish, f
<1>9. FeesAccounted'
  <2> SUFFICES ASSUME NEW x \in Tokens
               PROVE  collected'[x] = tokenDetails'[x].totalWithdrawalFeesCollected
                        + (IF f.token = x THEN f.fees ELSE 0)
    BY <1>4, <1>5 DEF FeesAccounted
  <2> DEFINE c == tokenDetails[x].totalWithdrawalFeesCollected
  <2>1. collected[x] = c + 0 /\ c \in Nat
    BY <1>1, <1>2, TotalsAreNat DEF IInv, FeesAccounted, f
  <2>2. collected'[x] = IF f.token = x THEN collected[x] + f.fees ELSE collected[x]
    BY <1>1, <1>2, <1>3
  <2>3. tokenDetails'[x].totalWithdrawalFeesCollected = c
    BY <1>2
  <2> HIDE DEF c
  <2> QED
    BY <1>3, <2>1, <2>2, <2>3
<1> QED
  BY <1>7, <1>8, <1>9 DEF IInv

\* The bookkeeping takes what was sent off the payable and off the stack.
LEMMA SettleStep == ASSUME IInv, TypeOK', SettleWithdrawal PROVE IInv'
<1>0. PICK f \in Frame : f = Head(calls)
  BY OneFrame DEF IInv, SettleWithdrawal
<1> DEFINE p == f.payable
           t == f.token
           a == f.amount
           tokenAfter == [tokenDetails[t] EXCEPT
                            !.totalWithdrawn = @ + f.amount,
                            !.totalWithdrawalFeesCollected = @ + f.fees]
<1>1. /\ TypeOK /\ held \in [Tokens -> Nat]
      /\ tokenDetails \in [Tokens -> TokenDetails]
      /\ Tail(calls) = <<>>
  BY OneFrame DEF IInv, TypeOK, SettleWithdrawal
<1>2. p \in PayableIds /\ t \in Tokens /\ a \in Nat /\ f.fees \in Nat
  BY <1>1 DEF Frame
<1>3. /\ a <= payableBalances[p][t]
      /\ payableBalances' = [payableBalances EXCEPT ![p][t] = @ - a]
  BY <1>0 DEF SettleWithdrawal, DeductBalance
<1>4. /\ calls # <<>> /\ f.callee = "collector" /\ calls' = <<>>
      /\ held' = held /\ collected' = collected
  BY <1>0, <1>1 DEF SettleWithdrawal, fundVars
<1>5. tokenDetails' = [tokenDetails EXCEPT ![t] = tokenAfter]
  BY <1>0 DEF SettleWithdrawal, WithdrawnTotals
<1>6. /\ tokenAfter.totalWithdrawn = tokenDetails[t].totalWithdrawn + a
      /\ tokenAfter.totalPayableReceived = tokenDetails[t].totalPayableReceived
      /\ tokenAfter.totalWithdrawalFeesCollected
           = tokenDetails[t].totalWithdrawalFeesCollected + f.fees
  <2>1. tokenDetails[t] \in TokenDetails
    BY <1>1, <1>2
  <2> QED
    BY <2>1 DEF TokenDetails
<1> HIDE DEF tokenAfter
<1>7. /\ tokenDetails'[t] = tokenAfter
      /\ \A x \in Tokens \ {t} : tokenDetails'[x] = tokenDetails[x]
  <2> HIDE DEF t
  <2> QED
    BY <1>1, <1>2, <1>5
<1>8. ASSUME NEW x \in Tokens
      PROVE  Worth(x)' = held[x] /\ Worth(x) = held[x] + (IF t = x THEN a ELSE 0)
  <2>1. held[x] \in Nat
    BY <1>1
  <2> QED
    BY <1>0, <1>2, <1>4, <2>1 DEF Worth, InFlight, Sent
<1> HIDE DEF p, t, a
<1>9. Worth(t)' >= Worth(t) - a
  <2>1. held[t] \in Nat
    BY <1>1, <1>2
  <2> QED
    BY <1>2, <1>8, <2>1
<1>10. \A x \in Tokens \ {t} : Worth(x)' >= Worth(x) /\ TotalsKept(x)
  <2> SUFFICES ASSUME NEW x \in Tokens \ {t}
               PROVE  Worth(x)' >= Worth(x) /\ TotalsKept(x)
    OBVIOUS
  <2>1. held[x] \in Nat
    BY <1>1
  <2> QED
    BY <1>7, <1>8, <2>1 DEF TotalsKept
<1>11. Backed'
  BY <1>1, <1>2, <1>3, <1>6, <1>7, <1>9, <1>10, DebitBacked DEF IInv
<1>12. PayoutCanFinish'
  BY <1>4 DEF PayoutCanFinish
<1>13. FeesAccounted'
  <2> SUFFICES ASSUME NEW x \in Tokens
               PROVE  collected[x] = tokenDetails'[x].totalWithdrawalFeesCollected + 0
    BY <1>4 DEF FeesAccounted
  <2> DEFINE c == tokenDetails[x].totalWithdrawalFeesCollected
  <2>1. collected[x] = c + (IF t = x THEN f.fees ELSE 0) /\ c \in Nat
    BY <1>0, <1>1, <1>4, TotalsAreNat DEF IInv, FeesAccounted, t
  <2>2. tokenDetails'[x].totalWithdrawalFeesCollected
          = IF t = x THEN c + f.fees ELSE c
    BY <1>6, <1>7
  <2> HIDE DEF c
  <2> QED
    BY <1>2, <2>1, <2>2
<1> QED
  BY <1>11, <1>12, <1>13 DEF IInv

-----------------------------------------------------------------------------
LEMMA InitBacked == Init => IInv
<1> SUFFICES ASSUME Init PROVE IInv
  OBVIOUS
<1>1. TypeOK
  BY InitType
<1>2. ASSUME NEW t \in Tokens
      PROVE  \E s \in [0..MaxPayables -> Nat] : Tally(s, t)
  <2> DEFINE s == [i \in 0..MaxPayables |-> 0]
  <2>1. s \in [0..MaxPayables -> Nat]
    OBVIOUS
  <2>2. Worth(t) = 0
    BY DEF Init, Worth, InFlight
  <2>3. tokenDetails[t].totalWithdrawn = 0 /\ tokenDetails[t].totalPayableReceived = 0
    BY DEF Init, NoToken
  <2>4. /\ MaxPayables \in Nat
        /\ \A p \in PayableIds : payableBalances[p][t] = 0 /\ s[p] = 0 /\ s[p-1] = 0
    BY BoundsAreNaturals DEF Init, PayableIds
  <2>5. RunningTotal(s, t)
    BY <2>4 DEF RunningTotal
  <2>6. s[MaxPayables] = 0
    BY <2>4
  <2>7. \A i, j \in 0..MaxPayables : s[i] <= s[j]
    OBVIOUS
  <2> HIDE DEF s
  <2>8. Tally(s, t)
    BY <2>2, <2>3, <2>5, <2>6, <2>7 DEF Tally
  <2> QED
    BY <2>1, <2>8
<1>3. Backed
  BY <1>2 DEF Backed
<1>4. PayoutCanFinish /\ FeesAccounted
  BY DEF Init, NoToken, PayoutCanFinish, FeesAccounted
<1> QED
  BY <1>1, <1>3, <1>4 DEF IInv

LEMMA StepBacked == IInv /\ [Next]_vars => IInv'
<1> SUFFICES ASSUME IInv, [Next]_vars PROVE IInv'
  OBVIOUS
<1>1. TypeOK /\ TypeOK'
  BY StepType DEF IInv
<1>2. CASE OwnerCall
  BY <1>1, <1>2, OwnerCallQuiet, QuietStep
<1>3. CASE HostCall
  <2>1. CASE \E p \in PayableIds, t \in Tokens, a \in Amounts : Withdraw(p, t, a)
    BY <1>1, <2>1, WithdrawStep
  <2>2. CASE ~ \E p \in PayableIds, t \in Tokens, a \in Amounts : Withdraw(p, t, a)
    BY <1>1, <1>3, <2>2, HostUpdateQuiet, QuietStep
  <2> QED
    BY <2>1, <2>2
<1>4. CASE PaymentCall
  <2>1. CASE \E u \in Users, p \in PayableIds, t \in Tokens, a \in Amounts :
               \E value \in {0, a} : Pay(u, p, t, a, value)
    BY <1>1, <2>1, PayStep, AmountsAreNat
  <2>2. CASE \E m \in Inbound : ReceiveForeignPaymentWithCircle(m)
    BY <1>1, <2>2, ReceiveStep
  <2>3. CASE \E m \in Inbound : RedeemDirectly(m)
    BY <1>1, <2>3, RedeemDirectlyStep
  <2> QED
    BY <1>4, <2>1, <2>2, <2>3 DEF PaymentCall
<1>5. CASE PayCollector
  BY <1>1, <1>5, PayCollectorStep
<1>6. CASE SettleWithdrawal
  BY <1>1, <1>6, SettleStep
<1>7. CASE UNCHANGED vars
  <2>1. UNCHANGED <<calls, held, collected, tokenDetails, payableBalances>>
    BY <1>7 DEF vars
  <2>2. Backed'
    BY <2>1 DEF IInv, Backed, Tally, RunningTotal, Worth, InFlight
  <2>3. PayoutCanFinish' /\ FeesAccounted'
    BY <2>1 DEF IInv, PayoutCanFinish, FeesAccounted
  <2> QED
    BY <1>1, <2>2, <2>3 DEF IInv
<1> QED
  BY <1>2, <1>3, <1>4, <1>5, <1>6, <1>7 DEF Next

LEMMA AlwaysBacked == Spec => []IInv
BY InitBacked, StepBacked, PTL DEF Spec

\* The totals of Backed lie between zero and the last one.
LEMMA BackedIsSolvent == IInv => Solvent /\ BalancesMatchTotals
<1> SUFFICES ASSUME IInv, NEW t \in Tokens
             PROVE  /\ \E s \in [0..MaxPayables -> 0..(held[t] + InFlight(t))] :
                         RunningTotal(s, t)
                    /\ \E s \in [0..MaxPayables -> 0..tokenDetails[t].totalPayableReceived] :
                         /\ RunningTotal(s, t)
                         /\ s[MaxPayables] + tokenDetails[t].totalWithdrawn
                              = tokenDetails[t].totalPayableReceived
  BY DEF Solvent, BalancesMatchTotals
<1>1. PICK s \in [0..MaxPayables -> Nat] : Tally(s, t)
  BY DEF IInv, Backed
<1> DEFINE top == s[MaxPayables]
           worth == held[t] + InFlight(t)
           received == tokenDetails[t].totalPayableReceived
           withdrawn == tokenDetails[t].totalWithdrawn
<1>2. MaxPayables \in 0..MaxPayables /\ MaxPayables \in Nat /\ top \in Nat
  BY BoundsAreNaturals
<1>3. worth \in Int /\ received \in Nat /\ withdrawn \in Nat
  BY WorthIsInt, TotalsAreNat DEF IInv
<1>4. top <= worth /\ top + withdrawn = received
  BY <1>1 DEF Tally, Worth
<1>5. \A i \in 0..MaxPayables : s[i] \in Nat /\ s[i] <= top
  BY <1>1, <1>2 DEF Tally
<1> HIDE DEF top, worth, received, withdrawn
<1>6. \A i \in 0..MaxPayables : s[i] \in 0..worth /\ s[i] \in 0..received
  BY <1>2, <1>3, <1>4, <1>5
<1>7. s \in [0..MaxPayables -> 0..worth] /\ s \in [0..MaxPayables -> 0..received]
  BY <1>6
<1>8. RunningTotal(s, t)
  BY <1>1 DEF Tally
<1> QED
  BY <1>4, <1>7, <1>8 DEF top, worth, received, withdrawn

\* The contract can always pay every payable in full (CbTransactions.sol:
\* _recordPayablePayment, _actualizeWithdrawal), in every token.
THEOREM AlwaysSolvent == Spec => []Solvent
BY AlwaysBacked, BackedIsSolvent, PTL

\* A withdrawal that has paid its host is never stuck for lack of funds or
\* balance: the steps of _actualizeWithdrawal that remain can be taken.
THEOREM PayoutsCanFinish == Spec => []PayoutCanFinish
<1>1. IInv => PayoutCanFinish
  BY DEF IInv
<1> QED
  BY <1>1, AlwaysBacked, PTL

\* The totals of CbState never drift from the payables' balances, nor from the
\* fees that left.
THEOREM TotalsNeverDrift == Spec => []TotalsAreTrue
<1>1. IInv => TotalsAreTrue
  BY BackedIsSolvent DEF IInv, TotalsAreTrue
<1> QED
  BY <1>1, AlwaysBacked, PTL

-----------------------------------------------------------------------------
(* Withdrawing at any time.  Only initialize can bring a percentage above   *)
(* 100 %, so one there now is the one given then.                           *)

PercentageKnown ==
  config.withdrawalFeePercentage > 10000 =>
    config.withdrawalFeePercentage \in InitialFeePercents

LEMMA PercentageStep ==
  ASSUME TypeOK, PercentageKnown, [Next]_vars PROVE PercentageKnown'
<1>1. config \in Config
  BY DEF TypeOK
<1>2. CASE config' = config
  BY <1>2 DEF PercentageKnown
<1>3. CASE OwnerCall
  <2>1. CASE Pause
    BY <1>1, <2>1 DEF Pause, PercentageKnown, Config
  <2>2. CASE Unpause
    BY <1>1, <2>2 DEF Unpause, PercentageKnown, Config
  <2>3. ASSUME NEW f \in FeePercents, SetWithdrawalFeePercentage(f)
        PROVE  PercentageKnown'
    <3>1. f <= 10000
      BY <2>3 DEF SetWithdrawalFeePercentage, ValidFeePercentage
    <3>2. config' = [config EXCEPT !.withdrawalFeePercentage = f]
      BY <2>3 DEF SetWithdrawalFeePercentage
    <3>3. config'.withdrawalFeePercentage = f
      BY <1>1, <3>2 DEF Config
    <3>4. f \in Nat
      BY FeesAreNumbers, Uint16IsNat
    <3>5. ~ config'.withdrawalFeePercentage > 10000
      BY <3>1, <3>3, <3>4
    <3> QED
      BY <3>5 DEF PercentageKnown
  <2>4. ASSUME NEW c \in FeeCollectors, SetFeeCollectorAddress(c)
        PROVE  PercentageKnown'
    BY <1>1, <2>4 DEF SetFeeCollectorAddress, PercentageKnown, Config
  <2>5. CASE \/ \E t \in Tokens, c \in FeeCaps : UpdateMaxWithdrawalFees(t, c)
             \/ \E t \in Tokens : AllowPaymentsForToken(t)
             \/ \E t \in Tokens : StopPaymentsForToken(t)
    BY <1>2, <2>5 DEF UpdateMaxWithdrawalFees, AllowPaymentsForToken,
                      StopPaymentsForToken, UpdateTokenDetails
  <2> QED
    BY <1>3, <2>1, <2>2, <2>3, <2>4, <2>5 DEF OwnerCall
<1>4. CASE HostCall
  <2>1. config' = config
    BY <1>4 DEF HostCall, CreatePayable, ClosePayable, ReopenPayable,
                UpdatePayableAllowedTokensAndAmounts, UpdatePayableAutoWithdraw,
                RecordUpdatePayableActivity, Withdraw, configVars
  <2> QED
    BY <1>2, <2>1
<1>5. CASE PaymentCall
  <2>1. config' = config
    <3>1. ASSUME NEW u \in Users, NEW p \in PayableIds, NEW t \in Tokens,
                 NEW a \in Amounts, NEW v \in {0, a}, Pay(u, p, t, a, v)
          PROVE  config' = config
      BY <3>1 DEF Pay
    <3>2. ASSUME NEW m \in Inbound, ReceiveForeignPaymentWithCircle(m)
          PROVE  config' = config
      BY <3>2 DEF ReceiveForeignPaymentWithCircle
    <3>3. ASSUME NEW m \in Inbound, RedeemDirectly(m) PROVE config' = config
      BY <3>3 DEF RedeemDirectly, configVars
    <3> QED
      BY <1>5, <3>1, <3>2, <3>3 DEF PaymentCall
  <2> QED
    BY <1>2, <2>1
<1>6. CASE PayCollector \/ SettleWithdrawal
  <2>1. config' = config
    BY <1>6 DEF PayCollector, SettleWithdrawal, configVars
  <2> QED
    BY <1>2, <2>1
<1>7. CASE UNCHANGED vars
  BY <1>2, <1>7 DEF vars, configVars
<1> QED
  BY <1>3, <1>4, <1>5, <1>6, <1>7 DEF Next

LEMMA FeesAtMostAll ==
  ASSUME TypeOK, NEW t \in Tokens, NEW a \in Nat,
         \/ ~ config.withdrawalFeePercentage > 10000
         \/ ~ tokenDetails[t].maxWithdrawalFees > a
  PROVE  Fees(t, a) <= a
<1> DEFINE w == config.withdrawalFeePercentage
           c == tokenDetails[t].maxWithdrawalFees
<1>1. w \in Nat
  <2>1. config.withdrawalFeePercentage \in uint16
    BY DEF TypeOK, Config
  <2>2. config.withdrawalFeePercentage \in Nat
    BY <2>1, Uint16IsNat
  <2> QED
    BY <2>2
<1>2. c \in Nat
  <2>1. tokenDetails[t] \in TokenDetails
    BY DEF TypeOK
  <2> QED
    BY <2>1 DEF TokenDetails
<1>3. Fees(t, a) = IF (a * w) \div 10000 > c THEN c ELSE (a * w) \div 10000
  BY DEF Fees
<1>4. ~ w > 10000 \/ ~ c > a
  OBVIOUS
<1> HIDE DEF w, c
<1>5. CASE ~ c > a
  <2> DEFINE d == (a * w) \div 10000
  <2>1. a * w \in Nat
    BY <1>1
  <2>2. d \in Nat
    BY <2>1
  <2>3. Fees(t, a) = IF d > c THEN c ELSE d
    BY <1>3
  <2> HIDE DEF d
  <2> QED
    BY <1>2, <1>5, <2>2, <2>3
<1>6. CASE ~ w > 10000
  <2>1. a * w \in Nat /\ a * w <= a * 10000
    BY <1>1, <1>6
  <2>2. (a * w) \div 10000 <= a
    <3> DEFINE x == a * w
    <3>1. x \in Nat /\ x <= a * 10000
      BY <2>1
    <3> HIDE DEF x
    <3>2. x \div 10000 <= a
      BY <3>1
    <3> QED
      BY <3>2 DEF x
  <2> DEFINE d == (a * w) \div 10000
  <2>3. d \in Nat /\ d <= a /\ Fees(t, a) = IF d > c THEN c ELSE d
    BY <1>3, <2>1, <2>2
  <2> HIDE DEF d
  <2> QED
    BY <1>2, <2>3
<1> QED
  BY <1>4, <1>5, <1>6

\* One of the balances is no more than the sum of all.
LEMMA BalanceIsHeld ==
  ASSUME IInv, calls = <<>>, NEW p \in PayableIds, NEW t \in Tokens
  PROVE  payableBalances[p][t] <= held[t]
<1>1. PICK s \in [0..MaxPayables -> Nat] : Tally(s, t)
  BY DEF IInv, Backed
<1> DEFINE b == payableBalances[p][t]
           h == held[t]
<1>2. b \in Nat /\ h \in Nat /\ Worth(t) = h
  BY WorthIdle DEF IInv, TypeOK
<1>3. /\ p \in 0..MaxPayables /\ p - 1 \in 0..MaxPayables
      /\ MaxPayables \in 0..MaxPayables /\ p <= MaxPayables
  BY BoundsAreNaturals DEF PayableIds
<1>4. /\ s[p] \in Nat /\ s[p-1] \in Nat /\ s[MaxPayables] \in Nat
      /\ s[p] = s[p-1] + b
      /\ s[p] <= s[MaxPayables]
  BY <1>1, <1>3 DEF Tally, RunningTotal
<1>5. s[MaxPayables] <= h
  BY <1>1, <1>2 DEF Tally
<1> HIDE DEF b, h
<1>6. b <= h
  BY <1>2, <1>4, <1>5
<1> QED
  BY <1>6 DEF b, h

\* "can withdraw at anytime" (README.md), for any number of payables and tokens
\* and any settings: CbTransactions.withdraw reverts for want of funds, an
\* underflow or a missing collector only while the percentage initialize was
\* given is above 100 % and the token's cap above the amount, or while the owner
\* has the collector unset and the token is no native currency.
THEOREM HostsCanAlwaysWithdraw == Spec => []HostsCanWithdraw
<1>1. Init => PercentageKnown
  BY DEF Init, PercentageKnown
<1>2. IInv /\ PercentageKnown /\ [Next]_vars => PercentageKnown'
  BY PercentageStep DEF IInv
<1>3. IInv /\ PercentageKnown => HostsCanWithdraw
  <2> SUFFICES ASSUME IInv, PercentageKnown, Entered,
                      NEW p \in PayableIds, NEW t \in Tokens,
                      NEW a \in 1..payableBalances[p][t],
                      ~CollectorUnset(t), ~FeeAboveAll(t, a)
               PROVE  PayoutCommits(t, a, held)
    BY DEF HostsCanWithdraw
  <2>1. calls = <<>> /\ TypeOK
    BY DEF Entered, NonReentrant, IInv
  <2>2. payableBalances[p][t] \in Nat /\ held[t] \in Nat
    BY <2>1 DEF TypeOK
  <2>3. a \in Nat /\ a <= payableBalances[p][t]
    BY <2>2
  <2>4. \/ ~ config.withdrawalFeePercentage > 10000
        \/ ~ tokenDetails[t].maxWithdrawalFees > a
    BY DEF PercentageKnown, FeeAboveAll
  <2>5. Fees(t, a) <= a
    BY <2>1, <2>3, <2>4, FeesAtMostAll
  <2>6. payableBalances[p][t] <= held[t]
    BY <2>1, BalanceIsHeld
  <2>7. a <= held[t]
    BY <2>2, <2>3, <2>6
  <2> QED
    BY <2>5, <2>7 DEF PayoutCommits, CollectorUnset
<1> QED
  BY <1>1, <1>2, <1>3, AlwaysBacked, PTL DEF Spec

-----------------------------------------------------------------------------
(* Refinement.  Between transactions the mapping is the identity           *)
(* (IdleMapping); while a withdrawal is under way it takes what remains of *)
(* it as done (PayHostMapping), so that paying the host is the atomic      *)
(* payout and the two steps after it are stutters.  The one fact about the *)
(* ledger the steps need beyond its types is that a payable has a host     *)
(* exactly when it is among the first payablesCount (HostsMatch).          *)

HostsMatch ==
  \A p \in PayableIds : Exists(p) <=> p <= chainStats.payablesCount

EInv == TypeOK /\ HostsMatch

-----------------------------------------------------------------------------
(* HostsMatch is inductive. *)

HostsKept == \A p \in PayableIds : payables'[p].host = payables[p].host

LEMMA KeepHosts ==
  ASSUME HostsMatch, HostsKept,
         chainStats'.payablesCount = chainStats.payablesCount
  PROVE  HostsMatch' /\ EscrowHost' = EscrowHost
BY DEF HostsMatch, HostsKept, Exists, EscrowHost

LEMMA CreateHosts ==
  ASSUME EInv, NEW u \in Users, NEW l \in AllowedLists, NEW b \in BOOLEAN,
         CreatePayable(u, l, b)
  PROVE  LET p == chainStats.payablesCount + 1 IN
         /\ HostsMatch'
         /\ p \in PayableIds
         /\ EscrowHost[p] = NoAddress
         /\ EscrowHost' = [EscrowHost EXCEPT ![p] = u]
<1> DEFINE p == chainStats.payablesCount + 1
           r == [NoPayable EXCEPT !.host = u, !.isAutoWithdraw = b,
                                  !.allowed = l, !.activitiesCount = 1]
<1>1. chainStats \in ChainStats /\ payables \in [PayableIds -> Payable]
  BY DEF EInv, TypeOK
<1>2. chainStats.payablesCount \in 0..MaxPayables /\ p <= MaxPayables
  BY <1>1 DEF ChainStats, CreatePayable
<1>3. p \in PayableIds /\ p \in Nat
  BY <1>2, BoundsAreNaturals DEF PayableIds
<1>4. payables' = [payables EXCEPT ![p] = r]
  BY DEF CreatePayable
<1>5. chainStats'.payablesCount = p
  BY <1>1 DEF CreatePayable, ChainStats
<1>6. r.host = u /\ u # NoAddress
  BY NoAddressIsNoUser DEF NoPayable
<1> HIDE DEF r
<1>7. ~ Exists(p)
  BY <1>2, <1>3 DEF EInv, HostsMatch
<1>8. ASSUME NEW q \in PayableIds
      PROVE  payables'[q].host = IF q = p THEN u ELSE payables[q].host
  BY <1>1, <1>3, <1>4, <1>6
<1>9. HostsMatch'
  <2> SUFFICES ASSUME NEW q \in PayableIds
               PROVE  payables'[q].host # NoAddress <=> q <= p
    BY <1>5 DEF HostsMatch, Exists
  <2>1. q \in Nat /\ (payables[q].host # NoAddress <=> q <= chainStats.payablesCount)
    BY DEF EInv, HostsMatch, Exists, PayableIds
  <2> QED
    BY <1>2, <1>6, <1>8, <2>1
<1>10. EscrowHost' = [EscrowHost EXCEPT ![p] = u]
  BY <1>8 DEF EscrowHost
<1> QED
  BY <1>3, <1>7, <1>9, <1>10 DEF EscrowHost, Exists

LEMMA UpdateHosts ==
  ASSUME EInv, NEW p \in PayableIds, NEW updated \in Payable,
         updated.host = payables[p].host,
         RecordUpdatePayableActivity(p, updated)
  PROVE  HostsMatch' /\ EscrowHost' = EscrowHost
<1>1. chainStats \in ChainStats /\ payables \in [PayableIds -> Payable]
  BY DEF EInv, TypeOK
<1>2. [updated EXCEPT !.activitiesCount = @ + 1].host = payables[p].host
  BY DEF Payable
<1>3. HostsKept
  BY <1>1, <1>2 DEF HostsKept, RecordUpdatePayableActivity
<1>4. chainStats'.payablesCount = chainStats.payablesCount
  BY <1>1 DEF RecordUpdatePayableActivity, ChainStats
<1> QED
  BY <1>3, <1>4, KeepHosts DEF EInv

LEMMA CreditHosts ==
  ASSUME TypeOK, NEW p \in PayableIds, NEW t \in Tokens, NEW a \in Nat,
         CreditPayable(p, t, a)
  PROVE  HostsKept
<1> DEFINE r == [payables[p] EXCEPT !.paymentsCount = @ + 1]
           n == payables[p].activitiesCount + 1
<1>1. payables \in [PayableIds -> Payable]
  BY DEF TypeOK
<1>2. r \in Payable /\ r.host = payables[p].host
  BY <1>1 DEF Payable
<1>3. payables' = [payables EXCEPT ![p] = [r EXCEPT !.activitiesCount = n]]
  BY <1>1 DEF CreditPayable, Payable
<1> HIDE DEF r, n
<1>4. [r EXCEPT !.activitiesCount = n].host = payables[p].host
  BY <1>2 DEF Payable
<1> QED
  BY <1>1, <1>3, <1>4 DEF HostsKept

LEMMA SettleHosts == ASSUME TypeOK, SettleWithdrawal PROVE HostsKept
<1>1. payables \in [PayableIds -> Payable] /\ Head(calls) \in Frame
  BY OneFrame DEF TypeOK, SettleWithdrawal
<1>2. PICK p \in PayableIds : p = Head(calls).payable
  BY <1>1 DEF Frame
<1> DEFINE r == [payables[p] EXCEPT !.withdrawalsCount = @ + 1]
<1>3. r \in Payable /\ r.host = payables[p].host
  BY <1>1 DEF Payable
<1>4. payables' = [payables EXCEPT ![p] = [r EXCEPT !.activitiesCount = @ + 1]]
  BY <1>1, <1>2 DEF SettleWithdrawal, Payable
<1> HIDE DEF r
<1>5. [r EXCEPT !.activitiesCount = @ + 1].host = payables[p].host
  BY <1>3 DEF Payable
<1> QED
  BY <1>1, <1>4, <1>5 DEF HostsKept

-----------------------------------------------------------------------------
(* The mapping, between transactions and while a withdrawal is under way. *)

LEMMA IdleMapping ==
  TypeOK /\ calls = <<>> =>
    /\ EscrowOwed = payableBalances
    /\ EscrowVault = held
    /\ EscrowCollected = collected
<1> SUFFICES ASSUME TypeOK, calls = <<>>
             PROVE  /\ EscrowOwed = payableBalances
                    /\ EscrowVault = held
                    /\ EscrowCollected = collected
  OBVIOUS
<1>1. /\ payableBalances \in [PayableIds -> [Tokens -> Nat]]
      /\ held \in [Tokens -> Nat] /\ collected \in [Tokens -> Nat]
  BY DEF TypeOK
<1>2. \A t \in Tokens : FeeToSend(t) = 0 /\ \A p \in PayableIds : ToDeduct(p, t) = 0
  BY DEF ToDeduct, FeeToSend
<1>3. EscrowOwed = payableBalances
  <2> DEFINE o == EscrowOwed
             b == payableBalances
  <2>1. o = [p \in PayableIds |-> o[p]] /\ b = [p \in PayableIds |-> b[p]]
    BY <1>1 DEF EscrowOwed
  <2>2. ASSUME NEW p \in PayableIds PROVE o[p] = b[p]
    BY <1>1, <1>2 DEF EscrowOwed
  <2> HIDE DEF o, b
  <2>3. o = b
    BY <2>1, <2>2
  <2> QED
    BY <2>3 DEF o, b
<1>4. ASSUME NEW t \in Tokens
      PROVE  held[t] - FeeToSend(t) = held[t] /\ collected[t] + FeeToSend(t) = collected[t]
  BY <1>1, <1>2
<1>5. EscrowVault = held
  BY <1>1, <1>4 DEF EscrowVault
<1>6. EscrowCollected = collected
  BY <1>1, <1>4 DEF EscrowCollected
<1> QED
  BY <1>3, <1>5, <1>6

LEMMA IdleMappingNext ==
  (TypeOK /\ calls = <<>>)' => (/\ EscrowOwed = payableBalances
                               /\ EscrowVault = held
                               /\ EscrowCollected = collected)'
BY IdleMapping, PTL

\* What the escrow sees of a payout that begins with these funds.
PaidOut(p, t, a, fee, funds) ==
  /\ EscrowOwed' = [payableBalances' EXCEPT ![p][t] = @ - a]
  /\ EscrowVault' = [funds EXCEPT ![t] = @ - a]
  /\ EscrowCollected' = [collected EXCEPT ![t] = @ + fee]
  /\ earned' = [earned EXCEPT ![payables[p].host][t] = @ + (a - fee)]

\* Paying the host of p takes a off p and off the funds at once.
LEMMA PayHostMapping ==
  ASSUME TypeOK, TypeOK', calls = <<>>,
         NEW p \in PayableIds, NEW t \in Tokens, NEW a \in Nat,
         NEW funds \in [Tokens -> Nat],
         PayHost(p, t, a, funds)
  PROVE  Fees(t, a) \in 0..a /\ PaidOut(p, t, a, Fees(t, a), funds)
<1> DEFINE f == [payable |-> p, token |-> t, amount |-> a,
                 fees |-> Fees(t, a), callee |-> "host"]
<1>1. Fees(t, a) \in Nat /\ Fees(t, a) <= a
  BY FeesAreNat DEF PayHost, PayoutCommits
<1>2. f \in Frame
  BY <1>1 DEF Frame
<1>3. calls' # <<>> /\ Head(calls') = f
  BY <1>2, PushFrame DEF PayHost
<1>4. /\ payableBalances' \in [PayableIds -> [Tokens -> Nat]]
      /\ collected \in [Tokens -> Nat] /\ collected' = collected
  BY DEF TypeOK, PayHost
<1>5. held' = [funds EXCEPT ![t] = funds[t] - (a - Fees(t, a))]
  BY DEF PayHost, AmountDue
<1>6. EscrowOwed' = [payableBalances' EXCEPT ![p][t] = @ - a]
  <2>1. \A q \in PayableIds, x \in Tokens :
          ToDeduct(q, x)' = IF q = p /\ x = t THEN a ELSE 0
    BY <1>3 DEF ToDeduct
  <2> DEFINE o == EscrowOwed'
             b == payableBalances'
             row == [b[p] EXCEPT ![t] = b[p][t] - a]
  <2>2. o = [q \in PayableIds |-> o[q]] /\ b \in [PayableIds -> [Tokens -> Nat]]
    BY <1>4 DEF EscrowOwed
  <2>3. ASSUME NEW q \in PayableIds, q # p PROVE o[q] = b[q]
    BY <1>4, <2>1, <2>3 DEF EscrowOwed
  <2>4. o[p] = row
    <3>1. o[p] = [x \in Tokens |-> b[p][x] - ToDeduct(p, x)']
      BY DEF EscrowOwed
    <3>2. ASSUME NEW x \in Tokens
          PROVE  b[p][x] - ToDeduct(p, x)' = IF x = t THEN b[p][t] - a ELSE b[p][x]
      BY <1>4, <2>1
    <3>3. b[p] \in [Tokens -> Nat]
      BY <1>4
    <3> QED
      BY <3>1, <3>2, <3>3
  <2> HIDE DEF o, b, row
  <2>5. o = [b EXCEPT ![p] = row]
    BY <2>2, <2>3, <2>4
  <2> QED
    BY <2>5 DEF o, b, row
<1>7. \A x \in Tokens : FeeToSend(x)' = IF x = t THEN Fees(t, a) ELSE 0
  BY <1>3 DEF FeeToSend
<1>8. EscrowVault' = [funds EXCEPT ![t] = @ - a]
  <2>1. ASSUME NEW x \in Tokens
        PROVE  held'[x] - FeeToSend(x)' = IF x = t THEN funds[x] - a ELSE funds[x]
    BY <1>1, <1>5, <1>7
  <2>2. EscrowVault' = [x \in Tokens |-> IF x = t THEN funds[x] - a ELSE funds[x]]
    BY <2>1 DEF EscrowVault
  <2> QED
    BY <2>2
<1>9. EscrowCollected' = [collected EXCEPT ![t] = @ + Fees(t, a)]
  <2>1. ASSUME NEW x \in Tokens
        PROVE  collected'[x] + FeeToSend(x)'
                 = IF x = t THEN collected[x] + Fees(t, a) ELSE collected[x]
    BY <1>1, <1>4, <1>7
  <2>2. EscrowCollected' = [x \in Tokens |-> IF x = t THEN collected[x] + Fees(t, a)
                                              ELSE collected[x]]
    BY <2>1 DEF EscrowCollected
  <2> QED
    BY <1>4, <2>2
<1>10. earned' = [earned EXCEPT ![payables[p].host][t] = @ + (a - Fees(t, a))]
  BY DEF PayHost, AmountDue
<1> QED
  BY <1>1, <1>6, <1>8, <1>9, <1>10 DEF PaidOut

-----------------------------------------------------------------------------
(* Every step of the ledger is a step of the escrow, or a stutter. *)

LEMMA InitEscrow == Init => EInv /\ E!Init
<1> SUFFICES ASSUME Init PROVE EInv /\ E!Init
  OBVIOUS
<1>1. TypeOK /\ calls = <<>>
  BY InitType DEF Init
<1>2. /\ EscrowOwed = payableBalances
      /\ EscrowVault = held
      /\ EscrowCollected = collected
  BY <1>1, IdleMapping
<1>3. HostsMatch
  BY DEF Init, HostsMatch, Exists, NoPayable, NoStats, PayableIds
<1>4. EscrowHost = [p \in PayableIds |-> NoAddress]
  BY DEF Init, EscrowHost, NoPayable
<1>5. E!Init
  BY <1>2, <1>4 DEF Init, E!Init
<1> QED
  BY <1>1, <1>3, <1>5 DEF EInv

LEMMA IdleStutter ==
  ASSUME TypeOK, TypeOK', calls = <<>>, EscrowHost' = EscrowHost,
         UNCHANGED <<payableBalances, held, earned, collected, calls>>
  PROVE  UNCHANGED E!vars
BY IdleMapping, IdleMappingNext DEF E!vars

LEMMA OwnerCallEscrow ==
  ASSUME EInv, TypeOK', OwnerCall
  PROVE  HostsMatch' /\ UNCHANGED E!vars
<1>1. /\ calls = <<>>
      /\ UNCHANGED <<chainStats, payables, payableBalances, held, earned,
                     collected, calls>>
  BY DEF OwnerCall, Pause, Unpause, SetWithdrawalFeePercentage,
         SetFeeCollectorAddress, UpdateMaxWithdrawalFees, UpdateTokenDetails,
         AllowPaymentsForToken, StopPaymentsForToken, Entered, NonReentrant,
         fundVars
<1>2. HostsMatch' /\ EscrowHost' = EscrowHost
  BY <1>1, KeepHosts DEF HostsKept, EInv
<1> QED
  BY <1>1, <1>2, IdleStutter DEF EInv

LEMMA CreatePayableEscrow ==
  ASSUME EInv, TypeOK', NEW u \in Users, NEW l \in AllowedLists, NEW b \in BOOLEAN,
         CreatePayable(u, l, b)
  PROVE  HostsMatch' /\ E!Next
<1>1. PICK p \in PayableIds : /\ EscrowHost[p] = NoAddress
                              /\ EscrowHost' = [EscrowHost EXCEPT ![p] = u]
  BY CreateHosts
<1>2. /\ calls = <<>> /\ calls' = <<>>
      /\ UNCHANGED <<payableBalances, held, earned, collected>>
  BY DEF CreatePayable, Entered, NonReentrant, fundVars
<1>3. UNCHANGED <<EscrowOwed, EscrowVault, earned, EscrowCollected>>
  BY <1>2, IdleMapping, IdleMappingNext DEF EInv
<1>4. E!Open(p, u)
  BY <1>1, <1>3 DEF E!Open
<1> QED
  BY <1>4, CreateHosts DEF E!Next

LEMMA UpdateEscrow ==
  ASSUME EInv, TypeOK', NEW p \in PayableIds, NEW updated \in Payable,
         updated.host = payables[p].host, calls = <<>>,
         RecordUpdatePayableActivity(p, updated)
  PROVE  HostsMatch' /\ UNCHANGED E!vars
<1>1. UNCHANGED <<payableBalances, held, earned, collected, calls>>
  BY DEF RecordUpdatePayableActivity, fundVars
<1> QED
  BY <1>1, UpdateHosts, IdleStutter DEF EInv

LEMMA WithdrawEscrow ==
  ASSUME EInv, TypeOK', NEW p \in PayableIds, NEW t \in Tokens, NEW a \in Amounts,
         Withdraw(p, t, a)
  PROVE  HostsMatch' /\ E!Next
<1>1. /\ TypeOK /\ a \in Nat /\ calls = <<>> /\ held \in [Tokens -> Nat]
      /\ Exists(p) /\ a <= payableBalances[p][t]
      /\ PayHost(p, t, a, held)
      /\ UNCHANGED <<chainStats, payables, payableBalances>>
  BY AmountsAreNat
  DEF EInv, TypeOK, Withdraw, Entered, NonReentrant, HasBalance
<1>2. HostsMatch' /\ EscrowHost' = EscrowHost
  BY <1>1, KeepHosts DEF HostsKept, EInv
<1>3. /\ EscrowOwed = payableBalances
      /\ EscrowVault = held
      /\ EscrowCollected = collected
  BY <1>1, IdleMapping
<1>4. Fees(t, a) \in 0..a /\ PaidOut(p, t, a, Fees(t, a), held)
  BY <1>1, PayHostMapping
<1>5. EscrowHost[p] = payables[p].host /\ EscrowHost[p] # NoAddress
  BY <1>1 DEF EscrowHost, Exists
<1>6. E!Share(p, t, a, Fees(t, a))
  BY <1>3, <1>4, <1>5 DEF PaidOut, E!Share
<1>7. E!PayOut(p, t, a)
  BY <1>1, <1>2, <1>3, <1>4, <1>5, <1>6 DEF PaidOut, E!PayOut
<1> QED
  BY <1>2, <1>7 DEF E!Next

LEMMA HostCallEscrow ==
  ASSUME EInv, TypeOK', HostCall
  PROVE  HostsMatch' /\ (E!Next \/ UNCHANGED E!vars)
<1>1. payables \in [PayableIds -> Payable]
  BY DEF EInv, TypeOK
<1> USE DEF Entered, NonReentrant
<1>2. CASE \E u \in Users, l \in AllowedLists, b \in BOOLEAN : CreatePayable(u, l, b)
  BY <1>2, CreatePayableEscrow
<1>3. CASE \E p \in PayableIds : ClosePayable(p)
  BY <1>1, <1>3, UpdateEscrow DEF ClosePayable, Payable
<1>4. CASE \E p \in PayableIds : ReopenPayable(p)
  BY <1>1, <1>4, UpdateEscrow DEF ReopenPayable, Payable
<1>5. CASE \E p \in PayableIds, l \in AllowedLists :
             UpdatePayableAllowedTokensAndAmounts(p, l)
  BY <1>1, <1>5, UpdateEscrow DEF UpdatePayableAllowedTokensAndAmounts, Payable
<1>6. CASE \E p \in PayableIds, b \in BOOLEAN : UpdatePayableAutoWithdraw(p, b)
  BY <1>1, <1>6, UpdateEscrow DEF UpdatePayableAutoWithdraw, Payable
<1>7. CASE \E p \in PayableIds, t \in Tokens, a \in Amounts : Withdraw(p, t, a)
  BY <1>7, WithdrawEscrow
<1> QED
  BY <1>2, <1>3, <1>4, <1>5, <1>6, <1>7 DEF HostCall

\* The funds after a deposit of a in t, with stray native currency.
Deposited(t, a, stray) ==
  [x \in Tokens |-> IF x = t THEN held[x] + a
                    ELSE IF x = Native THEN held[x] + stray
                    ELSE held[x]]

LEMMA PaymentEscrow ==
  ASSUME TypeOK, TypeOK', calls = <<>>, EscrowHost' = EscrowHost,
         NEW p \in PayableIds, NEW t \in Tokens, NEW a \in Amounts,
         NEW stray \in {0, a}, Exists(p), CreditPayable(p, t, a),
         KeepOrPayOut(p, t, a, Deposited(t, a, stray))
  PROVE  E!Next
<1> DEFINE funds == Deposited(t, a, stray)
           fee == Fees(t, a)
<1>1. a \in Nat /\ held \in [Tokens -> Nat] /\ stray \in Nat
  BY AmountsAreNat DEF TypeOK
<1>2. /\ EscrowOwed = payableBalances
      /\ EscrowVault = held
      /\ EscrowCollected = collected
  BY IdleMapping
<1>3. EscrowHost[p] = payables[p].host /\ EscrowHost[p] # NoAddress
  BY DEF EscrowHost, Exists
<1>4. payableBalances' = [payableBalances EXCEPT ![p][t] = @ + a]
  BY DEF CreditPayable
<1>5. CASE held' = funds /\ UNCHANGED <<earned, collected, calls>>
  <2>1. /\ EscrowOwed' = payableBalances'
        /\ EscrowVault' = funds
        /\ EscrowCollected' = collected
    BY <1>5, IdleMappingNext
  <2>2. E!Deposit(p, t, a, stray)
    BY <1>2, <1>3, <1>4, <1>5, <2>1 DEF Deposited, E!Deposit
  <2> QED
    BY <2>2 DEF E!Next
<1>6. CASE PayHost(p, t, a, funds)
  <2>1. funds \in [Tokens -> Nat]
    BY <1>1 DEF Deposited
  <2>2. fee \in 0..a /\ PaidOut(p, t, a, fee, funds)
    BY <1>1, <1>6, <2>1, PayHostMapping
  <2> HIDE DEF fee
  <2>3. EscrowOwed' = EscrowOwed
    <3> DEFINE b == payableBalances
               row == [b[p] EXCEPT ![t] = b[p][t] + a]
               c == [b EXCEPT ![p] = row]
    <3>1. b \in [PayableIds -> [Tokens -> Nat]]
      BY DEF TypeOK
    <3>2. EscrowOwed' = [c EXCEPT ![p] = [c[p] EXCEPT ![t] = c[p][t] - a]] /\ c[p] = row
      BY <1>4, <2>2, <3>1 DEF PaidOut
    <3>3. [row EXCEPT ![t] = row[t] - a] = b[p]
      <4>1. ASSUME NEW x \in Tokens
            PROVE  [row EXCEPT ![t] = row[t] - a][x] = b[p][x]
        BY <1>1, <3>1
      <4>2. b[p] \in [Tokens -> Nat]
        BY <3>1
      <4> QED
        BY <4>1, <4>2
    <3> HIDE DEF row
    <3>4. EscrowOwed' = b
      BY <3>1, <3>2, <3>3
    <3> QED
      BY <1>2, <3>4
  <2>4. EscrowVault' = [x \in Tokens |-> IF x # t /\ x = Native THEN held[x] + stray
                                         ELSE held[x]]
    <3> DEFINE v == EscrowVault'
    <3>1. v = [funds EXCEPT ![t] = funds[t] - a]
      BY <2>2 DEF PaidOut
    <3>2. ASSUME NEW x \in Tokens
          PROVE  v[x] = IF x # t /\ x = Native THEN held[x] + stray ELSE held[x]
      BY <1>1, <2>1, <3>1 DEF Deposited
    <3>3. v = [x \in Tokens |-> v[x]]
      BY <2>1, <3>1
    <3> HIDE DEF v
    <3>4. v = [x \in Tokens |-> IF x # t /\ x = Native THEN held[x] + stray ELSE held[x]]
      BY <3>2, <3>3
    <3> QED
      BY <3>4 DEF v
  <2>5. E!Share(p, t, a, fee)
    BY <1>2, <1>3, <2>2 DEF PaidOut, E!Share
  <2>6. E!PassThrough(p, t, a, stray)
    BY <1>2, <1>3, <2>2, <2>3, <2>4, <2>5 DEF E!PassThrough
  <2> QED
    BY <2>6 DEF E!Next
<1> QED
  BY <1>5, <1>6 DEF KeepOrPayOut

LEMMA PayEscrow ==
  ASSUME EInv, TypeOK', NEW u \in Users, NEW p \in PayableIds, NEW t \in Tokens,
         NEW a \in Amounts, NEW value \in {0, a}, Pay(u, p, t, a, value)
  PROVE  HostsMatch' /\ E!Next
<1>1. /\ calls = <<>> /\ Exists(p) /\ CreditPayable(p, t, a)
      /\ KeepOrPayOut(p, t, a, Deposited(t, a, value))
  BY DEF Pay, Entered, NonReentrant, Deposited
<1>2. chainStats'.payablesCount = chainStats.payablesCount
  <2>1. chainStats \in ChainStats
    BY DEF EInv, TypeOK
  <2> QED
    BY <2>1 DEF Pay, ChainStats
<1>3. HostsMatch' /\ EscrowHost' = EscrowHost
  BY <1>1, <1>2, AmountsAreNat, CreditHosts, KeepHosts DEF EInv
<1> QED
  BY <1>1, <1>3, PaymentEscrow DEF EInv

LEMMA ReceiveEscrow ==
  ASSUME EInv, TypeOK', NEW m \in Inbound, ReceiveForeignPaymentWithCircle(m)
  PROVE  HostsMatch' /\ E!Next
<1> DEFINE p == m.payable
           t == m.token
           a == m.amount
<1>1. p \in PayableIds /\ t \in Tokens /\ a \in Amounts /\ a \in Nat
  BY InboundAreMessages, AmountsAreNat
<1>2. /\ calls = <<>> /\ Exists(p) /\ CreditPayable(p, t, a)
      /\ KeepOrPayOut(p, t, a, [held EXCEPT ![t] = held[t] + a])
  BY DEF ReceiveForeignPaymentWithCircle, Entered, NonReentrant
<1>3. [held EXCEPT ![t] = held[t] + a] = Deposited(t, a, 0)
  <2>1. held \in [Tokens -> Nat]
    BY DEF EInv, TypeOK
  <2> HIDE DEF t, a
  <2>2. ASSUME NEW x \in Tokens
        PROVE  [held EXCEPT ![t] = held[t] + a][x] = Deposited(t, a, 0)[x]
    BY <1>1, <2>1 DEF Deposited
  <2> QED
    BY <2>1, <2>2 DEF Deposited
<1>4. chainStats'.payablesCount = chainStats.payablesCount
  <2>1. chainStats \in ChainStats
    BY DEF EInv, TypeOK
  <2> QED
    BY <2>1 DEF ReceiveForeignPaymentWithCircle, ChainStats
<1> HIDE DEF p, t, a
<1>5. HostsMatch' /\ EscrowHost' = EscrowHost
  BY <1>1, <1>2, <1>4, CreditHosts, KeepHosts DEF EInv
<1> QED
  BY <1>1, <1>2, <1>3, <1>5, PaymentEscrow DEF EInv

\* A burn redeemed past the contract, also in the middle of a withdrawal, is a
\* gift to the vault.
LEMMA RedeemEscrow ==
  ASSUME EInv, TypeOK', NEW m \in Inbound, RedeemDirectly(m)
  PROVE  HostsMatch' /\ E!Next
<1> DEFINE t == m.token
           a == m.amount
<1>1. t \in Tokens /\ a \in Amounts /\ a \in Nat
  BY InboundAreMessages, AmountsAreNat
<1>2. /\ held' = [held EXCEPT ![t] = held[t] + a]
      /\ UNCHANGED <<chainStats, payables, payableBalances, earned, collected, calls>>
  BY DEF RedeemDirectly
<1> HIDE DEF t, a
<1>3. HostsMatch' /\ EscrowHost' = EscrowHost
  BY <1>2, KeepHosts DEF HostsKept, EInv
<1>4. ASSUME NEW q \in PayableIds, NEW x \in Tokens
      PROVE  ToDeduct(q, x)' = ToDeduct(q, x)
  BY <1>2 DEF ToDeduct
<1>5. ASSUME NEW x \in Tokens PROVE FeeToSend(x)' = FeeToSend(x)
  BY <1>2 DEF FeeToSend
<1>6. EscrowOwed' = EscrowOwed
  BY <1>2, <1>4 DEF EscrowOwed
<1>7. EscrowCollected' = EscrowCollected
  BY <1>2, <1>5 DEF EscrowCollected
<1>8. EscrowVault' = [EscrowVault EXCEPT ![t] = EscrowVault[t] + a]
  <2> DEFINE v == EscrowVault
             w == EscrowVault'
  <2>1. held \in [Tokens -> Nat]
    BY DEF EInv, TypeOK
  <2>2. ASSUME NEW x \in Tokens
        PROVE  FeeToSend(x) \in Int /\ v[x] = held[x] - FeeToSend(x)
                 /\ w[x] = held'[x] - FeeToSend(x)
    <3>1. FeeToSend(x) \in Int
      BY OneFrame DEF EInv, FeeToSend, Frame
    <3> QED
      BY <1>5, <3>1 DEF EscrowVault
  <2>3. v = [x \in Tokens |-> v[x]] /\ w = [x \in Tokens |-> w[x]]
    BY DEF EscrowVault
  <2> HIDE DEF v, w
  <2>4. ASSUME NEW x \in Tokens PROVE w[x] = IF x = t THEN v[x] + a ELSE v[x]
    BY <1>1, <1>2, <2>1, <2>2
  <2>5. w = [v EXCEPT ![t] = v[t] + a]
    BY <1>1, <2>3, <2>4
  <2> QED
    BY <2>5 DEF v, w
<1>9. E!Gift(t, a)
  BY <1>2, <1>3, <1>6, <1>7, <1>8 DEF E!Gift
<1> QED
  BY <1>1, <1>3, <1>9 DEF E!Next

\* The rest of a withdrawal changes nothing the escrow sees.
LEMMA PayCollectorEscrow ==
  ASSUME EInv, TypeOK', PayCollector
  PROVE  HostsMatch' /\ UNCHANGED E!vars
<1>1. PICK f \in Frame : f = Head(calls)
  BY OneFrame DEF EInv, PayCollector
<1> DEFINE g == [f EXCEPT !.callee = "collector"]
           t == f.token
<1>2. /\ calls # <<>> /\ f.callee = "host" /\ Tail(calls) = <<>>
      /\ t \in Tokens /\ f.fees \in Nat
      /\ held \in [Tokens -> Nat] /\ collected \in [Tokens -> Nat]
  BY <1>1, OneFrame DEF EInv, TypeOK, PayCollector, Frame
<1>3. /\ held' = [held EXCEPT ![t] = held[t] - f.fees]
      /\ collected' = [collected EXCEPT ![t] = collected[t] + f.fees]
      /\ UNCHANGED <<chainStats, payables, payableBalances, earned>>
  BY <1>1 DEF PayCollector
<1>4. calls' = <<g>> \o <<>> /\ g \in Frame
  BY <1>1, <1>2 DEF PayCollector, Frame
<1>5. /\ g.payable = f.payable /\ g.token = t
      /\ g.amount = f.amount /\ g.callee = "collector"
  BY DEF Frame
<1> HIDE DEF g
<1>6. calls' # <<>> /\ Head(calls') = g
  BY <1>4, PushFrame
<1>7. HostsMatch' /\ EscrowHost' = EscrowHost
  BY <1>3, KeepHosts DEF HostsKept, EInv
<1>8. ASSUME NEW q \in PayableIds, NEW x \in Tokens
      PROVE  ToDeduct(q, x)' = ToDeduct(q, x)
  BY <1>1, <1>2, <1>5, <1>6 DEF ToDeduct
<1>9. ASSUME NEW x \in Tokens
      PROVE  /\ FeeToSend(x) = IF x = t THEN f.fees ELSE 0
             /\ FeeToSend(x)' = 0
  BY <1>1, <1>2, <1>5, <1>6 DEF FeeToSend
<1> HIDE DEF t
<1>10. EscrowOwed' = EscrowOwed
  BY <1>3, <1>8 DEF EscrowOwed
<1>11. ASSUME NEW x \in Tokens
       PROVE  /\ held'[x] - FeeToSend(x)' = held[x] - FeeToSend(x)
              /\ collected'[x] + FeeToSend(x)' = collected[x] + FeeToSend(x)
  BY <1>2, <1>3, <1>9
<1>12. EscrowVault' = EscrowVault
  BY <1>11 DEF EscrowVault
<1>13. EscrowCollected' = EscrowCollected
  BY <1>11 DEF EscrowCollected
<1> QED
  BY <1>3, <1>7, <1>10, <1>12, <1>13 DEF E!vars

LEMMA SettleEscrow ==
  ASSUME EInv, TypeOK', SettleWithdrawal
  PROVE  HostsMatch' /\ UNCHANGED E!vars
<1>1. PICK f \in Frame : f = Head(calls)
  BY OneFrame DEF EInv, SettleWithdrawal
<1>2. PICK p \in PayableIds, t \in Tokens, a \in Nat :
        p = f.payable /\ t = f.token /\ a = f.amount
  BY <1>1 DEF Frame
<1>3. /\ calls # <<>> /\ calls' = <<>> /\ f.callee = "collector"
      /\ payableBalances' = [payableBalances EXCEPT ![p][t] = @ - a]
      /\ UNCHANGED <<held, earned, collected>>
  BY <1>1, <1>2, OneFrame DEF EInv, SettleWithdrawal, DeductBalance, fundVars
<1>4. /\ EscrowOwed' = payableBalances'
      /\ EscrowVault' = held'
      /\ EscrowCollected' = collected'
  BY <1>3, IdleMappingNext
<1>5. EscrowOwed' = EscrowOwed
  <2> DEFINE b == payableBalances
             o == EscrowOwed
             c == payableBalances'
  <2>1. b \in [PayableIds -> [Tokens -> Nat]]
    BY DEF EInv, TypeOK
  <2>2. o = [q \in PayableIds |-> [x \in Tokens |->
              IF q = p /\ x = t THEN b[q][x] - a ELSE b[q][x]]]
    <3>1. ASSUME NEW q \in PayableIds, NEW x \in Tokens
          PROVE  b[q][x] - ToDeduct(q, x)
                   = IF q = p /\ x = t THEN b[q][x] - a ELSE b[q][x]
      BY <1>1, <1>2, <1>3, <2>1 DEF ToDeduct
    <3> QED
      BY <3>1 DEF EscrowOwed
  <2>3. c = [b EXCEPT ![p] = [b[p] EXCEPT ![t] = b[p][t] - a]]
    BY <1>3
  <2> HIDE DEF b, c, o
  <2>4. c = [q \in PayableIds |-> c[q]] /\ o = [q \in PayableIds |-> o[q]]
    BY <2>1, <2>2, <2>3
  <2>5. ASSUME NEW q \in PayableIds PROVE c[q] = o[q]
    <3>1. \A x \in Tokens : c[q][x] = o[q][x]
      BY <2>1, <2>2, <2>3
    <3>2. c[q] = [x \in Tokens |-> c[q][x]] /\ o[q] = [x \in Tokens |-> o[q][x]]
      BY <2>1, <2>2, <2>3
    <3> QED
      BY <3>1, <3>2
  <2>6. c = o
    BY <2>4, <2>5
  <2> QED
    BY <1>4, <2>6 DEF c, o
<1>6. \A x \in Tokens : FeeToSend(x) = 0
  BY <1>1, <1>3 DEF FeeToSend
<1>7. held \in [Tokens -> Nat] /\ collected \in [Tokens -> Nat]
  BY DEF EInv, TypeOK
<1>8. ASSUME NEW x \in Tokens
      PROVE  held[x] - FeeToSend(x) = held[x] /\ collected[x] + FeeToSend(x) = collected[x]
  BY <1>6, <1>7
<1>9. EscrowVault' = EscrowVault
  BY <1>3, <1>4, <1>7, <1>8 DEF EscrowVault
<1>10. EscrowCollected' = EscrowCollected
  BY <1>3, <1>4, <1>7, <1>8 DEF EscrowCollected
<1>11. HostsMatch' /\ EscrowHost' = EscrowHost
  <2>1. chainStats \in ChainStats
    BY DEF EInv, TypeOK
  <2>2. chainStats'.payablesCount = chainStats.payablesCount
    BY <2>1 DEF SettleWithdrawal, ChainStats
  <2> QED
    BY <2>2, SettleHosts, KeepHosts DEF EInv
<1> QED
  BY <1>3, <1>5, <1>9, <1>10, <1>11 DEF E!vars

LEMMA StepEscrow == EInv /\ [Next]_vars => EInv' /\ [E!Next]_(E!vars)
<1> SUFFICES ASSUME EInv, [Next]_vars PROVE HostsMatch' /\ (E!Next \/ UNCHANGED E!vars)
  BY StepType DEF EInv
<1>1. TypeOK'
  BY StepType DEF EInv
<1>2. CASE OwnerCall
  BY <1>1, <1>2, OwnerCallEscrow
<1>3. CASE HostCall
  BY <1>1, <1>3, HostCallEscrow
<1>4. CASE PaymentCall
  <2>1. CASE \E u \in Users, p \in PayableIds, t \in Tokens, a \in Amounts :
               \E value \in {0, a} : Pay(u, p, t, a, value)
    BY <1>1, <2>1, PayEscrow
  <2>2. CASE \E m \in Inbound : ReceiveForeignPaymentWithCircle(m)
    BY <1>1, <2>2, ReceiveEscrow
  <2>3. CASE \E m \in Inbound : RedeemDirectly(m)
    BY <1>1, <2>3, RedeemEscrow
  <2> QED
    BY <1>4, <2>1, <2>2, <2>3 DEF PaymentCall
<1>5. CASE PayCollector
  BY <1>1, <1>5, PayCollectorEscrow
<1>6. CASE SettleWithdrawal
  BY <1>1, <1>6, SettleEscrow
<1>7. CASE UNCHANGED vars
  <2>1. UNCHANGED <<chainStats, payables, payableBalances, held, earned, collected, calls>>
    BY <1>7 DEF vars
  <2>2. HostsMatch' /\ EscrowHost' = EscrowHost
    BY <2>1, KeepHosts DEF HostsKept, EInv
  <2>3. UNCHANGED <<EscrowOwed, EscrowVault, EscrowCollected>>
    BY <2>1 DEF EscrowOwed, EscrowVault, EscrowCollected, ToDeduct, FeeToSend
  <2> QED
    BY <2>1, <2>2, <2>3 DEF E!vars
<1> QED
  BY <1>2, <1>3, <1>4, <1>5, <1>6, <1>7 DEF Next

-----------------------------------------------------------------------------
(* The theorem. *)

\* The calls of Chainbills.sol, with the three steps of a withdrawal and the
\* payout inside a payment, do to the payables, the vault, the hosts and the
\* collectors nothing but what the atomic escrow does, for any number of users,
\* tokens and payables, any fee setting and any list of allowed payments.
THEOREM LedgerImplementsEscrow == Spec => ImplementsEscrow
<1>1. Init => EInv /\ E!Init
  BY InitEscrow
<1>2. EInv /\ [Next]_vars => EInv' /\ [E!Next]_(E!vars)
  BY StepEscrow
<1> QED
  BY <1>1, <1>2, PTL DEF Spec, ImplementsEscrow, E!Spec

=============================================================================
