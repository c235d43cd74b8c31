------------------------------ MODULE CbLedger ------------------------------
(***************************************************************************)
(* The Chainbills contract of one EVM chain, as a ledger of payables:      *)
(* who is owed what, what the contract holds, and the counters and         *)
(* activity ids its getters page through.  Chainbills.sol is the proxy     *)
(* every call enters by (nonReentrant, whenNotPaused); it delegatecalls    *)
(* CbPayables and CbTransactions, which share CbUtils and CbState.         *)
(*                                                                         *)
(* A call is one transaction and so one step, with one exception: a        *)
(* withdrawal hands control to the host's and to the fee collector's code  *)
(* before the ledger is updated, so it is three steps and a frame on the   *)
(* stack "calls" between them.  Only transactions that commit are steps: a *)
(* revert undoes everything and is no step at all.                         *)
(*                                                                         *)
(* Ids are hashes of (chain, time, entity, type, count); a payable is      *)
(* named by its chainCount, an activity by its (entity, count).            *)
(***************************************************************************)
EXTENDS Integers, FiniteSets, Sequences, Functions

CONSTANTS
  Users,              \* wallets that call the contract
  NoAddress,          \* address(0)
  Tokens,             \* tokens, the native currency included
  Native,             \* address(this): how the contract names native currency
  Amounts,            \* amounts a caller may pass
  AllowedLists,       \* allowedTokensAndAmounts a host may set
  InitialFeePercents, \* feePercent handed to initialize (a uint16)
  FeePercents,        \* arguments of setWithdrawalFeePercentage (a uint16)
  FeeCaps,            \* arguments of updateMaxWithdrawalFees
  FeeCollectors,      \* arguments of setFeeCollectorAddress
  Inbound,            \* cross-chain payments relayed to this chain
  MaxPayables,        \* bound: payables ever created
  MaxActivities       \* bound: activities beyond the initializations

PayableIds == 1..MaxPayables
uint16 == 0..65535

ASSUME BoundsAreNaturals == MaxPayables \in Nat /\ MaxActivities \in Nat
\* An address has 20 bytes.
ASSUME UsersAreFinite == IsFiniteSet(Users)
ASSUME NoAddressIsNoUser == NoAddress \notin Users
ASSUME NativeIsAToken == Native \in Tokens
ASSUME AmountsArePositive == Amounts \subseteq Nat \ {0}
ASSUME AllowedListsAreLists ==
         AllowedLists \subseteq SUBSET [token : Tokens, amount : Amounts]
ASSUME FeesAreNumbers ==
         /\ InitialFeePercents \subseteq uint16
         /\ FeePercents \subseteq uint16
         /\ FeeCaps \subseteq Nat
ASSUME InboundAreMessages ==
         /\ \A m \in Inbound : /\ m.payable \in PayableIds
                               /\ m.token \in Tokens
                               /\ m.amount \in Amounts
\* A VAA is the hash of what it says.
ASSUME VaasIdentifyMessages == \A m, i \in Inbound : m.vaa = i.vaa => m = i

VARIABLES
  config,             \* Config, with the paused flag of PausableUpgradeable
  tokenDetails,       \* TokenDetails of each token
  chainStats,         \* ChainStats
  users,              \* User of each wallet
  payables,           \* Payable of each id (host NoAddress: not created)
  payableBalances,    \* payableBalances[p][t]
  activityIds,        \* chainActivityIds: ids of activities
  payableActivityIds, \* ids of activities of each payable
  consumedMessages,   \* hasConsumedWormholeMessage: VAAs already redeemed
  held,               \* per token, what the contract owns (in the tokens)
  earned,             \* per user and token, what the contract paid to a host
  collected,          \* per token, what the contract paid to collectors
  usedCircleNonces,   \* burns Circle's transmitter has already minted
  calls               \* withdrawals waiting for a callee, innermost first

configVars == <<config, tokenDetails>>
historyVars == <<activityIds, payableActivityIds>>
fundVars == <<held, earned, collected>>
messageVars == <<consumedMessages, usedCircleNonces>>
vars == <<config, tokenDetails, chainStats, users, payables, payableBalances,
          activityIds, payableActivityIds, consumedMessages, held, earned,
          collected, usedCircleNonces, calls>>

-----------------------------------------------------------------------------
(* Init: the proxy after initialize, no token supported and no user known. *)

NoUserYet == [chainCount |-> 0, payablesCount |-> 0, paymentsCount |-> 0,
              withdrawalsCount |-> 0, activitiesCount |-> 0]

NoPayable == [host |-> NoAddress, isClosed |-> FALSE, isAutoWithdraw |-> FALSE,
              allowed |-> {}, paymentsCount |-> 0, withdrawalsCount |-> 0,
              activitiesCount |-> 0]

NoToken == [isSupported |-> FALSE, maxWithdrawalFees |-> 0, totalUserPaid |-> 0,
            totalPayableReceived |-> 0, totalWithdrawn |-> 0,
            totalWithdrawalFeesCollected |-> 0]

NoStats == [usersCount |-> 0, payablesCount |-> 0, userPaymentsCount |-> 0,
            payablePaymentsCount |-> 0, withdrawalsCount |-> 0,
            activitiesCount |-> 0, consumedWormholeMessagesCount |-> 0]

Init ==
  /\ \E feePercent \in InitialFeePercents,
        feeCollector \in FeeCollectors \ {NoAddress} :
       config = [paused |-> FALSE, withdrawalFeePercentage |-> feePercent,
                 feeCollector |-> feeCollector]
  /\ tokenDetails = [t \in Tokens |-> NoToken]
  /\ chainStats = NoStats
  /\ users = [u \in Users |-> NoUserYet]
  /\ payables = [p \in PayableIds |-> NoPayable]
  /\ payableBalances = [p \in PayableIds |-> [t \in Tokens |-> 0]]
  /\ activityIds = {}
  /\ payableActivityIds = [p \in PayableIds |-> {}]
  /\ consumedMessages = {}
  /\ held = [t \in Tokens |-> 0]
  /\ earned = [u \in Users |-> [t \in Tokens |-> 0]]
  /\ collected = [t \in Tokens |-> 0]
  /\ usedCircleNonces = {}
  /\ calls = <<>>

-----------------------------------------------------------------------------
(* Guards and helpers shared by the handlers. *)

NoGuardAtAll == TRUE  \* mutant of NonReentrant
NonReentrant == calls = <<>>
WhenNotPaused == ~config.paused
Entered == NonReentrant /\ WhenNotPaused

Exists(p) == payables[p].host # NoAddress

\* Bound on the run: room for n more activities, initializations apart.
Room(n) == chainStats.activitiesCount - chainStats.usersCount + n <= MaxActivities

\* 1 when the call initializes the wallet as a user, else 0.
NewUser(u) == IF users[u].chainCount = 0 THEN 1 ELSE 0

InitializedUser(u) ==
  IF users[u].chainCount # 0 THEN users[u]
  ELSE [users[u] EXCEPT !.chainCount = chainStats.usersCount + 1,
                        !.activitiesCount = 1]

UserActivity(u, n) == <<"user", u, n>>
PayableActivity(p, n) == <<"payable", p, n>>

InitializedActivity(u) ==
  IF users[u].chainCount = 0 THEN {UserActivity(u, 1)} ELSE {}

Fees(t, a) ==
  LET percent == (a * config.withdrawalFeePercentage) \div 10000
      maxFees == tokenDetails[t].maxWithdrawalFees
  IN  IF percent > maxFees THEN maxFees ELSE percent

FullAmountDue(t, a) == a  \* mutant of AmountDue
AmountDue(t, a) == a - Fees(t, a)

\* mutant of HasBalance: the search forgets to match the token
HasBalanceInSomeToken(p, t, a) == \E x \in Tokens : a <= payableBalances[p][x]
HasBalance(p, t, a) == a <= payableBalances[p][t]

-----------------------------------------------------------------------------
(* Owner calls.  The owner is a wallet key (the scripts broadcast with it), *)
(* so its calls are transactions of their own.                             *)

Pause ==
  /\ Entered
  /\ config' = [config EXCEPT !.paused = TRUE]
  /\ UNCHANGED <<tokenDetails, chainStats, users, payables, payableBalances,
                 historyVars, messageVars, fundVars, calls>>

Unpause ==
  /\ NonReentrant /\ config.paused
  /\ config' = [config EXCEPT !.paused = FALSE]
  /\ UNCHANGED <<tokenDetails, chainStats, users, payables, payableBalances,
                 historyVars, messageVars, fundVars, calls>>

AnyFeePercentage(feePercent) == TRUE  \* mutant of ValidFeePercentage
ValidFeePercentage(feePercent) == feePercent <= 10000

SetWithdrawalFeePercentage(feePercent) ==
  /\ calls = <<>>
  /\ ValidFeePercentage(feePercent)
  /\ config' = [config EXCEPT !.withdrawalFeePercentage = feePercent]
  /\ UNCHANGED <<tokenDetails, chainStats, users, payables, payableBalances,
                 historyVars, messageVars, fundVars, calls>>

SetFeeCollectorAddress(feeCollector) ==
  /\ calls = <<>>
  /\ config' = [config EXCEPT !.feeCollector = feeCollector]
  /\ UNCHANGED <<tokenDetails, chainStats, users, payables, payableBalances,
                 historyVars, messageVars, fundVars, calls>>

UpdateTokenDetails(t, details) ==
  /\ calls = <<>>
  /\ tokenDetails' = [tokenDetails EXCEPT ![t] = details]
  /\ UNCHANGED <<config, chainStats, users, payables, payableBalances,
                 historyVars, messageVars, fundVars, calls>>

UpdateMaxWithdrawalFees(t, maxFees) ==
  UpdateTokenDetails(t, [tokenDetails[t] EXCEPT !.maxWithdrawalFees = maxFees])

AllowPaymentsForToken(t) ==
  UpdateTokenDetails(t, [tokenDetails[t] EXCEPT !.isSupported = TRUE])

StopPaymentsForToken(t) ==
  UpdateTokenDetails(t, [tokenDetails[t] EXCEPT !.isSupported = FALSE])

-----------------------------------------------------------------------------
(* Calls of a host about its payables. *)

CreatePayable(u, list, auto) ==
  LET p == chainStats.payablesCount + 1
      user == InitializedUser(u)
      n == user.activitiesCount + 1
  IN
  /\ Entered
  /\ p <= MaxPayables /\ Room(1)
  /\ \A ta \in list : tokenDetails[ta.token].isSupported
  /\ users' = [users EXCEPT
                 ![u] = [user EXCEPT !.payablesCount = @ + 1, !.activitiesCount = n]]
  /\ chainStats' = [chainStats EXCEPT !.usersCount = @ + NewUser(u),
                                      !.payablesCount = p,
                                      !.activitiesCount = @ + NewUser(u) + 1]
  /\ payables' = [payables EXCEPT ![p] =
       [NoPayable EXCEPT !.host = u, !.isAutoWithdraw = auto,
                         !.allowed = list, !.activitiesCount = 1]]
  /\ activityIds' = activityIds \union InitializedActivity(u)
                                \union {UserActivity(u, n)}
  /\ payableActivityIds' = [payableActivityIds EXCEPT
                              ![p] = @ \union {UserActivity(u, n)}]
  /\ UNCHANGED <<configVars, payableBalances, messageVars, fundVars, calls>>

\* An update of p by its host; "updated" is the payable with the new setting.
RecordUpdatePayableActivity(p, updated) ==
  LET u == payables[p].host
      n == users[u].activitiesCount + 1
  IN
  /\ Room(1)
  /\ users' = [users EXCEPT ![u].activitiesCount = n]
  /\ chainStats' = [chainStats EXCEPT !.activitiesCount = @ + 1]
  /\ payables' = [payables EXCEPT ![p] =
       [updated EXCEPT !.activitiesCount = @ + 1]]
  /\ activityIds' = activityIds \union {UserActivity(u, n)}
  /\ payableActivityIds' = [payableActivityIds EXCEPT
                              ![p] = @ \union {UserActivity(u, n)}]
  /\ UNCHANGED <<configVars, payableBalances, messageVars, fundVars, calls>>

ClosePayable(p) ==
  /\ Entered /\ Exists(p) /\ ~payables[p].isClosed
  /\ RecordUpdatePayableActivity(p, [payables[p] EXCEPT !.isClosed = TRUE])

ReopenPayable(p) ==
  /\ Entered /\ Exists(p) /\ payables[p].isClosed
  /\ RecordUpdatePayableActivity(p, [payables[p] EXCEPT !.isClosed = FALSE])

UpdatePayableAllowedTokensAndAmounts(p, list) ==
  /\ Entered /\ Exists(p)
  /\ \A ta \in list : tokenDetails[ta.token].isSupported
  /\ RecordUpdatePayableActivity(p, [payables[p] EXCEPT !.allowed = list])

UpdatePayableAutoWithdraw(p, auto) ==
  /\ Entered /\ Exists(p)
  /\ RecordUpdatePayableActivity(p, [payables[p] EXCEPT !.isAutoWithdraw = auto])

-----------------------------------------------------------------------------
(* _actualizeWithdrawal: pay the host, pay the collector, update the ledger.*)
(* "funds" is what the contract holds when the payout begins.              *)

\* The payout commits: the amount due does not underflow, the transfers are
\* covered, and no ERC-20 is asked to transfer to address(0).
PayoutCommits(t, a, funds) ==
  /\ Fees(t, a) <= a
  /\ a <= funds[t]
  /\ t = Native \/ config.feeCollector # NoAddress

PayHost(p, t, a, funds) ==
  LET amtDue == AmountDue(t, a) IN
  /\ PayoutCommits(t, a, funds)
  /\ held' = [funds EXCEPT ![t] = @ - amtDue]
  /\ earned' = [earned EXCEPT ![payables[p].host][t] = @ + amtDue]
  /\ calls' = <<[payable |-> p, token |-> t, amount |-> a,
                 fees |-> Fees(t, a), callee |-> "host"]>> \o calls
  /\ UNCHANGED collected

PayCollector ==
  LET f == Head(calls) IN
  /\ calls # <<>> /\ f.callee = "host"
  /\ f.fees <= held[f.token]
  /\ held' = [held EXCEPT ![f.token] = @ - f.fees]
  /\ collected' = [collected EXCEPT ![f.token] = @ + f.fees]
  /\ calls' = <<[f EXCEPT !.callee = "collector"]>> \o Tail(calls)
  /\ UNCHANGED <<configVars, chainStats, users, payables, payableBalances,
                 historyVars, messageVars, earned>>

\* mutant of DeductBalance: the fee stays on the payable
DeductAmountDue(p, t, a) ==
  /\ a <= payableBalances[p][t]
  /\ payableBalances' = [payableBalances EXCEPT ![p][t] = @ - AmountDue(t, a)]
DeductBalance(p, t, a) ==
  /\ a <= payableBalances[p][t]
  /\ payableBalances' = [payableBalances EXCEPT ![p][t] = @ - a]

\* mutant of WithdrawnTotals: the fees are not added up
WithdrawnTotalsWithoutFees(t, a, fees) ==
  [tokenDetails EXCEPT ![t].totalWithdrawn = @ + a]
WithdrawnTotals(t, a, fees) ==
  [tokenDetails EXCEPT
     ![t] = [tokenDetails[t] EXCEPT !.totalWithdrawn = @ + a,
                                    !.totalWithdrawalFeesCollected = @ + fees]]

SettleWithdrawal ==
  LET f == Head(calls)
      p == f.payable
      t == f.token
      u == payables[p].host
      n == users[u].activitiesCount + 1
  IN
  /\ calls # <<>> /\ f.callee = "collector"
  /\ DeductBalance(p, t, f.amount)
  /\ chainStats' = [chainStats EXCEPT !.withdrawalsCount = @ + 1,
                                      !.activitiesCount = @ + 1]
  /\ users' = [users EXCEPT
                 ![u] = [users[u] EXCEPT !.withdrawalsCount = @ + 1,
                                         !.activitiesCount = n]]
  /\ payables' = [payables EXCEPT
       ![p] = [payables[p] EXCEPT !.withdrawalsCount = @ + 1,
                                  !.activitiesCount = @ + 1]]
  /\ tokenDetails' = WithdrawnTotals(t, f.amount, f.fees)
  /\ activityIds' = activityIds \union {UserActivity(u, n)}
  /\ payableActivityIds' = [payableActivityIds EXCEPT
                              ![p] = @ \union {UserActivity(u, n)}]
  /\ calls' = Tail(calls)
  /\ UNCHANGED <<config, messageVars, fundVars>>

Withdraw(p, t, a) ==
  /\ Entered /\ Exists(p)
  /\ HasBalance(p, t, a)
  /\ Room(1)
  /\ PayHost(p, t, a, held)
  /\ UNCHANGED <<configVars, chainStats, users, payables, payableBalances,
                 historyVars, messageVars>>

-----------------------------------------------------------------------------
(* Payments. *)

\* mutant of CreditPayable: the activity is not counted
CreditPayableUncounted(p, t, a) ==
  LET n == payables[p].activitiesCount + 1 IN
  /\ payables' = [payables EXCEPT ![p].paymentsCount = @ + 1]
  /\ payableBalances' = [payableBalances EXCEPT ![p][t] = @ + a]
  /\ payableActivityIds' = [payableActivityIds EXCEPT
                              ![p] = @ \union {PayableActivity(p, n)}]
\* _recordPayablePayment on the payable; its counters and ids.
CreditPayable(p, t, a) ==
  LET n == payables[p].activitiesCount + 1 IN
  /\ payables' = [payables EXCEPT
       ![p] = [payables[p] EXCEPT !.paymentsCount = @ + 1, !.activitiesCount = n]]
  /\ payableBalances' = [payableBalances EXCEPT ![p][t] = @ + a]
  /\ payableActivityIds' = [payableActivityIds EXCEPT
                              ![p] = @ \union {PayableActivity(p, n)}]

\* The payment is kept, or paid out at once when the payable auto-withdraws.
KeepOrPayOut(p, t, a, funds) ==
  \/ /\ ~payables[p].isAutoWithdraw
     /\ held' = funds
     /\ UNCHANGED <<earned, collected, calls>>
  \/ /\ payables[p].isAutoWithdraw
     /\ PayHost(p, t, a, funds)

\* pay: "value" is the native currency sent along.  With an ERC-20 it is not
\* checked, so what is sent stays in the contract.
Pay(u, p, t, a, value) ==
  LET user == InitializedUser(u)
      n == user.activitiesCount + 1
      funds == [x \in Tokens |-> IF x = t THEN held[x] + a
                                 ELSE IF x = Native THEN held[x] + value
                                 ELSE held[x]]
  IN
  /\ Entered
  /\ tokenDetails[t].isSupported
  /\ Exists(p) /\ ~payables[p].isClosed
  /\ payables[p].allowed = {} \/ [token |-> t, amount |-> a] \in payables[p].allowed
  /\ t = Native => value = a
  /\ Room(3)
  /\ users' = [users EXCEPT
                 ![u] = [user EXCEPT !.paymentsCount = @ + 1, !.activitiesCount = n]]
  /\ chainStats' = [chainStats EXCEPT !.usersCount = @ + NewUser(u),
                                      !.userPaymentsCount = @ + 1,
                                      !.payablePaymentsCount = @ + 1,
                                      !.activitiesCount = @ + NewUser(u) + 2]
  /\ tokenDetails' = [tokenDetails EXCEPT
       ![t] = [tokenDetails[t] EXCEPT !.totalUserPaid = @ + a,
                                      !.totalPayableReceived = @ + a]]
  /\ CreditPayable(p, t, a)
  /\ activityIds' = activityIds \union InitializedActivity(u)
       \union {UserActivity(u, n),
               PayableActivity(p, payables[p].activitiesCount + 1)}
  /\ KeepOrPayOut(p, t, a, funds)
  /\ UNCHANGED <<config, messageVars>>

ConsumeNothing(m) == UNCHANGED consumedMessages  \* mutant of ConsumeWormholeMessage
ConsumeWormholeMessage(m) ==
  consumedMessages' = consumedMessages \union {m.vaa}

\* Circle's transmitter mints a burn to this contract for whoever hands it in
\* there, at any time and without the contract's knowledge: also from the code
\* of a host that is being paid.  The money is nobody's.
RedeemDirectly(m) ==
  /\ m.circleNonce \notin usedCircleNonces
  /\ usedCircleNonces' = usedCircleNonces \union {m.circleNonce}
  /\ held' = [held EXCEPT ![m.token] = @ + m.amount]
  /\ UNCHANGED <<configVars, chainStats, users, payables, payableBalances,
                 historyVars, consumedMessages, earned, collected, calls>>

\* receiveForeignPaymentWithCircle: the VAA m.vaa says what was paid on the
\* other chain, redeeming the burn m.circleNonce mints it here.
ReceiveForeignPaymentWithCircle(m) ==
  LET p == m.payable
      t == m.token
      funds == [held EXCEPT ![t] = @ + m.amount]
  IN
  /\ Entered
  /\ m.vaa \notin consumedMessages
  /\ Exists(p)
  /\ m.circleNonce \notin usedCircleNonces
  /\ Room(2)
  /\ usedCircleNonces' = usedCircleNonces \union {m.circleNonce}
  /\ chainStats' = [chainStats EXCEPT !.payablePaymentsCount = @ + 1,
                                      !.activitiesCount = @ + 1,
                                      !.consumedWormholeMessagesCount = @ + 1]
  /\ tokenDetails' = [tokenDetails EXCEPT ![t].totalPayableReceived = @ + m.amount]
  /\ CreditPayable(p, t, m.amount)
  /\ activityIds' = activityIds \union
       {PayableActivity(p, payables[p].activitiesCount + 1)}
  /\ ConsumeWormholeMessage(m)
  /\ KeepOrPayOut(p, t, m.amount, funds)
  /\ UNCHANGED <<config, users>>

-----------------------------------------------------------------------------
OwnerCall ==
  \/ Pause
  \/ Unpause
  \/ \E f \in FeePercents : SetWithdrawalFeePercentage(f)
  \/ \E c \in FeeCollectors : SetFeeCollectorAddress(c)
  \/ \E t \in Tokens, c \in FeeCaps : UpdateMaxWithdrawalFees(t, c)
  \/ \E t \in Tokens : AllowPaymentsForToken(t)
  \/ \E t \in Tokens : StopPaymentsForToken(t)

HostCall ==
  \/ \E u \in Users, l \in AllowedLists, b \in BOOLEAN : CreatePayable(u, l, b)
  \/ \E p \in PayableIds : ClosePayable(p)
  \/ \E p \in PayableIds : ReopenPayable(p)
  \/ \E p \in PayableIds, l \in AllowedLists :
       UpdatePayableAllowedTokensAndAmounts(p, l)
  \/ \E p \in PayableIds, b \in BOOLEAN : UpdatePayableAutoWithdraw(p, b)
  \/ \E p \in PayableIds, t \in Tokens, a \in Amounts : Withdraw(p, t, a)

PaymentCall ==
  \/ \E u \in Users, p \in PayableIds, t \in Tokens, a \in Amounts :
       \E value \in {0, a} : Pay(u, p, t, a, value)
  \/ \E m \in Inbound : ReceiveForeignPaymentWithCircle(m) \/ RedeemDirectly(m)

Next == OwnerCall \/ HostCall \/ PaymentCall \/ PayCollector \/ SettleWithdrawal

Spec == Init /\ [][Next]_vars

\* A transaction runs to its end once it has begun: the EVM executes the rest
\* of a withdrawal after each callee returns.
FairSpec == Spec /\ WF_vars(PayCollector) /\ WF_vars(SettleWithdrawal)

-----------------------------------------------------------------------------
(* Correctness. *)

Config == [paused : BOOLEAN, withdrawalFeePercentage : uint16,
           feeCollector : FeeCollectors]

TokenDetails ==
  [isSupported : BOOLEAN, maxWithdrawalFees : Nat, totalUserPaid : Nat,
   totalPayableReceived : Nat, totalWithdrawn : Nat,
   totalWithdrawalFeesCollected : Nat]

ChainStats ==
  [usersCount : Nat, payablesCount : 0..MaxPayables, userPaymentsCount : Nat,
   payablePaymentsCount : Nat, withdrawalsCount : Nat, activitiesCount : Nat,
   consumedWormholeMessagesCount : Nat]

User == [chainCount : Nat, payablesCount : Nat, paymentsCount : Nat,
         withdrawalsCount : Nat, activitiesCount : Nat]

Payable ==
  [host : Users \union {NoAddress}, isClosed : BOOLEAN,
   isAutoWithdraw : BOOLEAN, allowed : AllowedLists \union {{}},
   paymentsCount : Nat, withdrawalsCount : Nat, activitiesCount : Nat]

Frame == [payable : PayableIds, token : Tokens, amount : Nat, fees : Nat,
          callee : {"host", "collector"}]

\* The type invariant: every counter of CbState is a natural number, every id
\* names something of its kind, and nonReentrant leaves at most one withdrawal
\* under way (CbState.sol).
TypeOK ==
  /\ config \in Config
  /\ tokenDetails \in [Tokens -> TokenDetails]
  /\ chainStats \in ChainStats
  /\ users \in [Users -> User]
  /\ payables \in [PayableIds -> Payable]
  /\ payableBalances \in [PayableIds -> [Tokens -> Nat]]
  /\ consumedMessages \subseteq {m.vaa : m \in Inbound}
  /\ usedCircleNonces \subseteq {m.circleNonce : m \in Inbound}
  /\ held \in [Tokens -> Nat]
  /\ earned \in [Users -> [Tokens -> Nat]]
  /\ collected \in [Tokens -> Nat]
  /\ calls \in Seq(Frame) /\ Len(calls) <= 1

\* What the withdrawal under way has sent out but not yet deducted.
Sent(f) == IF f.callee = "host" THEN f.amount - f.fees ELSE f.amount
InFlight(t) ==
  IF calls # <<>> /\ Head(calls).token = t THEN Sent(Head(calls)) ELSE 0

\* s runs through the balances in t, payable by payable, adding them up.
RunningTotal(s, t) ==
  /\ s[0] = 0
  /\ \A p \in PayableIds : s[p] = s[p-1] + payableBalances[p][t]

\* Every payable can be paid in full, all of them together: the balances add
\* up to no more than the contract holds, counting what a withdrawal under way
\* (CbTransactions._actualizeWithdrawal, between its transfers and its
\* deduction) has already sent.
Solvent ==
  \A t \in Tokens :
    \E s \in [0..MaxPayables -> 0..(held[t] + InFlight(t))] : RunningTotal(s, t)

\* The token totals that CbTransactions keeps beside the balances tell the same
\* story: all balances together are what was received less what was withdrawn.
BalancesMatchTotals ==
  \A t \in Tokens :
    \E s \in [0..MaxPayables -> 0..tokenDetails[t].totalPayableReceived] :
      /\ RunningTotal(s, t)
      /\ s[MaxPayables] + tokenDetails[t].totalWithdrawn
           = tokenDetails[t].totalPayableReceived

\* A withdrawal that has sent money out can always be finished: the fee is
\* there to be sent, and the deduction of SettleWithdrawal does not underflow,
\* also when an auto-withdraw begins inside pay or a cross-chain receive.
PayoutCanFinish ==
  calls # <<>> =>
    LET f == Head(calls) IN
    /\ f.callee = "host" => f.fees <= held[f.token]
    /\ f.amount <= payableBalances[f.payable][f.token]

\* totalWithdrawalFeesCollected is what the collectors really received, the fee
\* of a withdrawal between its second transfer and its bookkeeping apart.
FeesAccounted ==
  \A t \in Tokens :
    collected[t] = tokenDetails[t].totalWithdrawalFeesCollected +
      (IF calls # <<>> /\ Head(calls).token = t /\ Head(calls).callee = "collector"
       THEN Head(calls).fees ELSE 0)

\* What the owners read off a token's totals is true (tokenDetails): neither
\* the balances nor the fees ever part from them.
TotalsAreTrue == BalancesMatchTotals /\ FeesAccounted

\* Activity ids never collide (evm/README "Creating IDs"), and a user's
\* activities are numbered 1..activitiesCount without a gap, as the paginated
\* getters need: _initializeUserIfNeedBe, the updates and the payments number
\* them in one sequence.  A payable's list is as long as its counter says and
\* lists activities of the chain: creating, updating, receiving and
\* withdrawing each add exactly one.
ActivityIdsMatchCounters ==
  /\ Cardinality(activityIds) = chainStats.activitiesCount
  /\ \A u \in Users :
       {n \in 1..chainStats.activitiesCount : UserActivity(u, n) \in activityIds}
         = 1..users[u].activitiesCount
  /\ \A p \in PayableIds :
       /\ Cardinality(payableActivityIds[p]) = payables[p].activitiesCount
       /\ payableActivityIds[p] \subseteq activityIds

\* The users the contract has initialized.
KnownUsers == {u \in Users : users[u].chainCount > 0}

\* The chain-wide counters are the sums of the users' own counters.
UserCountersAgree ==
  /\ chainStats.userPaymentsCount = SumFunction([u \in Users |-> users[u].paymentsCount])
  /\ chainStats.payablesCount = SumFunction([u \in Users |-> users[u].payablesCount])
  /\ chainStats.withdrawalsCount = SumFunction([u \in Users |-> users[u].withdrawalsCount])
  /\ chainStats.activitiesCount =
       SumFunction([u \in Users |-> users[u].activitiesCount]) + chainStats.payablePaymentsCount

\* And those of the payables' own counters.
PayableCountersAgree ==
  /\ chainStats.payablePaymentsCount =
       SumFunction([p \in PayableIds |-> payables[p].paymentsCount])
  /\ chainStats.withdrawalsCount =
       SumFunction([p \in PayableIds |-> payables[p].withdrawalsCount])

\* Every initialized user has a number of its own, from 1 on without a gap.
UsersNumbered ==
  /\ {users[u].chainCount : u \in KnownUsers} = 1..chainStats.usersCount
  /\ Cardinality(KnownUsers) = chainStats.usersCount

\* Each cross-chain payment counts once: what payables received beyond what
\* local payers paid is the sum of the messages consumed, and each of these
\* used up a burn of its own.  (A burn may be used up without its message.)
Consumed == {m \in Inbound : m.vaa \in consumedMessages}
Redeemed(t) == {m \in Consumed : m.token = t}
ForeignCreditsOnce ==
  /\ \A t \in Tokens :
       tokenDetails[t].totalPayableReceived =
         tokenDetails[t].totalUserPaid + SumFunction([m \in Redeemed(t) |-> m.amount])
  /\ \A m \in Consumed : m.circleNonce \in usedCircleNonces
  /\ \A m, i \in Consumed : m.circleNonce = i.circleNonce => m = i
  /\ chainStats.consumedWormholeMessagesCount = Cardinality(consumedMessages)

\* The chain-wide counters are the sums of the users' and of the payables' own
\* counters, every initialized user has a chainCount of its own, and a
\* cross-chain payment is counted once, however often it is handed in
\* (CbUtils._initializeUserIfNeedBe, CbTransactions.sol:163-220, 453-497).
CountersAgree ==
  UserCountersAgree /\ PayableCountersAgree /\ UsersNumbered /\ ForeignCreditsOnce

\* The settings with which a payout of a fails: an ERC-20 refuses to transfer
\* to address(0), which setFeeCollectorAddress takes; and the fee is more than
\* the amount, which it can only be with a percentage that initialize took and
\* setWithdrawalFeePercentage would refuse, under a cap above the amount.
CollectorUnset(t) == t # Native /\ config.feeCollector = NoAddress
FeeAboveAll(t, a) ==
  /\ config.withdrawalFeePercentage > 10000
  /\ config.withdrawalFeePercentage \in InitialFeePercents
  /\ tokenDetails[t].maxWithdrawalFees > a

\* A host can withdraw any part of its balance whenever the contract is not
\* paused (README.md "can withdraw at anytime"), the two settings above apart:
\* no other setting, now or earlier, no other payable and no stopped token
\* makes the payout revert.  A percentage that is set anew is never above 10000.
HostsCanWithdraw ==
  Entered =>
    \A p \in PayableIds, t \in Tokens :
      \A a \in 1..payableBalances[p][t] :
        PayoutCommits(t, a, held) \/ CollectorUnset(t) \/ FeeAboveAll(t, a)

\* A withdrawal that has begun completes.
PayoutCompletes == calls # <<>> ~> calls = <<>>

-----------------------------------------------------------------------------
(* The ledger implements the escrow.  A withdrawal counts as paid out from   *)
(* its first transfer on: what it still has to do is taken as done.          *)

ToDeduct(p, t) ==
  IF calls # <<>> /\ Head(calls).payable = p /\ Head(calls).token = t
  THEN Head(calls).amount ELSE 0

FeeToSend(t) ==
  IF calls # <<>> /\ Head(calls).token = t /\ Head(calls).callee = "host"
  THEN Head(calls).fees ELSE 0

EscrowHost == [p \in PayableIds |-> payables[p].host]
EscrowOwed ==
  [p \in PayableIds |-> [t \in Tokens |-> payableBalances[p][t] - ToDeduct(p, t)]]
EscrowVault == [t \in Tokens |-> held[t] - FeeToSend(t)]
EscrowCollected == [t \in Tokens |-> collected[t] + FeeToSend(t)]

E == INSTANCE Escrow WITH host <- EscrowHost, owed <- EscrowOwed,
                          vault <- EscrowVault, collected <- EscrowCollected

\* The three-step withdrawal and the auto-withdraw inside a payment behave as
\* atomic payouts: full amount off the payable, amount less fee to its host,
\* and nothing else takes from a payable (CbTransactions.sol).
ImplementsEscrow == E!Spec

=============================================================================
