------------------------------ MODULE CwLedger ------------------------------
(***************************************************************************)
(* The CosmWasm contract (cosmwasm/src): a ledger of payables like the EVM *)
(* one, without auto-withdraw and other chains, but with two kinds of      *)
(* tokens (coins of the chain, by denom, and Cw20 contracts), an owner who *)
(* may withdraw, and a vector of ids behind every counter.                 *)
(*                                                                         *)
(* A call is one step.  The contract saves its state first and returns its *)
(* transfers as messages; when one of them fails the whole call is undone, *)
(* so only calls whose transfers succeed are steps.  The tokens are taken  *)
(* to be coins and cw20-base contracts, which do not call back.  Names are *)
(* those of the source.  A payable is named by its chain_count.            *)
(***************************************************************************)
EXTENDS Integers, Sequences

CONSTANTS
  CwUsers,          \* wallets that call the contract
  NoWallet,
  CwTokens,         \* the denoms and the Cw20 addresses there are
  Denoms,           \* those that are denoms
  CwAmounts,        \* amounts a caller may pass
  CwAllowedLists,   \* allowed_tokens_and_amounts a host may set
  MaxFees,          \* arguments of update_max_withdrawal_fees
  FeePercentage,    \* withdrawal_fee_percentage: 200 in instantiate, and never changed
  MaxCwPayables,    \* bound: payables ever created
  MaxCwActivities,  \* bound: activities ever recorded
  MaxStray          \* bound: what is sent unasked, and what the owner takes

CwPayableIds == 1..MaxCwPayables

ASSUME CwLedgerAssumption ==
  /\ NoWallet \notin CwUsers
  /\ NoWallet \notin CwTokens
  /\ Denoms \subseteq CwTokens
  /\ CwAmounts \subseteq Nat \ {0}
  /\ CwAllowedLists \subseteq SUBSET [token: CwTokens, amount: CwAmounts]
  /\ MaxFees \subseteq Nat
  /\ FeePercentage \in 0..10000
  /\ MaxCwPayables \in Nat
  /\ MaxCwActivities \in Nat
  /\ MaxStray \in Nat

VARIABLES
  token_details,    \* TokenDetails of each token (is_supported: it was added)
  cw_payables,      \* Payable: host, allowed_tokens_and_amounts, is_closed
  cw_balances,      \* balances of each payable (no entry: 0)
  counts,           \* the counters of ChainStats, User and Payable, by list
  ids,              \* the vectors of ids, by list
  records,          \* where each record saved under an id says it is
  cw_held,          \* what the contract owns, in the bank and the Cw20s
  cw_earned,        \* history: what hosts were sent
  cw_collected,     \* history: what the fee collector was sent
  given,            \* history: what the contract was sent unasked
  owner_took        \* history: what the owner withdrew

bookVars == <<counts, ids, records>>
moneyVars == <<cw_held, cw_earned, cw_collected, given, owner_took>>
cwVars == <<token_details, cw_payables, cw_balances, bookVars, moneyVars>>

-----------------------------------------------------------------------------
(* The lists: a counter and a vector each, of the chain, of every user and *)
(* of every payable.                                                       *)
Chain(kind) == <<"chain", 0, kind>>
Of(u, kind) == <<"user", u, kind>>
At(p, kind) == <<"payable", p, kind>>

ChainKinds == {"users", "payables", "user_payments", "payable_payments",
               "withdrawals", "activities"}
UserKinds == {"payables", "payments", "withdrawals", "activities"}
PayableKinds == {"payments", "local_payments", "withdrawals", "activities"}

Lists ==
  {Chain(kind) : kind \in ChainKinds}
    \cup {Of(u, kind) : u \in CwUsers, kind \in UserKinds}
    \cup {At(p, kind) : p \in CwPayableIds, kind \in PayableKinds}

\* create_id: the hash of a reference, a salt and a count.
UserId(u) == <<"user", u, 0>>
PayableId(u, n) == <<"payable", u, n>>
UserPaymentId(u, n) == <<"payment", u, n>>
PayablePaymentId(payment, n) == <<"payable_payment", payment, n>>
WithdrawalId(u, n) == <<"withdrawal", u, n>>
UserActivityId(u, n) == <<"activity", u, n>>
PayableActivityId(p, n) == <<"payable_activity", p, n>>

\* Counters, vectors and records after one more entry, each by itself.
Counted(c, lists) == [x \in Lists |-> IF x \in lists THEN c[x] + 1 ELSE c[x]]
Pushed(v, lists, id) == [x \in Lists |-> IF x \in lists THEN Append(v[x], id) ELSE v[x]]
Saved(r, id, lists, c) ==
  {s \in r : s.id # id} \cup {[id |-> id, list |-> x, at |-> c[x]] : x \in lists}

CwInit ==
  /\ token_details = [t \in CwTokens |->
       [is_supported |-> FALSE, is_native_token |-> FALSE, max_withdrawal_fees |-> 0,
        total_user_paid |-> 0, total_payable_received |-> 0, total_withdrawn |-> 0,
        total_withdrawal_fees_collected |-> 0]]
  /\ cw_payables = [p \in CwPayableIds |->
                      [host |-> NoWallet, allowed |-> {}, is_closed |-> FALSE]]
  /\ cw_balances = [p \in CwPayableIds |-> [t \in CwTokens |-> 0]]
  /\ counts = [x \in Lists |-> 0]
  /\ ids = [x \in Lists |-> <<>>]
  /\ records = {}
  /\ cw_held = [t \in CwTokens |-> 0]
  /\ cw_earned = [u \in CwUsers |-> [t \in CwTokens |-> 0]]
  /\ cw_collected = [t \in CwTokens |-> 0]
  /\ given = [t \in CwTokens |-> 0]
  /\ owner_took = [t \in CwTokens |-> 0]

-----------------------------------------------------------------------------
\* Bound on the run: room for n more activities.
HasRoom(n) == counts[Chain("activities")] + n <= MaxCwActivities

is_user(u) == counts[Of(u, "activities")] > 0
has_payable(p) == cw_payables[p].host # NoWallet

(* initialize_user_if_is_new: what a wallet's first call adds before the   *)
(* rest.                                                                   *)
InitLists(u) == {Chain("activities"), Of(u, "activities")}
UserCounts(u) ==
  IF is_user(u) THEN counts ELSE Counted(counts, InitLists(u) \cup {Chain("users")})
UserIds(u) ==
  IF is_user(u) THEN ids
  ELSE Pushed(Pushed(ids, {Chain("users")}, UserId(u)), InitLists(u), UserActivityId(u, 1))
UserRecords(u) ==
  IF is_user(u) THEN records
  ELSE Saved(Saved(records, UserId(u), {Chain("users")}, UserCounts(u)),
             UserActivityId(u, 1), InitLists(u), UserCounts(u))

\* Every token a host asks for is supported, and no amount is zero.
can_allow(list) == \A ta \in list : token_details[ta.token].is_supported

-----------------------------------------------------------------------------
(* Calls of a host about its payables.                                     *)

\* save_activity_id_for_all and the record, for an activity of u on p.
ActivityLists(u, p) == {Chain("activities"), Of(u, "activities"), At(p, "activities")}

create_payable(u, list) ==
  LET p == counts[Chain("payables")] + 1
      entry == {Chain("payables"), Of(u, "payables")}
      c == Counted(UserCounts(u), entry \cup ActivityLists(u, p))
      id == PayableId(u, c[Of(u, "payables")])
      activity == UserActivityId(u, c[Of(u, "activities")])
  IN
  /\ p <= MaxCwPayables /\ HasRoom(2)
  /\ can_allow(list)
  /\ cw_payables' = [cw_payables EXCEPT ![p] =
                       [host |-> u, allowed |-> list, is_closed |-> FALSE]]
  /\ counts' = c
  /\ ids' = Pushed(Pushed(UserIds(u), entry, id), ActivityLists(u, p), activity)
  /\ records' = Saved(Saved(UserRecords(u), id, entry, c),
                      activity, ActivityLists(u, p), c)
  /\ UNCHANGED <<token_details, cw_balances, moneyVars>>

\* An update of p by its host: the new payable, with one activity.
record_update_payable_activity(p, payable) ==
  LET u == cw_payables[p].host
      c == Counted(counts, ActivityLists(u, p))
      activity == UserActivityId(u, c[Of(u, "activities")])
  IN
  /\ HasRoom(1)
  /\ cw_payables' = [cw_payables EXCEPT ![p] = payable]
  /\ counts' = c
  /\ ids' = Pushed(ids, ActivityLists(u, p), activity)
  /\ records' = Saved(records, activity, ActivityLists(u, p), c)
  /\ UNCHANGED <<token_details, cw_balances, moneyVars>>

close_payable(p) ==
  /\ has_payable(p) /\ ~cw_payables[p].is_closed
  /\ record_update_payable_activity(p, [cw_payables[p] EXCEPT !.is_closed = TRUE])

reopen_payable(p) ==
  /\ has_payable(p) /\ cw_payables[p].is_closed
  /\ record_update_payable_activity(p, [cw_payables[p] EXCEPT !.is_closed = FALSE])

update_payable_tokens_and_amounts(p, list) ==
  /\ has_payable(p)
  /\ can_allow(list)
  /\ record_update_payable_activity(p, [cw_payables[p] EXCEPT !.allowed = list])

-----------------------------------------------------------------------------
(* Transfers.                                                              *)

\* A token is moved by the bank or by its contract, as is_native_token says:
\* the other one does not know it.
Movable(t) == token_details[t].is_native_token <=> t \in Denoms

\* The bank refuses to send nothing; cw20-base 2.0 does not.
Sendable(t, a) == t \in Denoms => a > 0

\* What the totals of a token become with a payment and with a withdrawal.
PaidTotals(t, a) ==
  [token_details EXCEPT ![t] =
     [token_details[t] EXCEPT !.total_user_paid = @ + a,
                              !.total_payable_received = @ + a]]
WithdrawnTokenTotals(t, a, fees) ==
  [token_details EXCEPT ![t] =
     [token_details[t] EXCEPT !.total_withdrawn = @ + a,
                              !.total_withdrawal_fees_collected = @ + fees]]

Credited(p, t, a) == [cw_balances EXCEPT ![p][t] = @ + a]
\* mutant of Deducted: the fee stays on the payable
DeductedWithoutFees(p, t, a, fees) == [cw_balances EXCEPT ![p][t] = @ - (a - fees)]
Deducted(p, t, a, fees) == [cw_balances EXCEPT ![p][t] = @ - a]

\* mutant of BeforeLast: the place is not corrected
NotCorrected(c) == c
\* "subtracting 1 because we incremented the activities_count twice"
BeforeLast(c) == [c EXCEPT ![Chain("activities")] = @ - 1]

(* pay.  The two activities are counted together and listed one by one.    *)
pay(u, p, t, a) ==
  LET byUser == {Chain("user_payments"), Of(u, "payments")}
      byPayable == {Chain("payable_payments"), At(p, "payments"), At(p, "local_payments")}
      userActs == {Chain("activities"), Of(u, "activities")}
      payableActs == {Chain("activities"), At(p, "activities")}
      c == Counted(Counted(UserCounts(u), byUser \cup userActs), byPayable \cup payableActs)
      payment == UserPaymentId(u, c[Of(u, "payments")])
      received == PayablePaymentId(payment, c[At(p, "payments")])
      userAct == UserActivityId(u, c[Of(u, "activities")])
      payableAct == PayableActivityId(p, c[At(p, "activities")])
  IN
  /\ has_payable(p) /\ ~cw_payables[p].is_closed
  /\ token_details[t].is_supported
  /\ cw_payables[p].allowed = {} \/ [token |-> t, amount |-> a] \in cw_payables[p].allowed
  /\ Movable(t)
  /\ HasRoom(3)
  /\ cw_held' = [cw_held EXCEPT ![t] = @ + a]
  /\ counts' = c
  /\ cw_balances' = Credited(p, t, a)
  /\ token_details' = PaidTotals(t, a)
  /\ ids' = Pushed(Pushed(Pushed(Pushed(UserIds(u), byUser, payment), byPayable, received),
                          userActs, userAct), payableActs, payableAct)
  /\ records' = Saved(Saved(Saved(Saved(UserRecords(u), payment, byUser, c),
                                  received, byPayable, c),
                            userAct, userActs, BeforeLast(c)), payableAct, payableActs, c)
  /\ UNCHANGED <<cw_payables, cw_earned, cw_collected, given, owner_took>>

withdrawal_fees(t, a) ==
  LET percent == (a * FeePercentage) \div 10000
  IN  IF percent < token_details[t].max_withdrawal_fees THEN percent
      ELSE token_details[t].max_withdrawal_fees

full_amount_due(t, a) == a  \* mutant of amount_due
amount_due(t, a) == a - withdrawal_fees(t, a)

(* withdraw, by the payable's host.                                        *)
withdraw(p, t, a) ==
  LET u == cw_payables[p].host
      fees == withdrawal_fees(t, a)
      due == amount_due(t, a)
      entry == {Chain("withdrawals"), Of(u, "withdrawals"), At(p, "withdrawals")}
      c == Counted(counts, entry \cup ActivityLists(u, p))
      id == WithdrawalId(u, c[Of(u, "withdrawals")])
      activity == UserActivityId(u, c[Of(u, "activities")])
  IN
  /\ has_payable(p)
  /\ a <= cw_balances[p][t]
  /\ Movable(t) /\ Sendable(t, due) /\ Sendable(t, fees)
  /\ due + fees <= cw_held[t]
  /\ HasRoom(1)
  /\ cw_held' = [cw_held EXCEPT ![t] = @ - (due + fees)]
  /\ cw_earned' = [cw_earned EXCEPT ![u][t] = @ + due]
  /\ cw_collected' = [cw_collected EXCEPT ![t] = @ + fees]
  /\ counts' = c
  /\ cw_balances' = Deducted(p, t, a, fees)
  /\ token_details' = WithdrawnTokenTotals(t, a, fees)
  /\ ids' = Pushed(Pushed(ids, entry, id), ActivityLists(u, p), activity)
  /\ records' = Saved(Saved(records, id, entry, c), activity, ActivityLists(u, p), c)
  /\ UNCHANGED <<cw_payables, given, owner_took>>

-----------------------------------------------------------------------------
(* Calls of the owner, and money nobody asked for.                         *)

\* A Cw20 token's name must be an address, which a denom is not.
update_max_withdrawal_fees(t, is_native_token, max) ==
  /\ is_native_token \/ t \notin Denoms
  /\ token_details' = [token_details EXCEPT ![t] =
       [token_details[t] EXCEPT !.is_supported = TRUE,
                                !.is_native_token = is_native_token,
                                !.max_withdrawal_fees = max]]
  /\ UNCHANGED <<cw_payables, cw_balances, bookVars, moneyVars>>

owner_withdraw(t, a) ==
  /\ token_details[t].is_supported
  /\ Movable(t)
  /\ a <= cw_held[t]
  /\ owner_took[t] + a <= MaxStray
  /\ cw_held' = [cw_held EXCEPT ![t] = @ - a]
  /\ owner_took' = [owner_took EXCEPT ![t] = @ + a]
  /\ UNCHANGED <<token_details, cw_payables, cw_balances, bookVars,
                 cw_earned, cw_collected, given>>

\* Sent to the contract by a plain transfer, or as the funds of a call that
\* does not look at them (all but pay in a coin).
Stray(t, a) ==
  /\ given[t] + a <= MaxStray
  /\ cw_held' = [cw_held EXCEPT ![t] = @ + a]
  /\ given' = [given EXCEPT ![t] = @ + a]
  /\ UNCHANGED <<token_details, cw_payables, cw_balances, bookVars,
                 cw_earned, cw_collected, owner_took>>

CwNext ==
  \/ \E u \in CwUsers, l \in CwAllowedLists : create_payable(u, l)
  \/ \E p \in CwPayableIds : close_payable(p)
  \/ \E p \in CwPayableIds : reopen_payable(p)
  \/ \E p \in CwPayableIds, l \in CwAllowedLists : update_payable_tokens_and_amounts(p, l)
  \/ \E u \in CwUsers, p \in CwPayableIds, t \in CwTokens, a \in CwAmounts : pay(u, p, t, a)
  \/ \E p \in CwPayableIds, t \in CwTokens, a \in CwAmounts : withdraw(p, t, a)
  \/ \E t \in CwTokens, n \in BOOLEAN, m \in MaxFees : update_max_withdrawal_fees(t, n, m)
  \/ \E t \in CwTokens, a \in CwAmounts : owner_withdraw(t, a)
  \/ \E t \in CwTokens, a \in CwAmounts : Stray(t, a)

CwSpec == CwInit /\ [][CwNext]_cwVars

-----------------------------------------------------------------------------
CwTokenDetails ==
  [is_supported: BOOLEAN, is_native_token: BOOLEAN, max_withdrawal_fees: Nat,
   total_user_paid: Nat, total_payable_received: Nat, total_withdrawn: Nat,
   total_withdrawal_fees_collected: Nat]

CwPayable == [host: CwUsers \cup {NoWallet}, allowed: CwAllowedLists \cup {{}},
              is_closed: BOOLEAN]

CwIds ==
  ({"user", "payable", "payment", "withdrawal", "activity"} \X CwUsers \X Nat)
    \cup ({"payable_activity"} \X CwPayableIds \X Nat)
    \cup ({"payable_payment"} \X ({"payment"} \X CwUsers \X Nat) \X Nat)

CwTypeOK ==
  /\ token_details \in [CwTokens -> CwTokenDetails]
  /\ cw_payables \in [CwPayableIds -> CwPayable]
  /\ cw_balances \in [CwPayableIds -> [CwTokens -> Nat]]
  /\ counts \in [Lists -> Nat]
  /\ ids \in [Lists -> Seq(CwIds)]
  /\ records \subseteq [id: CwIds, list: Lists, at: Nat]
  /\ cw_held \in [CwTokens -> Nat]
  /\ cw_earned \in [CwUsers -> [CwTokens -> Nat]]
  /\ cw_collected \in [CwTokens -> Nat]
  /\ given \in [CwTokens -> Nat]
  /\ owner_took \in [CwTokens -> Nat]

(* The getters (chain_activity_id, user_payment_id, ...) accept the counts *)
(* 1..n of a list and look that entry up in its vector: it is there, and   *)
(* the record under that id exists and says it is the nth of that list.    *)
(* So no id is ever used twice, no vector misses an entry its counter      *)
(* counts, and the two activities of one payment are not mixed up.         *)
CwListsMatchCounts ==
  \A x \in Lists :
    /\ Len(ids[x]) = counts[x]
    /\ \A n \in 1..counts[x] : [id |-> ids[x][n], list |-> x, at |-> n] \in records

\* s adds the balances in t up, payable by payable.
AddsUp(s, t) ==
  /\ s[0] = 0
  /\ \A p \in CwPayableIds : s[p] = s[p - 1] + cw_balances[p][t]

(* What the payables are owed is there, but for what the owner took out of *)
(* the same pool beyond what the contract was sent unasked; and the token's*)
(* totals, kept beside the balances, say the same.                         *)
CwMoneyAddsUp ==
  \A t \in CwTokens :
    \E s \in [0..MaxCwPayables -> 0..token_details[t].total_payable_received] :
      /\ AddsUp(s, t)
      /\ cw_held[t] + owner_took[t] = s[MaxCwPayables] + given[t]
      /\ s[MaxCwPayables] + token_details[t].total_withdrawn
           = token_details[t].total_payable_received
      /\ cw_collected[t] = token_details[t].total_withdrawal_fees_collected

(* Between hosts and payers the contract is the escrow of the EVM ledger:  *)
(* the same promises, with the owner's and strangers' money left out.      *)
CwHosts == [p \in CwPayableIds |-> cw_payables[p].host]
CwVault == [t \in CwTokens |-> cw_held[t] + owner_took[t] - given[t]]

CwEscrow == INSTANCE Escrow WITH
  Users <- CwUsers, NoAddress <- NoWallet, Tokens <- CwTokens, Native <- NoWallet,
  PayableIds <- CwPayableIds, Amounts <- CwAmounts,
  host <- CwHosts, owed <- cw_balances, vault <- CwVault,
  earned <- cw_earned, collected <- cw_collected

CwImplementsEscrow == CwEscrow!Spec
=============================================================================
