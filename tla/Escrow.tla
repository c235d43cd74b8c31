------------------------------- MODULE Escrow -------------------------------
(***************************************************************************)
(* What the ledger of payables promises, with every call atomic: payers    *)
(* deposit into a payable, and money leaves the vault only against what a  *)
(* payable is owed, to that payable's host less a fee.  CbLedger is shown  *)
(* to implement it.                                                        *)
(***************************************************************************)
EXTENDS Integers

CONSTANTS Users, NoAddress, Tokens, Native, PayableIds, Amounts

VARIABLES
  host,      \* who each payable belongs to
  owed,      \* what each payable can still withdraw, per token
  vault,     \* what is there to pay it with
  earned,    \* what each user has been paid as a host
  collected  \* what was taken as fees

vars == <<host, owed, vault, earned, collected>>

Init ==
  /\ host = [p \in PayableIds |-> NoAddress]
  /\ owed = [p \in PayableIds |-> [t \in Tokens |-> 0]]
  /\ vault = [t \in Tokens |-> 0]
  /\ earned = [u \in Users |-> [t \in Tokens |-> 0]]
  /\ collected = [t \in Tokens |-> 0]

Open(p, u) ==
  /\ host[p] = NoAddress
  /\ host' = [host EXCEPT ![p] = u]
  /\ UNCHANGED <<owed, vault, earned, collected>>

\* Paying a gross amount a out to the host of p, fee included.
Share(p, t, a, fee) ==
  /\ earned' = [earned EXCEPT ![host[p]][t] = @ + (a - fee)]
  /\ collected' = [collected EXCEPT ![t] = @ + fee]

\* Native currency sent along with a deposit of another token is kept.
Deposit(p, t, a, stray) ==
  /\ host[p] # NoAddress
  /\ owed' = [owed EXCEPT ![p][t] = @ + a]
  /\ vault' = [x \in Tokens |-> IF x = t THEN vault[x] + a
                                ELSE IF x = Native THEN vault[x] + stray
                                ELSE vault[x]]
  /\ UNCHANGED <<host, earned, collected>>

PayOut(p, t, a) ==
  /\ host[p] # NoAddress
  /\ a <= owed[p][t]
  /\ vault' = [vault EXCEPT ![t] = @ - a]
  /\ owed' = [owed EXCEPT ![p][t] = @ - a]
  /\ UNCHANGED host
  /\ \E fee \in 0..a : Share(p, t, a, fee)

\* A deposit paid out at once.
PassThrough(p, t, a, stray) ==
  /\ host[p] # NoAddress
  /\ vault' = [x \in Tokens |-> IF x # t /\ x = Native THEN vault[x] + stray
                                ELSE vault[x]]
  /\ UNCHANGED <<host, owed>>
  /\ \E fee \in 0..a : Share(p, t, a, fee)

\* Money that comes without a deposit.
Gift(t, a) ==
  /\ vault' = [vault EXCEPT ![t] = @ + a]
  /\ UNCHANGED <<host, owed, earned, collected>>

Next ==
  \/ \E t \in Tokens, a \in Amounts : Gift(t, a)
  \/ \E p \in PayableIds, u \in Users : Open(p, u)
  \/ \E p \in PayableIds, t \in Tokens, a \in Amounts :
       \/ PayOut(p, t, a)
       \/ \E stray \in {0, a} : Deposit(p, t, a, stray) \/ PassThrough(p, t, a, stray)

Spec == Init /\ [][Next]_vars

=============================================================================
