------------------------------ MODULE Session ------------------------------
(***************************************************************************)
(* Who the page thinks is there.  The wallet (wagmi's account) can change  *)
(* at any moment; each change starts an update of currentUser, which asks  *)
(* the chain for the user and the wallet for a signature before it writes  *)
(* currentUser.  Updates overlap and the last to finish wins, so that for  *)
(* a while, or for good, currentUser is not the wallet's account.          *)
(*                                                                         *)
(* Wallets of EVM chains only.  Which signature was saved is left open:    *)
(* the server is told any (Documents).                                     *)
(***************************************************************************)
EXTENDS Integers

CONSTANTS
  Addresses,
  AppChains,        \* the chains the frontend knows
  OtherChain,       \* any other one a wallet may be on
  WalletAccounts,   \* what the wallet can be set to
  NoAccount,
  Updates,          \* bound: updates of currentUser at a time
  MaxChanges        \* bound: changes of the wallet and reloads of the page

Accounts == [addr: Addresses, chain: AppChains]

ASSUME SessionAssumption ==
  /\ WalletAccounts \subseteq [addr: Addresses, chain: AppChains \cup {OtherChain}]
  /\ OtherChain \notin AppChains
  /\ NoAccount \notin [addr: Addresses, chain: AppChains \cup {OtherChain}]
  /\ MaxChanges \in Nat

VARIABLES
  wallet,           \* evmAccount: the live account
  user,             \* auth.currentUser
  updates,          \* runs of updateCurrentUser
  changes

sessionVars == <<wallet, user, updates, changes>>

NoUpdate == [step |-> "none", account |-> NoAccount]

\* What a page does when it is opened: one update, for the wallet's account.
FirstUpdates(a) ==
  {[k \in Updates |-> IF k = first /\ a \in Accounts THEN [step |-> "fetch", account |-> a]
                                                     ELSE NoUpdate] :
     first \in Updates}

SessionInit ==
  /\ wallet \in WalletAccounts \cup {NoAccount}
  /\ user = NoAccount
  /\ updates \in FirstUpdates(wallet)
  /\ changes = 0

MayChange == changes < MaxChanges /\ changes' = changes + 1

\* getCurrentUser reads the account and its chain before it waits.  A wallet
\* on no chain of ours signs the user out at once.
StartUpdate(a) ==
  IF a \in Accounts
    THEN /\ \E k \in Updates :
              /\ updates[k] = NoUpdate
              /\ updates' = [updates EXCEPT ![k] = [step |-> "fetch", account |-> a]]
         /\ UNCHANGED user
    ELSE user' = NoAccount /\ UNCHANGED updates

(* The watch on the wallet's address and chain.                            *)
WalletChanges(a) ==
  /\ a # wallet
  /\ MayChange
  /\ wallet' = a
  /\ StartUpdate(a)

EndUpdate(k) == updates' = [updates EXCEPT ![k] = NoUpdate]

\* mutant of SignIn: the account is read again after the wait
SignInLive(k) == user' = wallet /\ EndUpdate(k)
SignIn(k) == user' = updates[k].account /\ EndUpdate(k)

(* The user was read, and a signature is in localStorage.                  *)
SignInAgain(k) ==
  /\ updates[k].step = "fetch"
  /\ SignIn(k)
  /\ UNCHANGED <<wallet, changes>>

(* The user was read, the live wallet is asked to sign.                    *)
AskToSign(k) ==
  /\ updates[k].step = "fetch"
  /\ wallet # NoAccount
  /\ updates' = [updates EXCEPT ![k].step = "sign"]
  /\ UNCHANGED <<wallet, user, changes>>

Signed(k) ==
  /\ updates[k].step = "sign"
  /\ SignIn(k)
  /\ UNCHANGED <<wallet, changes>>

(* No signature: whatever wallet is connected by now is disconnected.      *)
NotSigned(k) ==
  /\ \/ updates[k].step = "sign"
     \/ updates[k].step = "fetch" /\ wallet = NoAccount
  /\ wallet' = NoAccount
  /\ user' = NoAccount
  /\ EndUpdate(k)
  /\ UNCHANGED changes

(* The chain did not answer.                                               *)
FetchFails(k) ==
  /\ updates[k].step = "fetch"
  /\ user' = NoAccount
  /\ EndUpdate(k)
  /\ UNCHANGED <<wallet, changes>>

\* A new user is set, even if it is the same one again.
SomebodySignsIn == \E k \in Updates : SignInAgain(k) \/ Signed(k)

SessionNext ==
  \/ \E a \in WalletAccounts \cup {NoAccount} : WalletChanges(a)
  \/ \E k \in Updates :
       SignInAgain(k) \/ AskToSign(k) \/ Signed(k) \/ NotSigned(k) \/ FetchFails(k)

SessionTypeOK ==
  /\ wallet \in WalletAccounts \cup {NoAccount}
  /\ user \in Accounts \cup {NoAccount}
  /\ updates \in [Updates -> [step: {"fetch", "sign"}, account: Accounts] \cup {NoUpdate}]
  /\ changes \in 0..MaxChanges
=============================================================================
