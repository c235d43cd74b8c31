------------------------------ MODULE Checkout ------------------------------
(***************************************************************************)
(* The page that pays a payable, in a browser whose wallet and currentUser *)
(* change as Session says.  A click starts a payment that runs through an  *)
(* approval and the payment itself, each simulated, confirmed in the       *)
(* wallet, sent, and waited for; every step reads the session or the       *)
(* wallet anew.  The page hides its form while isPaying, which is set only *)
(* after the first await: two clicks can start two payments.               *)
(*                                                                         *)
(* On the chain only what the page depends on is modelled: allowances, and *)
(* that pay is for payables of the same chain and payForeignWithCircle for *)
(* those of another one.  For its own reasons the contract may refuse any  *)
(* call (see CbLedger, ForeignPayments).                                   *)
(***************************************************************************)
EXTENDS Session, Sequences

CONSTANTS
  PayableChain,     \* where the payable lives
  Prices,           \* amounts the payer may choose
  Clicks            \* bound: payments started

ASSUME CheckoutAssumption ==
  /\ PayableChain \in AppChains
  /\ Prices \subseteq Nat \ {0}

VARIABLES
  chosen,           \* selectedConfig: its amount, 0 if none
  isPaying,
  flows,            \* runs of pay(), one for each click
  allowance,        \* ERC-20: what our contract may take from an account
  payments,         \* the chain: payments made, by click
  shown             \* history: the payment the wallet asked to confirm, by click

payVars == <<chosen, isPaying, flows, allowance, payments, shown>>
chainVars == <<allowance, payments, shown>>
checkoutVars == <<sessionVars, payVars>>

NoFlow == [step |-> "idle", kind |-> "none", account |-> NoAccount, amount |-> 0,
           tx |-> "none", lost |-> FALSE]
Flow == [step: {"idle", "balance", "fee", "allowance", "approve", "approvePrompt",
                "approveSent", "pay", "payPrompt", "paySent", "refresh", "paid",
                "failed", "stuck", "gone"},
         kind: {"none", "pay", "foreign"},
         account: Accounts \cup {NoAccount},
         amount: Prices \cup {0},
         \* the last transaction sent, and what became of it
         tx: {"none", "approving", "approved", "paying", "paid", "reverted"},
         lost: BOOLEAN]

CheckoutInit ==
  /\ SessionInit
  /\ chosen = 0
  /\ isPaying = FALSE
  /\ flows = [i \in Clicks |-> NoFlow]
  /\ allowance = [a \in Accounts |-> 0]
  /\ payments = [i \in Clicks |-> <<>>]
  /\ shown = [i \in Clicks |-> <<>>]

Goto(i, step) == flows' = [flows EXCEPT ![i].step = step]
\* exec returned null: the form is shown again.
Fail(i) == Goto(i, "failed") /\ isPaying' = FALSE

-----------------------------------------------------------------------------
(* The session changes; the form is reset whenever currentUser is set.     *)
SessionStep ==
  /\ SessionNext
  /\ chosen' = IF user' # user \/ SomebodySignsIn THEN 0 ELSE chosen
  /\ UNCHANGED <<isPaying, flows, chainVars>>

(* The page is reloaded: it forgets everything, the chain nothing.         *)
Reload ==
  /\ MayChange
  /\ flows' = [i \in Clicks |->
       IF flows[i].step \in {"idle", "paid", "failed"} THEN flows[i]
                                                       ELSE [flows[i] EXCEPT !.step = "gone"]]
  /\ isPaying' = FALSE
  /\ chosen' = 0
  /\ user' = NoAccount
  /\ updates' \in FirstUpdates(wallet)
  /\ UNCHANGED <<wallet, chainVars>>

Choose(m) ==
  /\ ~isPaying
  /\ chosen' = m
  /\ UNCHANGED <<sessionVars, isPaying, flows, chainVars>>

(* pay(): the form's button.                                               *)
Click(i) ==
  /\ ~isPaying
  /\ user # NoAccount
  /\ flows[i] = NoFlow
  /\ Goto(i, "balance")
  /\ UNCHANGED <<sessionVars, chosen, isPaying, chainVars>>

(* The balance was read and is too low, or nothing is chosen (any more).   *)
NotValid(i) ==
  /\ flows[i].step = "balance"
  /\ flows' = [flows EXCEPT ![i] = NoFlow]
  /\ UNCHANGED <<sessionVars, chosen, isPaying, chainVars>>

\* payment.exec takes the route by currentUser, evm.pay the wallet's account.
Route == IF user.chain = PayableChain THEN "pay" ELSE "foreign"

(* The form is valid: payment.exec, up to the first call it waits for.     *)
Exec(i) ==
  /\ flows[i].step = "balance"
  /\ chosen # 0
  /\ IF user = NoAccount \/ wallet \notin Accounts
       THEN Fail(i)
       ELSE /\ isPaying' = TRUE
            /\ flows' = [flows EXCEPT ![i] =
                 [NoFlow EXCEPT !.step = IF Route = "pay" THEN "allowance" ELSE "fee",
                                !.kind = Route, !.account = wallet, !.amount = chosen]]
  /\ UNCHANGED <<sessionVars, chosen, chainVars>>

(* payForeignWithCircle has the fee, and asks for the allowance of the     *)
(* address the wallet has by now.  Without one the call throws.            *)
FeeRead(i) ==
  /\ flows[i].step = "fee"
  /\ IF wallet = NoAccount
       THEN Goto(i, "stuck")
       ELSE flows' = [flows EXCEPT ![i].step = "allowance", ![i].account.addr = wallet.addr]
  /\ UNCHANGED <<sessionVars, chosen, isPaying, chainVars>>

(* A call outside of writeContract's try fails: nothing catches it, and    *)
(* isPaying stays set.                                                     *)
ReadFails(i) ==
  /\ flows[i].step \in {"fee", "allowance"}
  /\ Goto(i, "stuck")
  /\ UNCHANGED <<sessionVars, chosen, isPaying, chainVars>>

\* writeContract with the wallet's account.  The addresses it is called with
\* are those of the flow's chain: there is nothing to call on another one.
Write(i, step) ==
  IF wallet \in Accounts /\ wallet.chain = flows[i].account.chain
    THEN /\ flows' = [flows EXCEPT ![i].step = step, ![i].account = wallet]
         /\ UNCHANGED isPaying
    ELSE Fail(i)

AllowanceRead(i) ==
  /\ flows[i].step = "allowance"
  /\ Write(i, IF allowance[flows[i].account] < flows[i].amount THEN "approve" ELSE "pay")
  /\ UNCHANGED <<sessionVars, chosen, chainVars>>

\* What the contract asks of a payment, whatever else it may object to.
Accepts(f) ==
  /\ f.amount <= allowance[f.account]
  /\ f.kind = "pay" <=> f.account.chain = PayableChain

(* The simulation went well, and the wallet, still on the same account,    *)
(* shows the transaction.                                                  *)
PromptApproval(i) ==
  /\ flows[i].step = "approve"
  /\ wallet = flows[i].account
  /\ Goto(i, "approvePrompt")
  /\ UNCHANGED <<sessionVars, chosen, isPaying, chainVars>>

PromptPayment(i) ==
  /\ flows[i].step = "pay"
  /\ wallet = flows[i].account
  /\ Accepts(flows[i])
  /\ Goto(i, "payPrompt")
  /\ shown' = [shown EXCEPT ![i] =
       <<[account |-> wallet, kind |-> flows[i].kind, amount |-> flows[i].amount]>>]
  /\ UNCHANGED <<sessionVars, chosen, isPaying, allowance, payments>>

(* The simulation or the wallet refuses, or the payer does.                *)
Refuse(i) ==
  /\ flows[i].step \in {"approve", "approvePrompt", "pay", "payPrompt"}
  /\ Fail(i)
  /\ UNCHANGED <<sessionVars, chosen, chainVars>>

(* The payer confirms.                                                     *)
ConfirmApproval(i) ==
  /\ flows[i].step = "approvePrompt"
  /\ flows' = [flows EXCEPT ![i].step = "approveSent", ![i].tx = "approving"]
  /\ UNCHANGED <<sessionVars, chosen, isPaying, chainVars>>

\* mutant of ConfirmPayment: sent from the account the wallet is on by now
ConfirmFromWallet(i) ==
  /\ flows[i].step = "payPrompt"
  /\ wallet \in Accounts
  /\ flows' = [flows EXCEPT ![i].step = "paySent", ![i].tx = "paying", ![i].account = wallet]
  /\ UNCHANGED <<sessionVars, chosen, isPaying, chainVars>>

ConfirmPayment(i) ==
  /\ flows[i].step = "payPrompt"
  /\ flows' = [flows EXCEPT ![i].step = "paySent", ![i].tx = "paying"]
  /\ UNCHANGED <<sessionVars, chosen, isPaying, chainVars>>

(* The chain includes the transaction, whoever still waits for it.         *)
\* mutant of MineApproval: the approval adds to what was allowed
MineIncrease(i) ==
  /\ flows[i].tx = "approving"
  /\ allowance' = [allowance EXCEPT ![flows[i].account] = @ + flows[i].amount]
  /\ flows' = [flows EXCEPT ![i].tx = "approved"]
  /\ UNCHANGED <<sessionVars, chosen, isPaying, payments, shown>>

MineApproval(i) ==
  /\ flows[i].tx = "approving"
  /\ allowance' = [allowance EXCEPT ![flows[i].account] = flows[i].amount]
  /\ flows' = [flows EXCEPT ![i].tx = "approved"]
  /\ UNCHANGED <<sessionVars, chosen, isPaying, payments, shown>>

MinePayment(i) ==
  /\ flows[i].tx = "paying"
  /\ Accepts(flows[i])
  /\ allowance' = [allowance EXCEPT ![flows[i].account] = @ - flows[i].amount]
  /\ payments' = [payments EXCEPT ![i] = Append(@,
       [account |-> flows[i].account, kind |-> flows[i].kind, amount |-> flows[i].amount])]
  /\ flows' = [flows EXCEPT ![i].tx = "paid"]
  /\ UNCHANGED <<sessionVars, chosen, isPaying, shown>>

MineRevert(i) ==
  /\ flows[i].tx = "paying"
  /\ flows' = [flows EXCEPT ![i].tx = "reverted"]
  /\ UNCHANGED <<sessionVars, chosen, isPaying, chainVars>>

(* waitForTransactionReceipt returns; it throws for a reverted one.        *)
Approved(i) ==
  /\ flows[i].step = "approveSent"
  /\ flows[i].tx = "approved"
  /\ Write(i, "pay")
  /\ UNCHANGED <<sessionVars, chosen, chainVars>>

\* mutant of Reverted: the receipt is taken for a success, whatever its status
RevertedUnnoticed(i) ==
  /\ flows[i].step = "paySent"
  /\ flows[i].tx = "reverted"
  /\ Goto(i, "paid")
  /\ UNCHANGED <<sessionVars, chosen, isPaying, chainVars>>

Reverted(i) ==
  /\ flows[i].step = "paySent"
  /\ flows[i].tx = "reverted"
  /\ Fail(i)
  /\ UNCHANGED <<sessionVars, chosen, chainVars>>

(* refreshUser reads the wallet's account, if somebody is signed in.       *)
Included(i) ==
  /\ flows[i].step = "paySent"
  /\ flows[i].tx = "paid"
  /\ IF user = NoAccount
       THEN Goto(i, "paid")
       ELSE flows' = [flows EXCEPT ![i].step = "refresh",
                                   ![i].account = IF wallet \in Accounts THEN wallet ELSE NoAccount]
  /\ UNCHANGED <<sessionVars, chosen, isPaying, chainVars>>

(* currentUser is set to the account read, signed in or not, or to null;   *)
(* the page goes to the receipt.                                           *)
Receipt(i) ==
  /\ flows[i].step = "refresh"
  /\ user' \in {flows[i].account, NoAccount}
  /\ chosen' = 0
  /\ Goto(i, "paid")
  /\ UNCHANGED <<wallet, updates, changes, isPaying, chainVars>>

(* The connection fails while the page waits: for it the payment failed.   *)
LoseTrack(i) ==
  /\ flows[i].step \in {"approveSent", "paySent"}
  /\ flows' = [flows EXCEPT ![i].step = "failed", ![i].lost = TRUE]
  /\ isPaying' = FALSE
  /\ UNCHANGED <<sessionVars, chosen, chainVars>>

CheckoutNext ==
  \/ SessionStep
  \/ Reload
  \/ \E m \in Prices : Choose(m)
  \/ \E i \in Clicks :
       \/ Click(i) \/ NotValid(i) \/ Exec(i) \/ FeeRead(i) \/ ReadFails(i)
       \/ AllowanceRead(i) \/ Refuse(i) \/ PromptApproval(i) \/ PromptPayment(i)
       \/ ConfirmApproval(i) \/ ConfirmPayment(i)
       \/ MineApproval(i) \/ MinePayment(i) \/ MineRevert(i)
       \/ Approved(i) \/ Reverted(i) \/ Included(i) \/ Receipt(i) \/ LoseTrack(i)

CheckoutSpec == CheckoutInit /\ [][CheckoutNext]_checkoutVars

-----------------------------------------------------------------------------
Payments == [account: Accounts, kind: {"pay", "foreign"}, amount: Prices]

CheckoutTypeOK ==
  /\ SessionTypeOK
  /\ chosen \in Prices \cup {0}
  /\ isPaying \in BOOLEAN
  /\ flows \in [Clicks -> Flow]
  /\ allowance \in [Accounts -> Nat]
  /\ payments \in [Clicks -> Seq(Payments)]
  /\ shown \in [Clicks -> Seq(Payments)]

(* "After a successful payment, Chainbills generates a receipt ... and     *)
(* redirects the payer to the receipt link" (README.md:60): the page goes  *)
(* to a receipt only of a payment that was made; and where it says that a  *)
(* payment failed none was made and none is on its way, unless the         *)
(* connection broke after it was sent, or somebody reloaded the page.      *)
OutcomeIsTrue ==
  \A i \in Clicks :
    /\ flows[i].step \in {"refresh", "paid"} => payments[i] # <<>>
    /\ flows[i].step = "failed" /\ ~flows[i].lost =>
         payments[i] = <<>> /\ flows[i].tx # "paying"

(* Whatever the wallet and currentUser do in between, a click makes at     *)
(* most one payment, the very one the wallet showed for the payer to       *)
(* confirm: from that account, of that amount, and by the route the        *)
(* payable's chain asks for, though exec takes the route by currentUser    *)
(* and evm.pay the account from the wallet.                                *)
PaymentsAsConfirmed ==
  \A i \in Clicks :
    payments[i] # <<>> =>
      /\ payments[i] = shown[i]
      /\ payments[i][1].kind = "pay" <=> payments[i][1].account.chain = PayableChain

(* An approval is for one payment, and never adds to another: with two     *)
(* payments at once, or one given up after its approval, our contract may  *)
(* still take no more from an account than the dearest of them.            *)
AllowanceIsBounded ==
  \A a \in Accounts : allowance[a] # 0 =>
    \E i \in Clicks : flows[i].tx # "none" /\ allowance[a] <= flows[i].amount
=============================================================================
