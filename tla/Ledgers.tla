------------------------------ MODULE Ledgers ------------------------------
(***************************************************************************)
(* The contract of one EVM chain, and that of one CosmWasm chain.  They    *)
(* share no state, so a behaviour is one of the two; part says of which.   *)
(***************************************************************************)
EXTENDS CbLedger, CwLedger

VARIABLE part

ledgerVars == <<vars, cwVars, part>>

LedgersInit == part \in {"evm", "cosmwasm"} /\ Init /\ CwInit

LedgersNext ==
  \/ part = "evm" /\ Next /\ UNCHANGED <<cwVars, part>>
  \/ part = "cosmwasm" /\ CwNext /\ UNCHANGED <<vars, part>>

LedgersSpec == LedgersInit /\ [][LedgersNext]_ledgerVars

\* CbLedger's fairness: a transaction of the EVM runs to its end.
FairLedgersSpec == LedgersSpec /\ WF_vars(PayCollector) /\ WF_vars(SettleWithdrawal)

-----------------------------------------------------------------------------
(* The states of both ledgers are well formed.                             *)
TypesOK == TypeOK /\ CwTypeOK
=============================================================================
