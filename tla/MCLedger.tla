------------------------------ MODULE MCLedger ------------------------------
(***************************************************************************)
(* Small ledgers for TLC.                                                  *)
(***************************************************************************)
EXTENDS Ledgers

CONSTANTS host, payer, eth, usdc, vaa1, vaa2, burn1, burn2, atom, cw20

MCUsers == {host, payer}
MCTokens == {eth, usdc}
MCHostOnly == {host}

NoRestriction == {}
ExactlyTwo == {[token |-> usdc, amount |-> 2]}

MCAllowedLists == {NoRestriction, ExactlyTwo}
MCFreeOnly == {NoRestriction}

\* Two payments made on another chain, to the first payable.
MCInbound ==
  {[vaa |-> vaa1, circleNonce |-> burn1, payable |-> 1, token |-> usdc, amount |-> 1],
   [vaa |-> vaa2, circleNonce |-> burn2, payable |-> 1, token |-> usdc, amount |-> 2]}
MCOneInbound == {m \in MCInbound : m.vaa = vaa1}
MCNoInbound == {}

CwExactly == {[token |-> cw20, amount |-> 3]}
MCCwAllowedLists == {NoRestriction, CwExactly}
=============================================================================
