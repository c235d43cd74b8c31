------------------------------ MODULE MCForeign ------------------------------
(* Small instances of ForeignPayments for TLC: one chain with a payable and *)
(* one whose users pay for it.                                              *)
EXTENDS ForeignPayments

CONSTANTS sepolia, arc, rent, ann, usdc, eurc, eurcArc

MCChains == {sepolia, arc}
MCPayables == {rent}
MCHomeOf == [p \in Payables |-> sepolia]
MCTokens == {usdc, eurc, eurcArc}

\* usdc has one address on both chains, EURC one on each.
MCSupported == [c \in Chains |-> IF c = sepolia THEN {usdc, eurc} ELSE {usdc, eurcArc}]
MCMinted ==
  [x \in Chains \X Tokens \X Chains |->
     CASE x[1] = x[3] -> NoToken
       [] x[2] = usdc -> usdc
       [] x[2] = eurc /\ x[1] = sepolia -> eurcArc
       [] x[2] = eurcArc /\ x[1] = arc -> eurc
       [] OTHER -> NoToken]

\* Without its own domain registered only a chain of domain 0 can receive.
SepoliaIsZero == [c \in Chains |-> IF c = sepolia THEN 0 ELSE 10]

ASSUME MCTokensAreMutual == MintingIsMutual /\ NoCrossedTokens

MCAmounts == 1..3
MCOneAndTwo == {1, 2}
Exactly(t, a) == {[token |-> t, amount |-> a]}
MCAnything == {{}}
MCMixedLists == {{}, Exactly(usdc, 2)}
MCOnePayer == {ann}
MCNone == {}
MCEurc == {eurc}

=============================================================================
