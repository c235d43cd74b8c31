------------------------------- MODULE MCSync -------------------------------
(* Small instances of PayableSync for TLC: one chain with payables, one     *)
(* that keeps copies of them.                                              *)
EXTENDS PayableSync

CONSTANTS here, there, rent, shop, exact

MCChains == {here, there}
MCTwoPayables == {rent, shop}
MCOnePayable == {rent}
MCHomeOf == [p \in Payables |-> here]
MCLists == {AnyPayment, exact}
MCAnyList == {AnyPayment}

DomainsFromOne == [c \in Chains |-> 1]
DomainsWithZero == [c \in Chains |-> IF c = there THEN 0 ELSE 1]

Peer(c) == CHOOSE d \in Chains : d # c

\* Every setting made, with the given protocols for the peer of each chain.
Ready(c, protocol) ==
  [wormhole |-> TRUE, circle |-> TRUE, contracts |-> {Peer(c)},
   domains |-> {d \in {Peer(c)} : CircleDomain[d] # 0}, wormholeIds |-> {Peer(c)},
   protocol |-> [d \in Chains |-> IF d = c THEN "NONE" ELSE protocol]]

\* Straight after initialize: no setting made.
Bare ==
  [wormhole |-> FALSE, circle |-> FALSE, contracts |-> {}, domains |-> {},
   wormholeIds |-> {}, protocol |-> [d \in Chains |-> "NONE"]]

\* Updates go out by both networks, as _broadcastPayableUpdate does.
MCBoth == {[c \in Chains |-> Ready(c, "CCTP")]}
\* The receiver is ready; the home chain is still to be set up.
MCUnconfigured == {[c \in Chains |-> IF c = here THEN Bare ELSE Ready(c, "WORMHOLE")]}
\* The home chain is ready but for Wormhole, as Arc is; the peer has both.
MCCctpOnly == {[c \in Chains |-> [Ready(c, "CCTP") EXCEPT !.wormhole = (c # here)]]}

MCReadyOrNot == MCBoth \cup MCUnconfigured

MCNone == {}
MCCctpProtocol == {"CCTP"}
\* A truthful snapshot, one that runs ahead of the home chain, and one that
\* names the wrong chain.
Snapshot(chain, n) ==
  [payable |-> rent, chain |-> chain, nonce |-> n, actionType |-> Create,
   isClosed |-> FALSE, allowed |-> AnyPayment]
MCSnapshots == {Snapshot(here, 1), Snapshot(here, 3), Snapshot(there, 1)}

=============================================================================
