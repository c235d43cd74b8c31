------------------------------ MODULE MCRelayer ------------------------------
(* Small instances of Relayer for TLC: the three chains of the relayer's   *)
(* configuration, or two of them, and a few transactions.                  *)
EXTENDS Relayer

CONSTANTS sepolia, mega, arc, rent, create, close, pay, abroad

MCTwoChains == {sepolia, mega}
MCThreeChains == {sepolia, mega, arc}
MCPayables == {rent}
MCWormhole == {sepolia, mega} \cap Chains
MCCctp == {sepolia, arc} \cap Chains

Event(kind, chain) == [kind |-> kind, payable |-> rent, payableChain |-> chain]

\* create and close broadcast an update; pay is for a payable of another
\* chain; abroad is received, withdrawn, and paid to a chain nobody watches.
MCEventsOf ==
  [tx \in Txs |->
     CASE tx = create -> <<Event("CreatedPayable", sepolia),
                           Event("PayableUpdateBroadcasted", sepolia)>>
       [] tx = close -> <<Event("PayableUpdateBroadcasted", sepolia)>>
       [] tx = pay -> <<Event("UserPaid", mega)>>
       [] tx = abroad -> <<Event("PayableReceived", sepolia),
                           Event("Withdrew", sepolia),
                           Event("UserPaid", UnknownChain)>>]

MCFromSepolia == [tx \in Txs |-> sepolia]

MCUpdateAndPayment == {close, pay}
MCReceipts == {abroad, create}
MCCreate == {create}

=============================================================================
