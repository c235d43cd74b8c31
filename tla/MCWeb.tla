------------------------------- MODULE MCWeb -------------------------------
(***************************************************************************)
(* A small web for TLC.                                                    *)
(***************************************************************************)
EXTENDS Web, TLC

CONSTANTS bill, alice, bob, near, far, elsewhere, nothing

WebChainOf == bill :> near
\* Every header anybody can send, and those of a session that is right.
AnyHeaders == [wallet: {alice, bob}, signer: {alice, bob}, chain: {near, far}]
OwnHeaders == {h \in AnyHeaders : h.signer = h.wallet}

\* The payer has two chains on one address, another address, and a chain of no use.
WebAccounts == {[addr |-> alice, chain |-> near], [addr |-> alice, chain |-> far],
                [addr |-> bob, chain |-> near], [addr |-> bob, chain |-> elsewhere]}

\* The page is opened without a wallet, or by alice: the rest is a change away.
WebOpened == {NoAccount, [addr |-> alice, chain |-> near]}

\* A page of two rows, one more, and a list that is short or empty.
WebLengths == "payments" :> 3 @@ "withdrawals" :> 1
WebLengthsAtFirst == "payments" :> 2 @@ "withdrawals" :> 0

\* Clicks, the updates of a session, and the reads of the table, are
\* interchangeable.
WebSymmetry == UNION {Permutations(Clicks), Permutations(Updates), Permutations(Reads)}

\* The table is opened on a page of payments, before any withdrawal.  A part
\* that is not run starts in one state.
Init ==
  /\ WebInit
  /\ wallet \in IF part = "checkout" THEN WebOpened ELSE {NoAccount}
  /\ part = "table" => length = WebLengthsAtFirst /\ cat = "payments"
  /\ part # "table" =>
       /\ \A c \in Categories : length[c] = 0
       /\ cache = {} /\ cat = "payments" /\ savedPage = 0 /\ rowsPerPage = 1

Spec == Init /\ [][WebNext]_webVars
FairDocuments == Init /\ part = "documents" /\ [][WebNext]_webVars /\ DocsFairness
=============================================================================
