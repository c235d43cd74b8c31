----------------------------- MODULE Documents -----------------------------
(***************************************************************************)
(* What the database says of a payable.  Two writers share its documents,  *)
(* /payables/{id} and /chains/{chain}/payables/{id}: the server, which     *)
(* adds the description a host posts, and the relayer, which copies what   *)
(* the contract says; a backfill is a second relayer process.  All of them *)
(* merge, none of them locks, each writes the two documents one by one,    *)
(* and any call may fail.                                                  *)
(*                                                                         *)
(* A description stands here for the wallet whose signature came with it.  *)
(* The headers of a request are whatever the browser's session holds, or   *)
(* what anybody sends: see Session for how the two can disagree.           *)
(***************************************************************************)
EXTENDS Integers

CONSTANTS
  PayableIds,
  ChainOf,          \* the chain each payable is created on
  DocChains,
  ServerChains,     \* the chains the server's evmReadContract knows
  HostWallets,
  Nobody,           \* no wallet, no description
  Nowhere,          \* no chain name
  Headers,          \* the headers of requests: wallet-address, signer, chain-name
  Requests,
  Indexers,         \* the relayer's processes that index
  MaxFailures       \* bound: failing calls to the database or a chain

ASSUME DocumentsAssumption ==
  /\ ChainOf \in [PayableIds -> DocChains]
  /\ ServerChains \subseteq DocChains
  /\ Headers \subseteq [wallet: HostWallets, signer: HostWallets, chain: DocChains]
  /\ Nobody \notin HostWallets
  /\ Nowhere \notin DocChains
  /\ MaxFailures \in Nat

VARIABLES
  hostOf,           \* the contract: each payable's host, Nobody until created
  top,              \* /payables/{id}
  sub,              \* /chains/{chain}/payables/{id}
  posts,            \* the server's requests in progress
  indexing,         \* what each relayer process has left to write
  failures

docsVars == <<hostOf, top, sub, posts, indexing, failures>>

Fields == {"host", "chain", "description", "indexed"}
Blank == [host |-> Nobody, chain |-> Nowhere, description |-> Nobody, indexed |-> FALSE]
Doc == [host: HostWallets \cup {Nobody}, chain: DocChains \cup {Nowhere},
        description: HostWallets \cup {Nobody}, indexed: BOOLEAN]

\* mutant of Merge: set(data)
Replace(doc, data) == [f \in Fields |-> IF f \in DOMAIN data THEN data[f] ELSE Blank[f]]
\* set(data, { merge: true }): the fields data has are replaced, the others stay.
Merge(doc, data) == [f \in Fields |-> IF f \in DOMAIN data THEN data[f] ELSE doc[f]]

Post == [payable: PayableIds, headers: Headers, step: {"check", "top", "sub"}]
NoPost == [step |-> "none"]
NoIndex == [left |-> {}]

DocsInit ==
  /\ hostOf = [p \in PayableIds |-> Nobody]
  /\ top = [p \in PayableIds |-> Blank]
  /\ sub = [p \in PayableIds |-> Blank]
  /\ posts = [r \in Requests |-> NoPost]
  /\ indexing = [j \in Indexers |-> NoIndex]
  /\ failures = 0

MayFail == failures < MaxFailures /\ failures' = failures + 1

-----------------------------------------------------------------------------
(* A host creates a payable: the contract knows its host from then on.     *)
CreateOnChain(p, h) ==
  /\ hostOf[p] = Nobody
  /\ hostOf' = [hostOf EXCEPT ![p] = h]
  /\ UNCHANGED <<top, sub, posts, indexing, failures>>

(* POST /payable, with some headers.                                       *)
PostPayable(r, p, hd) ==
  /\ posts[r] = NoPost
  /\ posts' = [posts EXCEPT ![r] = [payable |-> p, headers |-> hd, step |-> "check"]]
  /\ UNCHANGED <<hostOf, top, sub, indexing, failures>>

\* validateAuth: the signature is the wallet's own.
Authentic(hd) == hd.signer = hd.wallet

\* evmFetch: the contract's answer, for a chain the server knows.
CanFetch(p, chain) == chain \in ServerChains /\ chain = ChainOf[p] /\ hostOf[p] # Nobody

\* mutant of Accepted: any wallet that can sign is taken for the host
AcceptedOfAnybody(p, hd) == Authentic(hd) /\ CanFetch(p, hd.chain)
Accepted(p, hd) == Authentic(hd) /\ CanFetch(p, hd.chain) /\ hd.wallet = hostOf[p]

\* What createPayable writes, to both documents.
PostData(p, hd) == [description |-> hd.signer, host |-> hostOf[p], chain |-> hd.chain]

Answer(r) == posts' = [posts EXCEPT ![r] = NoPost]

(* The middleware and the checks of createPayable: the caller must be the  *)
(* payable's host by what the contract says.                               *)
CheckPost(r) ==
  /\ posts[r].step = "check"
  /\ IF Accepted(posts[r].payable, posts[r].headers)
       THEN posts' = [posts EXCEPT ![r].step = "top"]
       ELSE Answer(r)
  /\ UNCHANGED <<hostOf, top, sub, indexing, failures>>

PostTop(r) ==
  LET p == posts[r].payable IN
  /\ posts[r].step = "top"
  /\ top' = [top EXCEPT ![p] = Merge(top[p], PostData(p, posts[r].headers))]
  /\ posts' = [posts EXCEPT ![r].step = "sub"]
  /\ UNCHANGED <<hostOf, sub, indexing, failures>>

PostSub(r) ==
  LET p == posts[r].payable IN
  /\ posts[r].step = "sub"
  /\ sub' = [sub EXCEPT ![p] = Merge(sub[p], PostData(p, posts[r].headers))]
  /\ Answer(r)
  /\ UNCHANGED <<hostOf, top, indexing, failures>>

(* Any of the three calls fails: the answer is 400 and nothing is undone.  *)
PostFails(r) ==
  /\ posts[r] # NoPost
  /\ MayFail
  /\ Answer(r)
  /\ UNCHANGED <<hostOf, top, sub, indexing>>

\* GET /payable/:id: what getPayable finds.  It throws unless both are there.
Found(p) == top[p].chain # Nowhere /\ top[p].description # Nobody

-----------------------------------------------------------------------------
(* indexPayable, for an event seen the first time or again.  The two       *)
(* writes are made at once and land in any order.                          *)
IndexPayable(j, p) ==
  /\ indexing[j].left = {}
  /\ hostOf[p] # Nobody
  /\ indexing' = [indexing EXCEPT ![j] = [payable |-> p, left |-> {"top", "sub"}]]
  /\ UNCHANGED <<hostOf, top, sub, posts, failures>>

IndexData(p) == [host |-> hostOf[p], chain |-> ChainOf[p], indexed |-> TRUE]

Settle(j, where) == indexing' = [indexing EXCEPT ![j].left = @ \ {where}]

IndexTop(j) ==
  LET p == indexing[j].payable IN
  /\ "top" \in indexing[j].left
  /\ top' = [top EXCEPT ![p] = Merge(top[p], IndexData(p))]
  /\ Settle(j, "top")
  /\ UNCHANGED <<hostOf, sub, posts, failures>>

IndexSub(j) ==
  LET p == indexing[j].payable IN
  /\ "sub" \in indexing[j].left
  /\ sub' = [sub EXCEPT ![p] = Merge(sub[p], IndexData(p))]
  /\ Settle(j, "sub")
  /\ UNCHANGED <<hostOf, top, posts, failures>>

(* One of the two writes fails; the other is on its way.                   *)
IndexFails(j, where) ==
  /\ where \in indexing[j].left
  /\ MayFail
  /\ Settle(j, where)
  /\ UNCHANGED <<hostOf, top, sub, posts>>

(* The process ends.                                                       *)
IndexerStops(j) ==
  /\ indexing[j].left # {}
  /\ MayFail
  /\ indexing' = [indexing EXCEPT ![j] = NoIndex]
  /\ UNCHANGED <<hostOf, top, sub, posts>>

DocsNext ==
  \/ \E p \in PayableIds, h \in HostWallets : CreateOnChain(p, h)
  \/ \E r \in Requests, p \in PayableIds, hd \in Headers : PostPayable(r, p, hd)
  \/ \E r \in Requests :
       CheckPost(r) \/ PostTop(r) \/ PostSub(r) \/ PostFails(r)
  \/ \E j \in Indexers, p \in PayableIds : IndexPayable(j, p)
  \/ \E j \in Indexers : IndexTop(j) \/ IndexSub(j) \/ IndexerStops(j)
  \/ \E j \in Indexers, where \in {"top", "sub"} : IndexFails(j, where)

\* A request is worked on, and the frontend posts what its user created.
DocsFairness ==
  /\ \A r \in Requests : WF_docsVars(CheckPost(r) \/ PostTop(r) \/ PostSub(r))
  /\ \A p \in PayableIds : SF_docsVars(\E r \in Requests, hd \in Headers :
        /\ hostOf[p] = hd.wallet
        /\ hd.signer = hd.wallet
        /\ hd.chain = ChainOf[p]
        /\ PostPayable(r, p, hd))

DocsSpec == DocsInit /\ [][DocsNext]_docsVars
FairDocsSpec == DocsSpec /\ DocsFairness

-----------------------------------------------------------------------------
DocsTypeOK ==
  /\ hostOf \in [PayableIds -> HostWallets \cup {Nobody}]
  /\ top \in [PayableIds -> Doc]
  /\ sub \in [PayableIds -> Doc]
  /\ posts \in [Requests -> Post \cup {NoPost}]
  /\ indexing \in
       [Indexers -> [payable: PayableIds, left: SUBSET {"top", "sub"}] \cup {NoIndex}]
  /\ failures \in 0..MaxFailures

\* Whatever a document of p holds, the contract or p's host put it there.
DocIsTrue(p, doc) ==
  /\ doc.host \in {Nobody, hostOf[p]}
  /\ doc.chain \in {Nowhere, ChainOf[p]}
  /\ doc.description \in {Nobody, hostOf[p]}
  /\ doc.indexed => doc.host # Nobody /\ doc.chain # Nowhere

(* "This ensures only the host can set the description"                    *)
(* (create-payable.ts:29): no order of requests, with any headers, and of  *)
(* relayers makes a document name another host or another chain than the   *)
(* contract's, or show a description its host did not sign.                *)
DescriptionsByHost ==
  \A p \in PayableIds : DocIsTrue(p, top[p]) /\ DocIsTrue(p, sub[p])

(* "Whichever lands first, the merge ensures neither overwrites the other" *)
(* (indexer.ts:9): what one writer has added to a document stays, whatever *)
(* the others write, retry, or leave half done.                            *)
Keeps(old, new) ==
  /\ old.host # Nobody => new.host = old.host
  /\ old.chain # Nowhere => new.chain = old.chain
  /\ old.description # Nobody => new.description = old.description
  /\ old.indexed => new.indexed

NothingIsLost ==
  [][\A p \in PayableIds : Keeps(top[p], top'[p]) /\ Keeps(sub[p], sub'[p])]_docsVars

(* "returns the chain name and description for a given payable (used for   *)
(* chain discovery by the frontend)" (README.md:130): when nothing fails,  *)
(* a payable whose host posts its description can be looked up in the end. *)
PayablesAreFound == \A p \in PayableIds : hostOf[p] # Nobody ~> Found(p)
=============================================================================
