----------------------------- MODULE WebProofs -----------------------------
(***************************************************************************)
(* What several writers without locks keep of the database.                *)
(*                                                                         *)
(* A payable's documents say only what is true and lose nothing, for any   *)
(* number of requests, with any headers, and of relayer processes.  Two    *)
(* facts carry it: a request past its checks stays acceptable, because a   *)
(* payable's host never changes; and what the two writers have to say of   *)
(* host and chain is the same, so that a merge changes no field that was   *)
(* set.                                                                    *)
(*                                                                         *)
(* A wallet's notification tokens survive their removers: what a notifier  *)
(* is about to remove is dead, and stays dead.                             *)
(*                                                                         *)
(* A click of the payment page pays what its wallet showed, and says what  *)
(* became of it; the table of activities shows the page it is on.          *)
(***************************************************************************)
EXTENDS Web, Sums, SequenceTheorems, TLAPS

PostsAccepted ==
  \A r \in Requests :
    posts[r].step \in {"top", "sub"} => Accepted(posts[r].payable, posts[r].headers)

IndexingCreated ==
  \A j \in Indexers : indexing[j].left # {} => hostOf[indexing[j].payable] # Nobody

DocsInv == DocsTypeOK /\ DescriptionsByHost /\ PostsAccepted /\ IndexingCreated

-----------------------------------------------------------------------------
(* What a write makes of one document.                                     *)

Written(p, old, new) == new \in Doc /\ DocIsTrue(p, new) /\ Keeps(old, new)

LEMMA PostWrites ==
  ASSUME NEW p \in PayableIds, NEW hd \in Headers, NEW doc \in Doc,
         DocsTypeOK, DocIsTrue(p, doc), Accepted(p, hd)
  PROVE  Written(p, doc, Merge(doc, PostData(p, hd)))
<1> DEFINE new == Merge(doc, PostData(p, hd))
<1>1. /\ hd.signer = hostOf[p] /\ hd.chain = ChainOf[p]
      /\ hostOf[p] \in HostWallets /\ ChainOf[p] \in DocChains
      /\ hostOf[p] # Nobody
  BY DocumentsAssumption DEF Accepted, Authentic, CanFetch, DocsTypeOK
<1>2. new = [host |-> hostOf[p], chain |-> ChainOf[p],
             description |-> hostOf[p], indexed |-> doc.indexed]
  BY <1>1 DEF Merge, PostData, Fields
<1>3. /\ doc.host \in HostWallets \cup {Nobody} /\ doc.chain \in DocChains \cup {Nowhere}
      /\ doc.description \in HostWallets \cup {Nobody} /\ doc.indexed \in BOOLEAN
  BY DEF Doc
<1> HIDE DEF new
<1>4. new \in Doc
  BY <1>1, <1>2, <1>3 DEF Doc
<1>5. DocIsTrue(p, new)
  BY <1>1, <1>2, DocumentsAssumption DEF DocIsTrue
<1>6. Keeps(doc, new)
  BY <1>2 DEF DocIsTrue, Keeps
<1> QED
  BY <1>4, <1>5, <1>6 DEF Written, new

LEMMA IndexWrites ==
  ASSUME NEW p \in PayableIds, NEW doc \in Doc,
         DocsTypeOK, DocIsTrue(p, doc), hostOf[p] # Nobody
  PROVE  Written(p, doc, Merge(doc, IndexData(p)))
<1> DEFINE new == Merge(doc, IndexData(p))
<1>1. /\ hostOf[p] \in HostWallets /\ ChainOf[p] \in DocChains
  BY DocumentsAssumption DEF DocsTypeOK
<1>2. new = [host |-> hostOf[p], chain |-> ChainOf[p],
             description |-> doc.description, indexed |-> TRUE]
  <2> DEFINE data == IndexData(p)
  <2>1. /\ DOMAIN data = {"host", "chain", "indexed"}
        /\ data.host = hostOf[p] /\ data.chain = ChainOf[p] /\ data.indexed = TRUE
    BY DEF IndexData
  <2>2. new = [f \in Fields |-> IF f \in DOMAIN data THEN data[f] ELSE doc[f]]
    BY DEF Merge
  <2> HIDE DEF data, new
  <2>3. new = [host |-> data.host, chain |-> data.chain,
               description |-> doc.description, indexed |-> data.indexed]
    BY <2>1, <2>2 DEF Fields
  <2> QED BY <2>1, <2>3
<1>3. /\ doc.host \in HostWallets \cup {Nobody} /\ doc.chain \in DocChains \cup {Nowhere}
      /\ doc.description \in HostWallets \cup {Nobody} /\ doc.indexed \in BOOLEAN
  BY DEF Doc
<1> HIDE DEF new
<1>4. new \in Doc
  BY <1>1, <1>2, <1>3 DEF Doc
<1>5. DocIsTrue(p, new)
  BY <1>1, <1>2, DocumentsAssumption DEF DocIsTrue
<1>6. Keeps(doc, new)
  BY <1>2 DEF DocIsTrue, Keeps
<1> QED
  BY <1>4, <1>5, <1>6 DEF Written, new

-----------------------------------------------------------------------------
(* Types, one kind of step at a time.                                      *)

LEMMA PostType ==
  ASSUME DocsTypeOK, NEW r \in Requests, posts[r].step # "none"
  PROVE  /\ posts[r].payable \in PayableIds
         /\ posts[r].headers \in Headers
BY DEF DocsTypeOK, Post, NoPost

LEMMA IndexType ==
  ASSUME DocsTypeOK, NEW j \in Indexers, indexing[j].left # {}
  PROVE  indexing[j].payable \in PayableIds
BY DEF DocsTypeOK, NoIndex

\* Nothing but the documents of p is written, each or not.
Puts(p) ==
  /\ hostOf' = hostOf
  /\ \/ top' = top
     \/ \E new : /\ Written(p, top[p], new)
                 /\ top' = [top EXCEPT ![p] = new]
  /\ \/ sub' = sub
     \/ \E new : /\ Written(p, sub[p], new)
                 /\ sub' = [sub EXCEPT ![p] = new]

\* One of the two documents of p, before and after.
LEMMA OneWrite ==
  ASSUME NEW docs \in [PayableIds -> Doc], NEW docs2, NEW p \in PayableIds,
         \A q \in PayableIds : DocIsTrue(q, docs[q]),
         \/ docs2 = docs
         \/ \E new : /\ Written(p, docs[p], new)
                     /\ docs2 = [docs EXCEPT ![p] = new]
  PROVE  /\ docs2 \in [PayableIds -> Doc]
         /\ \A q \in PayableIds : DocIsTrue(q, docs2[q]) /\ Keeps(docs[q], docs2[q])
<1>1. ASSUME NEW q \in PayableIds PROVE Keeps(docs[q], docs[q])
  BY DEF Keeps
<1>2. CASE docs2 = docs
  BY <1>1, <1>2
<1>3. ASSUME NEW new, Written(p, docs[p], new), docs2 = [docs EXCEPT ![p] = new]
      PROVE  /\ docs2 \in [PayableIds -> Doc]
             /\ \A q \in PayableIds : DocIsTrue(q, docs2[q]) /\ Keeps(docs[q], docs2[q])
  <2>1. docs2 \in [PayableIds -> Doc]
    BY <1>3 DEF Written
  <2>2. ASSUME NEW q \in PayableIds
        PROVE  DocIsTrue(q, docs2[q]) /\ Keeps(docs[q], docs2[q])
    <3>1. CASE q = p
      BY <1>3, <3>1 DEF Written
    <3>2. CASE q # p
      BY <1>1, <1>3, <3>2
    <3> QED BY <3>1, <3>2
  <2> QED BY <2>1, <2>2
<1> QED
  BY <1>2, <1>3

\* What a step that writes keeps of the documents.
DocsKept ==
  /\ top' \in [PayableIds -> Doc] /\ sub' \in [PayableIds -> Doc]
  /\ DescriptionsByHost'
  /\ \A p \in PayableIds : Keeps(top[p], top'[p]) /\ Keeps(sub[p], sub'[p])

LEMMA WriteKeeps ==
  ASSUME DocsInv, NEW p \in PayableIds, Puts(p)
  PROVE  DocsKept
<1>1. /\ top \in [PayableIds -> Doc] /\ sub \in [PayableIds -> Doc]
      /\ \A q \in PayableIds : DocIsTrue(q, top[q])
      /\ \A q \in PayableIds : DocIsTrue(q, sub[q])
  BY DEF DocsInv, DocsTypeOK, DescriptionsByHost
<1>2. /\ top' \in [PayableIds -> Doc]
      /\ \A q \in PayableIds : DocIsTrue(q, top'[q]) /\ Keeps(top[q], top'[q])
  BY <1>1, OneWrite DEF Puts
<1>3. /\ sub' \in [PayableIds -> Doc]
      /\ \A q \in PayableIds : DocIsTrue(q, sub'[q]) /\ Keeps(sub[q], sub'[q])
  BY <1>1, OneWrite DEF Puts
<1>4. hostOf' = hostOf
  BY DEF Puts
<1>5. DescriptionsByHost'
  BY <1>2, <1>3, <1>4 DEF DescriptionsByHost, DocIsTrue
<1> QED
  BY <1>2, <1>3, <1>5 DEF DocsKept

LEMMA NoWriteKeeps ==
  ASSUME DocsInv, hostOf' = hostOf, top' = top, sub' = sub
  PROVE  DocsKept
<1>1. DescriptionsByHost'
  BY DEF DocsInv, DescriptionsByHost, DocIsTrue
<1> QED
  BY <1>1 DEF DocsInv, DocsTypeOK, DocsKept, Keeps

-----------------------------------------------------------------------------
(* One lemma for each action: the invariant holds after it, and no document *)
(* has lost anything.                                                       *)

LEMMA CreateStep ==
  ASSUME DocsInv, NEW p \in PayableIds, NEW h \in HostWallets, CreateOnChain(p, h)
  PROVE  DocsInv' /\ DocsKept
<1>1. /\ hostOf[p] = Nobody
      /\ hostOf' \in [PayableIds -> HostWallets \cup {Nobody}]
      /\ hostOf'[p] = h
      /\ \A q \in PayableIds \ {p} : hostOf'[q] = hostOf[q]
      /\ UNCHANGED <<top, sub, posts, indexing, failures>>
  BY DEF CreateOnChain, DocsInv, DocsTypeOK
<1>2. h # Nobody
  BY DocumentsAssumption
<1>3. DocsTypeOK'
  BY <1>1 DEF DocsInv, DocsTypeOK
<1>4. DescriptionsByHost'
  BY <1>1 DEF DocsInv, DescriptionsByHost, DocIsTrue
<1>5. PostsAccepted'
  <2> SUFFICES ASSUME NEW r \in Requests, posts[r].step \in {"top", "sub"}
               PROVE  Accepted(posts[r].payable, posts[r].headers)'
    BY <1>1 DEF PostsAccepted
  <2>1. Accepted(posts[r].payable, posts[r].headers)
    BY DEF DocsInv, PostsAccepted
  <2>2. posts[r].payable \in PayableIds \ {p}
    BY <1>1, <2>1, PostType DEF DocsInv, Accepted, CanFetch
  <2> QED BY <1>1, <2>1, <2>2 DEF Accepted, CanFetch, Authentic
<1>6. IndexingCreated'
  BY <1>1, <1>2, IndexType DEF DocsInv, IndexingCreated
<1>7. DocsKept
  BY <1>1, <1>4 DEF DocsKept, DocsInv, DocsTypeOK, Keeps
<1> QED
  BY <1>3, <1>4, <1>5, <1>6, <1>7 DEF DocsInv

\* The posts are the same but for r, which is as given.
Posted(r, post) == posts' = [posts EXCEPT ![r] = post]

LEMMA PostsAfter ==
  ASSUME DocsInv, NEW r \in Requests, NEW post \in Post \cup {NoPost},
         hostOf' = hostOf, Posted(r, post),
         post.step \in {"top", "sub"} => Accepted(post.payable, post.headers)
  PROVE  posts' \in [Requests -> Post \cup {NoPost}] /\ PostsAccepted'
<1>1. posts \in [Requests -> Post \cup {NoPost}]
  BY DEF DocsInv, DocsTypeOK
<1>2. posts' \in [Requests -> Post \cup {NoPost}]
  BY <1>1 DEF Posted
<1>3. ASSUME NEW q \in Requests, posts'[q].step \in {"top", "sub"}
      PROVE  Accepted(posts'[q].payable, posts'[q].headers)
  <2>1. CASE q = r
    BY <1>1, <1>3, <2>1 DEF Posted
  <2>2. CASE q # r
    BY <1>1, <1>3, <2>2 DEF Posted, DocsInv, PostsAccepted
  <2> QED BY <2>1, <2>2
<1>4. PostsAccepted'
  BY <1>3 DEF PostsAccepted, Accepted, Authentic, CanFetch
<1> QED
  BY <1>2, <1>4

LEMMA NoPostIsNoStep == NoPost \in Post \cup {NoPost} /\ NoPost.step \notin {"top", "sub"}
BY DEF NoPost

LEMMA PostingStep ==
  ASSUME DocsInv, NEW r \in Requests, NEW p \in PayableIds, NEW hd \in Headers,
         PostPayable(r, p, hd)
  PROVE  DocsInv' /\ DocsKept
<1> DEFINE post == [payable |-> p, headers |-> hd, step |-> "check"]
<1>1. post \in Post /\ post.step = "check"
  BY DEF Post
<1>2. Posted(r, post) /\ UNCHANGED <<hostOf, top, sub, indexing, failures>>
  BY DEF PostPayable, Posted
<1> HIDE DEF post
<1>3. posts' \in [Requests -> Post \cup {NoPost}] /\ PostsAccepted'
  BY <1>1, <1>2, PostsAfter
<1>4. DocsKept
  BY <1>2, NoWriteKeeps
<1> QED
  BY <1>2, <1>3, <1>4 DEF DocsInv, DocsTypeOK, DocsKept, IndexingCreated

LEMMA CheckStep ==
  ASSUME DocsInv, NEW r \in Requests, CheckPost(r)
  PROVE  DocsInv' /\ DocsKept
<1> DEFINE go == [posts[r] EXCEPT !.step = "top"]
<1>1. /\ posts[r].step = "check" /\ posts[r] \in Post
      /\ UNCHANGED <<hostOf, top, sub, indexing, failures>>
  BY DEF CheckPost, DocsInv, DocsTypeOK, NoPost
<1>2. /\ go \in Post /\ go.payable = posts[r].payable /\ go.headers = posts[r].headers
  BY <1>1 DEF Post
<1>3. \/ Accepted(go.payable, go.headers) /\ Posted(r, go)
      \/ Posted(r, NoPost)
  BY <1>2 DEF CheckPost, Answer, Posted
<1> HIDE DEF go
<1>4. posts' \in [Requests -> Post \cup {NoPost}] /\ PostsAccepted'
  BY <1>1, <1>2, <1>3, PostsAfter, NoPostIsNoStep
<1>5. DocsKept
  BY <1>1, NoWriteKeeps
<1> QED
  BY <1>1, <1>4, <1>5 DEF DocsInv, DocsTypeOK, DocsKept, IndexingCreated

LEMMA PostTopStep ==
  ASSUME DocsInv, NEW r \in Requests, PostTop(r)
  PROVE  DocsInv' /\ DocsKept
<1> DEFINE go == [posts[r] EXCEPT !.step = "sub"]
           p == posts[r].payable
           hd == posts[r].headers
           new == Merge(top[p], PostData(p, hd))
<1>1. /\ posts[r].step = "top" /\ posts[r] \in Post
      /\ top' = [top EXCEPT ![p] = new] /\ Posted(r, go)
      /\ UNCHANGED <<hostOf, sub, indexing, failures>>
  BY DEF PostTop, DocsInv, DocsTypeOK, NoPost, Posted
<1>2. /\ go \in Post /\ go.payable = p /\ go.headers = hd
      /\ p \in PayableIds /\ hd \in Headers
  BY <1>1 DEF Post
<1>3. Accepted(p, hd)
  BY <1>1 DEF DocsInv, PostsAccepted
<1>4. Written(p, top[p], new)
  BY <1>2, <1>3, PostWrites DEF DocsInv, DocsTypeOK, DescriptionsByHost
<1> HIDE DEF go, new
<1>5. Puts(p)
  BY <1>1, <1>4 DEF Puts
<1>6. posts' \in [Requests -> Post \cup {NoPost}] /\ PostsAccepted'
  BY <1>1, <1>2, <1>3, PostsAfter
<1>7. DocsKept
  BY <1>2, <1>5, WriteKeeps
<1> QED
  BY <1>1, <1>6, <1>7 DEF DocsInv, DocsTypeOK, DocsKept, IndexingCreated

LEMMA PostSubStep ==
  ASSUME DocsInv, NEW r \in Requests, PostSub(r)
  PROVE  DocsInv' /\ DocsKept
<1> DEFINE p == posts[r].payable
           hd == posts[r].headers
           new == Merge(sub[p], PostData(p, hd))
<1>1. /\ posts[r].step = "sub" /\ posts[r] \in Post
      /\ sub' = [sub EXCEPT ![p] = new] /\ Posted(r, NoPost)
      /\ UNCHANGED <<hostOf, top, indexing, failures>>
  BY DEF PostSub, DocsInv, DocsTypeOK, NoPost, Posted, Answer
<1>2. p \in PayableIds /\ hd \in Headers
  BY <1>1 DEF Post
<1>3. Accepted(p, hd)
  BY <1>1 DEF DocsInv, PostsAccepted
<1>4. Written(p, sub[p], new)
  BY <1>2, <1>3, PostWrites DEF DocsInv, DocsTypeOK, DescriptionsByHost
<1> HIDE DEF new
<1>5. Puts(p)
  BY <1>1, <1>4 DEF Puts
<1>6. posts' \in [Requests -> Post \cup {NoPost}] /\ PostsAccepted'
  BY <1>1, PostsAfter, NoPostIsNoStep
<1>7. DocsKept
  BY <1>2, <1>5, WriteKeeps
<1> QED
  BY <1>1, <1>6, <1>7 DEF DocsInv, DocsTypeOK, DocsKept, IndexingCreated

LEMMA FailsIsBounded == ASSUME DocsTypeOK, MayFail PROVE failures' \in 0..MaxFailures
BY DocumentsAssumption DEF DocsTypeOK, MayFail

LEMMA PostFailsStep ==
  ASSUME DocsInv, NEW r \in Requests, PostFails(r)
  PROVE  DocsInv' /\ DocsKept
<1>1. Posted(r, NoPost) /\ MayFail /\ UNCHANGED <<hostOf, top, sub, indexing>>
  BY DEF PostFails, Answer, Posted
<1>2. posts' \in [Requests -> Post \cup {NoPost}] /\ PostsAccepted'
  BY <1>1, PostsAfter, NoPostIsNoStep
<1>3. DocsKept
  BY <1>1, NoWriteKeeps
<1>4. failures' \in 0..MaxFailures
  BY <1>1, FailsIsBounded DEF DocsInv
<1> QED
  BY <1>1, <1>2, <1>3, <1>4 DEF DocsInv, DocsTypeOK, DocsKept, IndexingCreated

IndexTypes == [payable: PayableIds, left: SUBSET {"top", "sub"}] \cup {NoIndex}

\* The relayer processes are the same but for j, which has work of p left.
LEMMA IndexingAfter ==
  ASSUME DocsInv, NEW j \in Indexers, NEW work \in IndexTypes,
         hostOf' = hostOf, indexing' = [indexing EXCEPT ![j] = work],
         work.left # {} => hostOf[work.payable] # Nobody
  PROVE  indexing' \in [Indexers -> IndexTypes] /\ IndexingCreated'
<1>1. indexing \in [Indexers -> IndexTypes]
  BY DEF DocsInv, DocsTypeOK, IndexTypes
<1>2. indexing' \in [Indexers -> IndexTypes]
  BY <1>1
<1>3. ASSUME NEW i \in Indexers, indexing'[i].left # {}
      PROVE  hostOf'[indexing'[i].payable] # Nobody
  <2>1. CASE i = j
    BY <1>1, <1>3, <2>1
  <2>2. CASE i # j
    BY <1>1, <1>3, <2>2 DEF DocsInv, IndexingCreated
  <2> QED BY <2>1, <2>2
<1> QED
  BY <1>2, <1>3 DEF IndexingCreated

\* The posts stay, and stay acceptable.
LEMMA PostsStay ==
  ASSUME DocsInv, hostOf' = hostOf, posts' = posts
  PROVE  posts' \in [Requests -> Post \cup {NoPost}] /\ PostsAccepted'
BY DEF DocsInv, DocsTypeOK, PostsAccepted, Accepted, CanFetch, Authentic

LEMMA IndexPayableStep ==
  ASSUME DocsInv, NEW j \in Indexers, NEW p \in PayableIds, IndexPayable(j, p)
  PROVE  DocsInv' /\ DocsKept
<1> DEFINE work == [payable |-> p, left |-> {"top", "sub"}]
<1>1. /\ hostOf[p] # Nobody /\ indexing' = [indexing EXCEPT ![j] = work]
      /\ UNCHANGED <<hostOf, top, sub, posts, failures>>
  BY DEF IndexPayable
<1>2. work \in IndexTypes /\ work.payable = p
  BY DEF IndexTypes
<1> HIDE DEF work
<1>3. indexing' \in [Indexers -> IndexTypes] /\ IndexingCreated'
  BY <1>1, <1>2, IndexingAfter
<1>4. posts' \in [Requests -> Post \cup {NoPost}] /\ PostsAccepted'
  BY <1>1, PostsStay
<1>5. DocsKept
  BY <1>1, NoWriteKeeps
<1> QED
  BY <1>1, <1>3, <1>4, <1>5 DEF DocsInv, DocsTypeOK, DocsKept, IndexTypes

\* One write settled, or given up.
LEMMA SettleWork ==
  ASSUME DocsInv, NEW j \in Indexers, NEW where \in indexing[j].left,
         hostOf' = hostOf, Settle(j, where)
  PROVE  /\ indexing[j].payable \in PayableIds
         /\ hostOf[indexing[j].payable] # Nobody
         /\ indexing' \in [Indexers -> IndexTypes]
         /\ IndexingCreated'
<1> DEFINE work == [indexing[j] EXCEPT !.left = @ \ {where}]
<1>1. /\ indexing[j] \in [payable: PayableIds, left: SUBSET {"top", "sub"}]
      /\ hostOf[indexing[j].payable] # Nobody
  BY DEF DocsInv, DocsTypeOK, NoIndex, IndexingCreated
<1>2. indexing' = [indexing EXCEPT ![j] = work]
  BY DEF Settle
<1>3. work \in IndexTypes /\ work.payable = indexing[j].payable
  BY <1>1 DEF IndexTypes
<1> HIDE DEF work
<1>4. indexing' \in [Indexers -> IndexTypes] /\ IndexingCreated'
  BY <1>1, <1>2, <1>3, IndexingAfter
<1> QED
  BY <1>1, <1>4

LEMMA IndexTopStep ==
  ASSUME DocsInv, NEW j \in Indexers, IndexTop(j)
  PROVE  DocsInv' /\ DocsKept
<1> DEFINE p == indexing[j].payable
           new == Merge(top[p], IndexData(p))
<1>1. /\ "top" \in indexing[j].left /\ Settle(j, "top")
      /\ top' = [top EXCEPT ![p] = new]
      /\ UNCHANGED <<hostOf, sub, posts, failures>>
  BY DEF IndexTop
<1>2. /\ p \in PayableIds /\ hostOf[p] # Nobody
      /\ indexing' \in [Indexers -> IndexTypes] /\ IndexingCreated'
  BY <1>1, SettleWork
<1>3. Written(p, top[p], new)
  BY <1>2, IndexWrites DEF DocsInv, DocsTypeOK, DescriptionsByHost
<1> HIDE DEF new
<1>4. Puts(p)
  BY <1>1, <1>3 DEF Puts
<1>5. DocsKept
  BY <1>2, <1>4, WriteKeeps
<1>6. posts' \in [Requests -> Post \cup {NoPost}] /\ PostsAccepted'
  BY <1>1, PostsStay
<1> QED
  BY <1>1, <1>2, <1>5, <1>6 DEF DocsInv, DocsTypeOK, DocsKept, IndexTypes

LEMMA IndexSubStep ==
  ASSUME DocsInv, NEW j \in Indexers, IndexSub(j)
  PROVE  DocsInv' /\ DocsKept
<1> DEFINE p == indexing[j].payable
           new == Merge(sub[p], IndexData(p))
<1>1. /\ "sub" \in indexing[j].left /\ Settle(j, "sub")
      /\ sub' = [sub EXCEPT ![p] = new]
      /\ UNCHANGED <<hostOf, top, posts, failures>>
  BY DEF IndexSub
<1>2. /\ p \in PayableIds /\ hostOf[p] # Nobody
      /\ indexing' \in [Indexers -> IndexTypes] /\ IndexingCreated'
  BY <1>1, SettleWork
<1>3. Written(p, sub[p], new)
  BY <1>2, IndexWrites DEF DocsInv, DocsTypeOK, DescriptionsByHost
<1> HIDE DEF new
<1>4. Puts(p)
  BY <1>1, <1>3 DEF Puts
<1>5. DocsKept
  BY <1>2, <1>4, WriteKeeps
<1>6. posts' \in [Requests -> Post \cup {NoPost}] /\ PostsAccepted'
  BY <1>1, PostsStay
<1> QED
  BY <1>1, <1>2, <1>5, <1>6 DEF DocsInv, DocsTypeOK, DocsKept, IndexTypes

LEMMA IndexFailsStep ==
  ASSUME DocsInv, NEW j \in Indexers, NEW where \in {"top", "sub"}, IndexFails(j, where)
  PROVE  DocsInv' /\ DocsKept
<1>1. /\ where \in indexing[j].left /\ Settle(j, where) /\ MayFail
      /\ UNCHANGED <<hostOf, top, sub, posts>>
  BY DEF IndexFails
<1>2. indexing' \in [Indexers -> IndexTypes] /\ IndexingCreated'
  BY <1>1, SettleWork
<1>3. posts' \in [Requests -> Post \cup {NoPost}] /\ PostsAccepted'
  BY <1>1, PostsStay
<1>4. DocsKept
  BY <1>1, NoWriteKeeps
<1>5. failures' \in 0..MaxFailures
  BY <1>1, FailsIsBounded DEF DocsInv
<1> QED
  BY <1>1, <1>2, <1>3, <1>4, <1>5 DEF DocsInv, DocsTypeOK, DocsKept, IndexTypes

LEMMA IndexerStopsStep ==
  ASSUME DocsInv, NEW j \in Indexers, IndexerStops(j)
  PROVE  DocsInv' /\ DocsKept
<1>1. /\ indexing' = [indexing EXCEPT ![j] = NoIndex] /\ MayFail
      /\ UNCHANGED <<hostOf, top, sub, posts>>
  BY DEF IndexerStops
<1>2. NoIndex \in IndexTypes /\ NoIndex.left = {}
  BY DEF NoIndex, IndexTypes
<1>3. indexing' \in [Indexers -> IndexTypes] /\ IndexingCreated'
  BY <1>1, <1>2, IndexingAfter
<1>4. posts' \in [Requests -> Post \cup {NoPost}] /\ PostsAccepted'
  BY <1>1, PostsStay
<1>5. DocsKept
  BY <1>1, NoWriteKeeps
<1>6. failures' \in 0..MaxFailures
  BY <1>1, FailsIsBounded DEF DocsInv
<1> QED
  BY <1>1, <1>3, <1>4, <1>5, <1>6 DEF DocsInv, DocsTypeOK, DocsKept, IndexTypes

-----------------------------------------------------------------------------
LEMMA DocsStart == DocsInit => DocsInv
<1> SUFFICES ASSUME DocsInit PROVE DocsInv
  OBVIOUS
<1>1. Blank \in Doc /\ NoPost \in Post \cup {NoPost} /\ NoIndex.left = {}
  BY DEF Blank, Doc, NoIndex
<1>2. DocsTypeOK
  BY <1>1, DocumentsAssumption DEF DocsInit, DocsTypeOK
<1>3. DescriptionsByHost
  BY DEF DocsInit, DescriptionsByHost, DocIsTrue, Blank
<1>4. PostsAccepted /\ IndexingCreated
  BY <1>1, NoPostIsNoStep DEF DocsInit, PostsAccepted, IndexingCreated
<1> QED
  BY <1>2, <1>3, <1>4 DEF DocsInv

LEMMA DocsStep == DocsInv /\ [DocsNext]_docsVars => DocsInv' /\ DocsKept
<1> SUFFICES ASSUME DocsInv, [DocsNext]_docsVars PROVE DocsInv' /\ DocsKept
  OBVIOUS
<1>1. CASE UNCHANGED docsVars
  <2>1. DocsKept
    BY <1>1, NoWriteKeeps DEF docsVars
  <2> QED
    BY <1>1, <2>1, PostsStay
       DEF docsVars, DocsInv, DocsTypeOK, DocsKept, IndexingCreated
<1>2. CASE DocsNext
  BY <1>2, CreateStep, PostingStep, CheckStep, PostTopStep, PostSubStep, PostFailsStep,
     IndexPayableStep, IndexTopStep, IndexSubStep, IndexFailsStep, IndexerStopsStep
     DEF DocsNext
<1> QED
  BY <1>1, <1>2

LEMMA DocsAlwaysInv == DocsSpec => []DocsInv
BY DocsStart, DocsStep, PTL DEF DocsSpec

\* The documents, requests and relayer processes stay well formed.
THEOREM DocumentsTypeCorrect == DocsSpec => []DocsTypeOK
<1>1. DocsInv => DocsTypeOK
  BY DEF DocsInv
<1> QED
  BY <1>1, DocsAlwaysInv, PTL

\* "This ensures only the host can set the description" (create-payable.ts:29):
\* for any wallets, requests and headers, and any number of relayer processes.
THEOREM OnlyHostsDescribe == DocsSpec => []DescriptionsByHost
<1>1. DocsInv => DescriptionsByHost
  BY DEF DocsInv
<1> QED
  BY <1>1, DocsAlwaysInv, PTL

\* "the merge ensures neither overwrites the other" (indexer.ts:9): no write of
\* the server's createPayable or the relayer's indexPayable loses anything.
THEOREM MergesLoseNothing == DocsSpec => NothingIsLost
<1>1. DocsInv /\ [DocsNext]_docsVars =>
        [\A p \in PayableIds : Keeps(top[p], top'[p]) /\ Keeps(sub[p], sub'[p])]_docsVars
  BY DocsStep DEF DocsKept
<1> QED
  BY <1>1, DocsAlwaysInv, PTL DEF DocsSpec, NothingIsLost

-----------------------------------------------------------------------------
(* Notices.                                                                *)

\* A token to be removed is one that Firebase has dropped.
DeadAreDead == \A j \in Notifiers : notifying[j].dead \cap live = {}

NoticesInv == NoticesTypeOK /\ DeadAreDead

Tokens == [step: {"test", "store"}, wallet: Hosts, token: Devices] \cup {NoTokenPost}
Rounds ==
  [host: Hosts, left: SUBSET Devices, dead: SUBSET Devices] \cup {NotNotifying}

TokensKept == \A h \in Hosts : fcmTokens[h] \ fcmTokens'[h] \subseteq Devices \ live

\* No step of a notifier.
LEMMA QuietNotice ==
  ASSUME NoticesInv, UNCHANGED notifying, live' \subseteq live,
         payableHost' \in [PaidPayables -> Hosts \cup {NoHost}],
         fcmTokens' \in [Hosts -> SUBSET Devices],
         \A h \in Hosts : fcmTokens[h] \subseteq fcmTokens'[h],
         tokenPosts' \in [TokenPosts -> Tokens]
  PROVE  NoticesInv' /\ TokensKept
<1>1. NoticesTypeOK'
  BY DEF NoticesInv, NoticesTypeOK, Tokens
<1>2. DeadAreDead' /\ TokensKept
  BY DEF NoticesInv, DeadAreDead, TokensKept
<1> QED
  BY <1>1, <1>2 DEF NoticesInv

LEMMA NoticeTypes ==
  ASSUME NoticesTypeOK
  PROVE  /\ payableHost \in [PaidPayables -> Hosts \cup {NoHost}]
         /\ fcmTokens \in [Hosts -> SUBSET Devices]
         /\ live \in SUBSET Devices
         /\ tokenPosts \in [TokenPosts -> Tokens]
         /\ notifying \in [Notifiers -> Rounds]
BY DEF NoticesTypeOK, Tokens, Rounds

\* A step of notifier j, whose list of the dead is true.
LEMMA RoundStep ==
  ASSUME NoticesInv, NEW j \in Notifiers, NEW round \in Rounds,
         notifying' = [notifying EXCEPT ![j] = round],
         round.dead \cap live = {},
         UNCHANGED <<payableHost, live, tokenPosts>>,
         fcmTokens' \in [Hosts -> SUBSET Devices],
         TokensKept
  PROVE  NoticesInv' /\ TokensKept
<1>1. notifying \in [Notifiers -> Rounds]
  BY NoticeTypes DEF NoticesInv
<1>2. notifying' \in [Notifiers -> Rounds]
  BY <1>1
<1>3. NoticesTypeOK'
  BY <1>2 DEF NoticesInv, NoticesTypeOK, Rounds
<1>4. ASSUME NEW i \in Notifiers PROVE notifying'[i].dead \cap live' = {}
  <2>1. CASE i = j
    BY <1>1, <2>1
  <2>2. CASE i # j
    BY <1>1, <2>2 DEF NoticesInv, DeadAreDead
  <2> QED BY <2>1, <2>2
<1> QED
  BY <1>3, <1>4 DEF NoticesInv, DeadAreDead

LEMMA NotifyStep ==
  ASSUME NoticesInv, NEW j \in Notifiers, NEW p \in PaidPayables, Notify(j, p)
  PROVE  NoticesInv' /\ TokensKept
<1> DEFINE h == payableHost[p]
           round == [host |-> h, left |-> fcmTokens[h], dead |-> {}]
<1>1. /\ h \in Hosts
      /\ notifying' = [notifying EXCEPT ![j] = round]
      /\ UNCHANGED <<payableHost, fcmTokens, live, tokenPosts>>
  BY NoticeTypes DEF NoticesInv, Notify
<1>2. round \in Rounds /\ round.dead = {}
  BY <1>1, NoticeTypes DEF NoticesInv, Rounds
<1> HIDE DEF round
<1>3. fcmTokens' \in [Hosts -> SUBSET Devices] /\ TokensKept
  BY <1>1, NoticeTypes DEF NoticesInv, TokensKept
<1> QED
  BY <1>1, <1>2, <1>3, RoundStep

\* The loop of a notifier goes on with fewer tokens left.
LEMMA GoneOn ==
  ASSUME NoticesInv, NEW j \in Notifiers, notifying[j] # NotNotifying,
         NEW left \in SUBSET Devices, NEW dead \in SUBSET Devices,
         GoOn(j, left, dead), dead \cap live = {},
         UNCHANGED <<payableHost, live, tokenPosts>>,
         fcmTokens' \in [Hosts -> SUBSET Devices],
         TokensKept
  PROVE  NoticesInv' /\ TokensKept
<1> DEFINE on == [host |-> notifying[j].host, left |-> left, dead |-> dead]
           round == IF left \cup dead = {} THEN NotNotifying ELSE on
<1>1. notifying' = [notifying EXCEPT ![j] = round]
  BY DEF GoOn
<1>2. notifying[j].host \in Hosts
  BY NoticeTypes DEF NoticesInv, Rounds
<1>3. on \in Rounds /\ on.dead = dead
  BY <1>2 DEF Rounds
<1>4. NotNotifying \in Rounds /\ NotNotifying.dead = {}
  BY DEF NotNotifying, Rounds
<1>5. round \in Rounds /\ round.dead \cap live = {}
  BY <1>3, <1>4
<1> HIDE DEF round
<1> QED
  BY <1>1, <1>5, RoundStep

LEMMA SendStep ==
  ASSUME NoticesInv, NEW j \in Notifiers, NEW d \in Devices, Send(j, d)
  PROVE  NoticesInv' /\ TokensKept
<1>1. PICK dead \in {{}} \cup (IF d \in live THEN {} ELSE {{d}}) :
        GoOn(j, notifying[j].left \ {d}, dead)
  BY DEF Send
<1>2. /\ d \in notifying[j].left
      /\ UNCHANGED <<payableHost, fcmTokens, live, tokenPosts>>
  BY DEF Send
<1>3. dead \in SUBSET Devices /\ dead \cap live = {}
  BY <1>1
<1>4. notifying[j] # NotNotifying /\ notifying[j].left \in SUBSET Devices
  BY <1>2, NoticeTypes DEF NoticesInv, Rounds, NotNotifying
<1>5. fcmTokens' \in [Hosts -> SUBSET Devices] /\ TokensKept
  BY <1>2, NoticeTypes DEF NoticesInv, TokensKept
<1>6. notifying[j].left \ {d} \in SUBSET Devices
  BY <1>4
<1> QED
  BY <1>1, <1>2, <1>3, <1>4, <1>5, <1>6, GoneOn

LEMMA RemoveStep ==
  ASSUME NoticesInv, NEW j \in Notifiers, RemoveToken(j)
  PROVE  NoticesInv' /\ TokensKept
<1>1. /\ notifying[j].dead # {}
      /\ fcmTokens' = [fcmTokens EXCEPT
                         ![notifying[j].host] = @ \ notifying[j].dead]
      /\ GoOn(j, notifying[j].left, {})
      /\ UNCHANGED <<payableHost, live, tokenPosts>>
  BY DEF RemoveToken
<1>2. /\ notifying[j] # NotNotifying
      /\ notifying[j].left \in SUBSET Devices
      /\ notifying[j].dead \in SUBSET Devices
  BY <1>1, NoticeTypes DEF NoticesInv, Rounds, NotNotifying
<1>3. notifying[j].dead \cap live = {}
  BY DEF NoticesInv, DeadAreDead
<1>4. fcmTokens' \in [Hosts -> SUBSET Devices] /\ TokensKept
  BY <1>1, <1>2, <1>3, NoticeTypes DEF NoticesInv, TokensKept
<1>5. {} \in SUBSET Devices /\ {} \cap live = {}
  OBVIOUS
<1> QED
  BY <1>1, <1>2, <1>4, <1>5, GoneOn

LEMMA NotifyFailsStep ==
  ASSUME NoticesInv, NEW j \in Notifiers, NotifyFails(j)
  PROVE  NoticesInv' /\ TokensKept
<1>1. /\ notifying' = [notifying EXCEPT ![j] = NotNotifying]
      /\ UNCHANGED <<payableHost, fcmTokens, live, tokenPosts>>
  BY DEF NotifyFails
<1>2. NotNotifying \in Rounds /\ NotNotifying.dead = {}
  BY DEF NotNotifying, Rounds
<1>3. fcmTokens' \in [Hosts -> SUBSET Devices] /\ TokensKept
  BY <1>1, NoticeTypes DEF NoticesInv, TokensKept
<1> QED
  BY <1>1, <1>2, <1>3, RoundStep

\* The steps of the server, of the indexer and of Firebase.
LEMMA OtherSteps ==
  ASSUME NoticesInv,
         \/ \E p \in PaidPayables, h \in Hosts : Indexed(p, h)
         \/ \E d \in Devices : Expire(d)
         \/ \E s \in TokenPosts, h \in Hosts, d \in Devices : SaveNotificationToken(s, h, d)
         \/ \E s \in TokenPosts : TestToken(s) \/ StoreToken(s) \/ TokenPostFails(s)
         \/ UNCHANGED noticesVars
  PROVE  NoticesInv' /\ TokensKept
<1> USE NoticeTypes DEF NoticesInv
<1>1. ASSUME NEW p \in PaidPayables, NEW h \in Hosts, Indexed(p, h)
      PROVE  NoticesInv' /\ TokensKept
  BY <1>1, QuietNotice DEF Indexed
<1>2. ASSUME NEW d \in Devices, Expire(d)
      PROVE  NoticesInv' /\ TokensKept
  BY <1>2, QuietNotice DEF Expire
<1>3. ASSUME NEW s \in TokenPosts, NEW h \in Hosts, NEW d \in Devices,
             SaveNotificationToken(s, h, d)
      PROVE  NoticesInv' /\ TokensKept
  <2>1. tokenPosts' \in [TokenPosts -> Tokens]
    BY <1>3 DEF SaveNotificationToken, Tokens
  <2> QED BY <1>3, <2>1, QuietNotice DEF SaveNotificationToken
<1>4. ASSUME NEW s \in TokenPosts, TestToken(s)
      PROVE  NoticesInv' /\ TokensKept
  <2>1. tokenPosts' \in [TokenPosts -> Tokens]
    BY <1>4 DEF TestToken, Tokens, NoTokenPost
  <2> QED BY <1>4, <2>1, QuietNotice DEF TestToken
<1>5. ASSUME NEW s \in TokenPosts, StoreToken(s)
      PROVE  NoticesInv' /\ TokensKept
  <2>1. tokenPosts' \in [TokenPosts -> Tokens] /\ tokenPosts[s].token \in Devices
    BY <1>5 DEF StoreToken, Tokens, NoTokenPost
  <2>2. fcmTokens' = [fcmTokens EXCEPT ![tokenPosts[s].wallet] = @ \cup {tokenPosts[s].token}]
    BY <1>5 DEF StoreToken
  <2>3. /\ fcmTokens' \in [Hosts -> SUBSET Devices]
        /\ \A h \in Hosts : fcmTokens[h] \subseteq fcmTokens'[h]
    BY <2>1, <2>2
  <2> QED BY <1>5, <2>1, <2>3, QuietNotice DEF StoreToken
<1>6. ASSUME NEW s \in TokenPosts, TokenPostFails(s)
      PROVE  NoticesInv' /\ TokensKept
  <2>1. tokenPosts' \in [TokenPosts -> Tokens]
    BY <1>6 DEF TokenPostFails, Tokens
  <2> QED BY <1>6, <2>1, QuietNotice DEF TokenPostFails
<1>7. CASE UNCHANGED noticesVars
  BY <1>7, QuietNotice DEF noticesVars
<1> QED
  BY <1>1, <1>2, <1>3, <1>4, <1>5, <1>6, <1>7

LEMMA NoticesStep == NoticesInv /\ [NoticesNext]_noticesVars => NoticesInv' /\ TokensKept
BY NotifyStep, SendStep, RemoveStep, NotifyFailsStep, OtherSteps DEF NoticesNext

LEMMA NoticesStart == NoticesInit => NoticesInv
BY DEF NoticesInit, NoticesInv, NoticesTypeOK, DeadAreDead, NotNotifying, NoTokenPost

\* Whoever saves, sends or removes tokens, in whatever order, lists of tokens
\* hold devices and what is under way has a wallet and a token.
THEOREM NoticesTypeCorrect == NoticesSpec => []NoticesTypeOK
<1>1. NoticesInv => NoticesTypeOK
  BY DEF NoticesInv
<1>2. NoticesInv /\ [NoticesNext]_noticesVars => NoticesInv'
  BY NoticesStep
<1> QED
  BY NoticesStart, <1>1, <1>2, PTL DEF NoticesSpec

\* A device's token leaves a wallet's list only when Firebase has dropped it,
\* for any wallets, devices and payables and any number of relayer processes
\* that run notifyPaymentReceived from old copies of the list.
THEOREM TokensAlwaysSurvive == NoticesSpec => TokensSurvive
<1>1. NoticesInit => NoticesInv
  BY NoticesStart
<1>2. NoticesInv /\ [NoticesNext]_noticesVars =>
        NoticesInv' /\
        [\A h \in Hosts : fcmTokens[h] \ fcmTokens'[h] \subseteq Devices \ live]_noticesVars
  BY NoticesStep DEF TokensKept
<1> QED
  BY <1>1, <1>2, PTL DEF NoticesSpec, TokensSurvive

-----------------------------------------------------------------------------
(***************************************************************************)
(* What a click of the payment page can do, for any wallet, session and    *)
(* number of clicks.  Each click is carried by an invariant of its own     *)
(* (Clicked): where it is says which transaction it can have sent, the     *)
(* chain has its payment exactly when that transaction is paid, and from   *)
(* the wallet's prompt to then the flow is what the wallet showed.  The    *)
(* session only has to keep its types: no step trusts it any further.      *)
(***************************************************************************)
Steps == {"idle", "balance", "fee", "allowance", "approve", "approvePrompt",
          "approveSent", "pay", "payPrompt", "paySent", "refresh", "paid",
          "failed", "stuck", "gone"}

\* The flow has an account, a route and an amount.
Running(f) ==
  \/ f.step \in {"fee", "allowance", "approve", "approvePrompt", "approveSent",
                 "pay", "payPrompt", "paySent"}
  \/ f.tx \in {"approving", "paying"}

\* What the chain would record of the flow.
Bill(f) == [account |-> f.account, kind |-> f.kind, amount |-> f.amount]

\* Where the flow is, and the last transaction it sent.
StepMatchesTx(f) ==
  /\ f.step \in {"idle", "balance", "fee", "allowance", "approve", "approvePrompt",
                 "stuck"} => f.tx = "none"
  /\ f.step = "approveSent" => f.tx \in {"approving", "approved"}
  /\ f.step \in {"pay", "payPrompt"} => f.tx \in {"none", "approved"}
  /\ f.step = "paySent" => f.tx \in {"paying", "paid", "reverted"}
  /\ f.step \in {"refresh", "paid"} => f.tx = "paid"
  /\ f.step = "failed" /\ ~f.lost => f.tx \notin {"paying", "paid"}

Clicked(f, made, seen) ==
  /\ f \in Flow
  /\ Running(f) => Bill(f) \in Payments
  /\ StepMatchesTx(f)
  /\ f.step = "payPrompt" \/ f.tx = "paying" => seen = <<Bill(f)>>
  /\ f.tx # "paid" => made = <<>>
  /\ f.tx = "paid" => \E b \in Payments :
       /\ made = <<b>> /\ seen = <<b>>
       /\ b.kind = "pay" <=> b.account.chain = PayableChain

PageTypes ==
  /\ SessionTypeOK
  /\ chosen \in Prices \cup {0}
  /\ isPaying \in BOOLEAN

ChainTypes ==
  /\ allowance \in [Accounts -> Nat]
  /\ payments \in [Clicks -> Seq(Payments)]
  /\ shown \in [Clicks -> Seq(Payments)]

AllClicked == \A i \in Clicks : Clicked(flows[i], payments[i], shown[i])

CheckoutInv ==
  /\ PageTypes /\ ChainTypes /\ flows \in [Clicks -> Flow]
  /\ AllClicked /\ AllowanceIsBounded

-----------------------------------------------------------------------------
(* The session.                                                            *)

WalletTypes == [addr: Addresses, chain: AppChains \cup {OtherChain}]
UpdateTypes == [step: {"fetch", "sign"}, account: Accounts] \cup {NoUpdate}

LEMMA UpdateHasAccount ==
  ASSUME SessionTypeOK, NEW k \in Updates, updates[k].step \in {"fetch", "sign"}
  PROVE  updates[k].account \in Accounts
BY DEF SessionTypeOK, NoUpdate

LEMMA FirstTypes ==
  ASSUME NEW a, NEW u \in FirstUpdates(a)
  PROVE  u \in [Updates -> UpdateTypes]
BY DEF FirstUpdates, UpdateTypes

LEMMA SessionTypesKept ==
  ASSUME SessionTypeOK, SessionNext PROVE SessionTypeOK'
<1> USE SessionAssumption
<1>1. ASSUME NEW a \in WalletAccounts \cup {NoAccount}, WalletChanges(a)
      PROVE  SessionTypeOK'
  <2>1. wallet' = a /\ changes' \in 0..MaxChanges
    BY <1>1 DEF WalletChanges, MayChange, SessionTypeOK
  <2>2. CASE a \in Accounts
    <3>1. PICK k \in Updates :
            updates' = [updates EXCEPT ![k] = [step |-> "fetch", account |-> a]]
      BY <1>1, <2>2 DEF WalletChanges, StartUpdate
    <3>2. user' = user
      BY <1>1, <2>2 DEF WalletChanges, StartUpdate
    <3> QED BY <1>1, <2>1, <2>2, <3>1, <3>2 DEF SessionTypeOK
  <2>3. CASE a \notin Accounts
    BY <1>1, <2>1, <2>3 DEF WalletChanges, StartUpdate, SessionTypeOK
  <2> QED BY <2>2, <2>3
<1>2. ASSUME NEW k \in Updates,
             \/ SignInAgain(k) \/ AskToSign(k) \/ Signed(k) \/ NotSigned(k) \/ FetchFails(k)
      PROVE  SessionTypeOK'
  <2>1. CASE SignInAgain(k) \/ Signed(k)
    BY <2>1, UpdateHasAccount DEF SignInAgain, Signed, SignIn, EndUpdate, SessionTypeOK
  <2>2. CASE AskToSign(k)
    <3>1. updates[k].account \in Accounts
      BY <2>2, UpdateHasAccount DEF AskToSign
    <3>2. updates' = [updates EXCEPT ![k] = [updates[k] EXCEPT !.step = "sign"]]
      BY <2>2 DEF AskToSign
    <3>3. [updates[k] EXCEPT !.step = "sign"] \in [step: {"fetch", "sign"}, account: Accounts]
      BY <2>2, <3>1 DEF SessionTypeOK, AskToSign, NoUpdate
    <3> QED BY <2>2, <3>2, <3>3 DEF SessionTypeOK, AskToSign
  <2>3. CASE NotSigned(k) \/ FetchFails(k)
    BY <2>3 DEF NotSigned, FetchFails, EndUpdate, SessionTypeOK
  <2> QED BY <1>2, <2>1, <2>2, <2>3
<1> QED
  BY <1>1, <1>2 DEF SessionNext

-----------------------------------------------------------------------------
(* A step of one click.                                                    *)

\* An approval that was sent stays sent, and of its amount.
Sent(f, g) == f.tx # "none" => g.tx # "none" /\ g.amount = f.amount

\* Click i moves on to g; the chain is as it was.
Moves(i, g) ==
  /\ flows' = [flows EXCEPT ![i] = g]
  /\ UNCHANGED chainVars
  /\ Clicked(g, payments[i], shown[i])
  /\ Sent(flows[i], g)

LEMMA OthersClicked ==
  ASSUME CheckoutInv, NEW i \in Clicks, NEW g, flows' = [flows EXCEPT ![i] = g],
         \A j \in Clicks \ {i} : payments'[j] = payments[j] /\ shown'[j] = shown[j],
         Clicked(g, payments'[i], shown'[i])
  PROVE  flows' \in [Clicks -> Flow] /\ AllClicked'
<1>1. flows \in [Clicks -> Flow] /\ g \in Flow
  BY DEF CheckoutInv, Clicked
<1>2. flows' \in [Clicks -> Flow]
  BY <1>1
<1>3. ASSUME NEW j \in Clicks PROVE Clicked(flows'[j], payments'[j], shown'[j])
  <2>1. CASE j = i
    BY <1>1, <2>1
  <2>2. CASE j # i
    BY <1>1, <2>2 DEF CheckoutInv, AllClicked
  <2> QED BY <2>1, <2>2
<1> QED
  BY <1>2, <1>3 DEF AllClicked

LEMMA MoveKeeps ==
  ASSUME CheckoutInv, NEW i \in Clicks, NEW g, Moves(i, g), PageTypes'
  PROVE  CheckoutInv'
<1>1. flows' \in [Clicks -> Flow] /\ AllClicked'
  BY OthersClicked DEF Moves, chainVars
<1>2. flows \in [Clicks -> Flow]
  BY DEF CheckoutInv
<1>3. ASSUME NEW j \in Clicks PROVE Sent(flows[j], flows'[j])
  BY <1>2 DEF Moves, Sent
<1>4. AllowanceIsBounded'
  BY <1>3 DEF Moves, chainVars, CheckoutInv, AllowanceIsBounded, Sent
<1>5. ChainTypes'
  BY DEF CheckoutInv, Moves, chainVars, ChainTypes
<1> QED
  BY <1>1, <1>4, <1>5 DEF CheckoutInv

\* The session, the form and the amount stay.
LEMMA PageStays ==
  ASSUME PageTypes, UNCHANGED <<sessionVars, chosen>>, isPaying' \in BOOLEAN
  PROVE  PageTypes'
BY DEF PageTypes, SessionTypeOK, sessionVars

\* Click i moves to another step, its transaction as it was.
LEMMA StepOn ==
  ASSUME NEW f \in Flow, NEW s \in Steps
  PROVE  LET g == [f EXCEPT !.step = s] IN
         /\ g \in Flow /\ g.step = s /\ g.tx = f.tx /\ g.lost = f.lost
         /\ Bill(g) = Bill(f) /\ Sent(f, g)
BY DEF Flow, Steps, Bill, Sent

LEMMA MoveOn ==
  ASSUME CheckoutInv, NEW i \in Clicks, NEW s \in Steps,
         Goto(i, s), UNCHANGED chainVars, PageTypes',
         s \in {"idle", "balance", "fee", "allowance", "approve", "approvePrompt", "stuck"}
           => flows[i].tx = "none",
         s = "approveSent" => flows[i].tx \in {"approving", "approved"},
         s \in {"pay", "payPrompt"} => flows[i].tx \in {"none", "approved"},
         s = "paySent" => flows[i].tx \in {"paying", "paid", "reverted"},
         s \in {"refresh", "paid"} => flows[i].tx = "paid",
         s = "failed" /\ ~flows[i].lost => flows[i].tx \notin {"paying", "paid"},
         s \in {"fee", "allowance", "approve", "approvePrompt", "approveSent",
                "pay", "payPrompt", "paySent"} => Bill(flows[i]) \in Payments,
         s = "payPrompt" => shown[i] = <<Bill(flows[i])>>
  PROVE  CheckoutInv'
<1> DEFINE f == flows[i]
           g == [f EXCEPT !.step = s]
<1>1. Clicked(f, payments[i], shown[i]) /\ f \in Flow
  BY DEF CheckoutInv, AllClicked, Clicked
<1>2. /\ g \in Flow /\ g.step = s /\ g.tx = f.tx /\ g.lost = f.lost
      /\ Bill(g) = Bill(f) /\ Sent(f, g)
  BY <1>1, StepOn
<1>3. flows' = [flows EXCEPT ![i] = g]
  BY DEF Goto
<1> HIDE DEF g
<1>4. StepMatchesTx(g)
  BY <1>2 DEF StepMatchesTx
<1>5. Running(g) => Bill(g) \in Payments
  BY <1>1, <1>2 DEF Running, Clicked
<1>6. g.step = "payPrompt" \/ g.tx = "paying" => shown[i] = <<Bill(g)>>
  BY <1>1, <1>2 DEF Clicked
<1>7. /\ g.tx # "paid" => payments[i] = <<>>
      /\ g.tx = "paid" => \E b \in Payments :
           /\ payments[i] = <<b>> /\ shown[i] = <<b>>
           /\ b.kind = "pay" <=> b.account.chain = PayableChain
  BY <1>1, <1>2 DEF Clicked
<1>8. Clicked(g, payments[i], shown[i])
  BY <1>2, <1>4, <1>5, <1>6, <1>7 DEF Clicked
<1> QED
  BY <1>2, <1>3, <1>8, MoveKeeps DEF Moves

LEMMA ClickedNow ==
  ASSUME CheckoutInv, NEW i \in Clicks
  PROVE  /\ Clicked(flows[i], payments[i], shown[i])
         /\ StepMatchesTx(flows[i])
         /\ flows[i] \in Flow
         /\ Running(flows[i]) => Bill(flows[i]) \in Payments
BY DEF CheckoutInv, AllClicked, Clicked

-----------------------------------------------------------------------------
(* Steps that change more of the flow than where it is.                    *)

\* A flow with another account.
For(f, s, a) == [f EXCEPT !.step = s, !.account = a]

LEMMA AccountOn ==
  ASSUME NEW f \in Flow, NEW s \in Steps, NEW a \in Accounts \cup {NoAccount}
  PROVE  LET g == For(f, s, a) IN
         /\ g \in Flow /\ g.step = s /\ g.tx = f.tx /\ g.lost = f.lost
         /\ g.account = a /\ g.kind = f.kind /\ g.amount = f.amount
BY DEF Flow, Steps, For

Txs == {"none", "approving", "approved", "paying", "paid", "reverted"}

\* A flow with another transaction.
LEMMA MinedOn ==
  ASSUME NEW f \in Flow,
         NEW t \in Txs
  PROVE  LET g == [f EXCEPT !.tx = t] IN
         /\ g \in Flow /\ g.step = f.step /\ g.tx = t /\ g.lost = f.lost
         /\ Bill(g) = Bill(f) /\ g.amount = f.amount
BY DEF Flow, Bill, Txs

Sends(f, s, t) == [f EXCEPT !.step = s, !.tx = t]

LEMMA TxOn ==
  ASSUME NEW f \in Flow, NEW s \in Steps,
         NEW t \in Txs
  PROVE  LET g == Sends(f, s, t) IN
         /\ g \in Flow /\ g.step = s /\ g.tx = t /\ g.lost = f.lost
         /\ Bill(g) = Bill(f) /\ g.amount = f.amount
<1> DEFINE h == [f EXCEPT !.step = s]
           g == [h EXCEPT !.tx = t]
<1>1. h \in Flow /\ h.step = s /\ h.lost = f.lost /\ Bill(h) = Bill(f) /\ h.amount = f.amount
  BY StepOn DEF Bill, Flow
<1>2. Sends(f, s, t) = g
  BY DEF Sends, Flow
<1> HIDE DEF h
<1>3. /\ g \in Flow /\ g.step = s /\ g.tx = t /\ g.lost = h.lost
      /\ Bill(g) = Bill(h) /\ g.amount = h.amount
  BY <1>1, MinedOn
<1> QED BY <1>1, <1>2, <1>3

\* The bill of a flow with a new account.
LEMMA BillOf ==
  ASSUME NEW f, Bill(f) \in Payments
  PROVE  f.account \in Accounts /\ f.kind \in {"pay", "foreign"} /\ f.amount \in Prices
BY DEF Bill, Payments

LEMMA BillMade ==
  ASSUME NEW f, f.account \in Accounts, f.kind \in {"pay", "foreign"}, f.amount \in Prices
  PROVE  Bill(f) \in Payments
BY DEF Bill, Payments

\* Failing ends a flow that has nothing under way.
LEMMA FailOn ==
  ASSUME CheckoutInv, NEW i \in Clicks, Fail(i), UNCHANGED chainVars, PageTypes',
         ~flows[i].lost => flows[i].tx \notin {"paying", "paid"}
  PROVE  CheckoutInv'
BY MoveOn DEF Fail, Steps

\* writeContract takes the wallet's account, or fails.
LEMMA WriteOn ==
  ASSUME CheckoutInv, NEW i \in Clicks, NEW s \in {"approve", "pay"}, Write(i, s),
         UNCHANGED chainVars, PageTypes', Running(flows[i]),
         flows[i].tx \in {"none", "approved"}, s = "approve" => flows[i].tx = "none"
  PROVE  CheckoutInv'
<1> DEFINE f == flows[i]
           g == For(f, s, wallet)
<1>1. Clicked(f, payments[i], shown[i]) /\ f \in Flow /\ Bill(f) \in Payments
  BY ClickedNow
<1>2. CASE wallet \in Accounts /\ wallet.chain = flows[i].account.chain
  <2>1. /\ g \in Flow /\ g.step = s /\ g.tx = f.tx /\ g.lost = f.lost
        /\ g.account = wallet /\ g.kind = f.kind /\ g.amount = f.amount
    <3>1. s \in Steps
      BY DEF Steps
    <3> QED BY <1>1, <1>2, <3>1, AccountOn
  <2>2. flows' = [flows EXCEPT ![i] = g]
    BY <1>1, <1>2 DEF Write, For
  <2> HIDE DEF g
  <2>3. Bill(g) \in Payments
    BY <1>1, <1>2, <2>1, BillOf, BillMade
  <2>4. StepMatchesTx(g)
    BY <2>1 DEF StepMatchesTx
  <2>5. Clicked(g, payments[i], shown[i])
    BY <1>1, <2>1, <2>3, <2>4 DEF Clicked
  <2>6. Sent(f, g)
    BY <2>1 DEF Sent
  <2> QED BY <2>2, <2>5, <2>6, MoveKeeps DEF Moves
<1>3. CASE ~(wallet \in Accounts /\ wallet.chain = flows[i].account.chain)
  BY <1>3, FailOn DEF Write
<1> QED BY <1>2, <1>3

-----------------------------------------------------------------------------
(* One lemma for each action.                                              *)

LEMMA SessionStepKeeps == ASSUME CheckoutInv, SessionStep PROVE CheckoutInv'
<1>1. PageTypes'
  BY SessionTypesKept DEF SessionStep, CheckoutInv, PageTypes
<1>2. UNCHANGED <<flows, allowance, payments, shown>>
  BY DEF SessionStep, chainVars
<1> QED BY <1>1, <1>2 DEF CheckoutInv, ChainTypes, AllClicked, AllowanceIsBounded

LEMMA ReloadKeeps == ASSUME CheckoutInv, Reload PROVE CheckoutInv'
<1>1. PageTypes'
  <2>1. updates' \in [Updates -> UpdateTypes]
    BY FirstTypes DEF Reload
  <2>2. changes' \in 0..MaxChanges
    BY SessionAssumption DEF Reload, MayChange, CheckoutInv, PageTypes, SessionTypeOK
  <2> QED BY <2>1, <2>2
       DEF Reload, MayChange, CheckoutInv, PageTypes, SessionTypeOK, UpdateTypes
<1>2. UNCHANGED <<allowance, payments, shown>>
  BY DEF Reload, chainVars
<1>3. ASSUME NEW i \in Clicks
      PROVE  /\ flows'[i] \in Flow
             /\ Clicked(flows'[i], payments[i], shown[i])
             /\ Sent(flows[i], flows'[i])
  <2> DEFINE f == flows[i]
             g == [f EXCEPT !.step = "gone"]
  <2>1. Clicked(f, payments[i], shown[i]) /\ f \in Flow /\ StepMatchesTx(f)
    BY ClickedNow
  <2>2. CASE f.step \in {"idle", "paid", "failed"}
    BY <2>1, <2>2 DEF Reload, Sent
  <2>3. CASE f.step \notin {"idle", "paid", "failed"}
    <3>1. flows'[i] = g
      BY <2>3 DEF Reload
    <3>2. /\ g \in Flow /\ g.step = "gone" /\ g.tx = f.tx /\ g.lost = f.lost
          /\ Bill(g) = Bill(f) /\ Sent(f, g)
      BY <2>1, StepOn DEF Steps
    <3> HIDE DEF g
    <3>3. StepMatchesTx(g)
      BY <3>2 DEF StepMatchesTx
    <3>4. Clicked(g, payments[i], shown[i])
      BY <2>1, <3>2, <3>3 DEF Clicked, Running
    <3> QED BY <3>1, <3>2, <3>4
  <2> QED BY <2>2, <2>3
<1>4. flows' \in [Clicks -> Flow]
  BY <1>3 DEF Reload
<1>5. AllClicked'
  BY <1>2, <1>3 DEF AllClicked
<1>6. AllowanceIsBounded'
  BY <1>2, <1>3 DEF CheckoutInv, AllowanceIsBounded, Sent
<1> QED BY <1>1, <1>2, <1>4, <1>5, <1>6 DEF CheckoutInv, ChainTypes

LEMMA ChooseKeeps ==
  ASSUME CheckoutInv, NEW m \in Prices, Choose(m) PROVE CheckoutInv'
<1>1. PageTypes'
  BY DEF Choose, CheckoutInv, PageTypes, SessionTypeOK, sessionVars
<1>2. UNCHANGED <<flows, allowance, payments, shown>>
  BY DEF Choose, chainVars
<1> QED BY <1>1, <1>2 DEF CheckoutInv, ChainTypes, AllClicked, AllowanceIsBounded

LEMMA ClickKeeps == ASSUME CheckoutInv, NEW i \in Clicks, Click(i) PROVE CheckoutInv'
<1>1. PageTypes'
  BY PageStays DEF Click, CheckoutInv, PageTypes
<1>2. flows[i].tx = "none"
  BY DEF Click, NoFlow
<1> QED BY <1>1, <1>2, MoveOn DEF Click, Steps

LEMMA NoFlowClicked ==
  ASSUME NEW i \in Clicks, payments[i] = <<>>
  PROVE  NoFlow \in Flow /\ Clicked(NoFlow, payments[i], shown[i])
<1>1. NoFlow \in Flow
  BY DEF NoFlow, Flow
<1>2. NoFlow.step = "idle" /\ NoFlow.tx = "none"
  BY DEF NoFlow
<1> QED BY <1>1, <1>2 DEF Clicked, Running, StepMatchesTx

LEMMA NotValidKeeps ==
  ASSUME CheckoutInv, NEW i \in Clicks, NotValid(i) PROVE CheckoutInv'
<1>1. PageTypes'
  BY PageStays DEF NotValid, CheckoutInv, PageTypes
<1>2. Clicked(flows[i], payments[i], shown[i]) /\ StepMatchesTx(flows[i])
  BY ClickedNow
<1>3. flows[i].tx = "none"
  BY <1>2 DEF NotValid, StepMatchesTx
<1>4. payments[i] = <<>>
  BY <1>2, <1>3 DEF Clicked
<1> QED BY <1>1, <1>3, <1>4, NoFlowClicked, MoveKeeps DEF Moves, NotValid, Sent

Started(s, kind, account, amount) ==
  [NoFlow EXCEPT !.step = s, !.kind = kind, !.account = account, !.amount = amount]

LEMMA StartedHas ==
  ASSUME NEW s \in {"allowance", "fee"}, NEW k \in {"pay", "foreign"},
         NEW a \in Accounts, NEW m \in Prices
  PROVE  LET g == Started(s, k, a, m) IN
         /\ g \in Flow /\ g.step = s /\ g.tx = "none"
         /\ g.kind = k /\ g.account = a /\ g.amount = m
<1>1. NoFlow \in Flow /\ NoFlow.tx = "none"
  BY DEF NoFlow, Flow
<1> QED BY <1>1 DEF Started, Flow

LEMMA ExecKeeps == ASSUME CheckoutInv, NEW i \in Clicks, Exec(i) PROVE CheckoutInv'
<1> DEFINE s == IF Route = "pay" THEN "allowance" ELSE "fee"
           g == Started(s, Route, wallet, chosen)
<1>1. PageTypes'
  <2>1. isPaying' \in BOOLEAN
    BY DEF Exec, Fail
  <2> QED BY <2>1, PageStays DEF Exec, CheckoutInv
<1>2. Clicked(flows[i], payments[i], shown[i]) /\ StepMatchesTx(flows[i])
  BY ClickedNow
<1>3. flows[i].tx = "none" /\ UNCHANGED chainVars
  BY <1>2 DEF Exec, StepMatchesTx
<1>4. CASE user = NoAccount \/ wallet \notin Accounts
  BY <1>1, <1>3, <1>4, FailOn DEF Exec
<1>5. CASE user # NoAccount /\ wallet \in Accounts
  <2>1. chosen \in Prices
    BY DEF Exec, CheckoutInv, PageTypes
  <2>2. Route \in {"pay", "foreign"} /\ s \in {"allowance", "fee"}
    BY DEF Route
  <2>4. flows' = [flows EXCEPT ![i] = g]
    BY <1>5 DEF Exec, Started
  <2> HIDE DEF s
  <2>5. /\ g \in Flow /\ g.step = s /\ g.tx = "none"
        /\ g.kind = Route /\ g.account = wallet /\ g.amount = chosen
    BY <1>5, <2>1, <2>2, StartedHas
  <2> HIDE DEF g
  <2>6. Bill(g) \in Payments
    BY <1>5, <2>1, <2>2, <2>5, BillMade
  <2>7. StepMatchesTx(g)
    BY <2>2, <2>5 DEF StepMatchesTx
  <2>8. payments[i] = <<>>
    BY <1>2, <1>3 DEF Clicked
  <2>9. Clicked(g, payments[i], shown[i])
    BY <2>2, <2>5, <2>6, <2>7, <2>8 DEF Clicked
  <2> QED BY <1>1, <1>3, <2>4, <2>9, MoveKeeps DEF Moves, Sent
<1> QED BY <1>4, <1>5

LEMMA FeeReadKeeps ==
  ASSUME CheckoutInv, NEW i \in Clicks, FeeRead(i) PROVE CheckoutInv'
<1> DEFINE f == flows[i]
           a == [f.account EXCEPT !.addr = wallet.addr]
           g == For(f, "allowance", a)
<1>1. PageTypes'
  BY PageStays DEF FeeRead, CheckoutInv, PageTypes
<1>2. /\ Clicked(f, payments[i], shown[i]) /\ f \in Flow
      /\ f.tx = "none" /\ UNCHANGED chainVars /\ Bill(f) \in Payments
  <2>1. Running(f)
    BY DEF FeeRead, Running
  <2> QED BY <2>1, ClickedNow DEF FeeRead, StepMatchesTx
<1>3. CASE wallet = NoAccount
  BY <1>1, <1>2, <1>3, MoveOn DEF FeeRead, Steps
<1>4. CASE wallet # NoAccount
  <2>1. wallet.addr \in Addresses
    BY <1>4, SessionAssumption DEF CheckoutInv, PageTypes, SessionTypeOK
  <2>2. f.account \in Accounts /\ f.kind \in {"pay", "foreign"} /\ f.amount \in Prices
    BY <1>2, BillOf
  <2>3. a \in Accounts
    BY <2>1, <2>2 DEF Accounts
  <2>4. flows' = [flows EXCEPT ![i] = g]
    <3> DEFINE F == [flows EXCEPT ![i].step = "allowance"]
    <3>1. flows' = [F EXCEPT ![i].account.addr = wallet.addr]
      BY <1>4 DEF FeeRead
    <3>2. flows \in [Clicks -> Flow]
      BY DEF CheckoutInv
    <3> QED BY <3>1, <3>2, <1>2 DEF For, Flow
  <2> HIDE DEF a
  <2>5. /\ g \in Flow /\ g.step = "allowance" /\ g.tx = f.tx /\ g.lost = f.lost
        /\ g.account = a /\ g.kind = f.kind /\ g.amount = f.amount
    <3>1. "allowance" \in Steps
      BY DEF Steps
    <3> QED BY <1>2, <2>3, <3>1, AccountOn
  <2> HIDE DEF g
  <2>6. Bill(g) \in Payments
    BY <2>2, <2>3, <2>5, BillMade
  <2>7. Clicked(g, payments[i], shown[i])
    BY <1>2, <2>5, <2>6 DEF Clicked, StepMatchesTx
  <2> QED BY <1>1, <1>2, <2>4, <2>5, <2>7, MoveKeeps DEF Moves, Sent
<1> QED BY <1>3, <1>4

LEMMA ReadFailsKeeps ==
  ASSUME CheckoutInv, NEW i \in Clicks, ReadFails(i) PROVE CheckoutInv'
<1>1. PageTypes'
  BY PageStays DEF ReadFails, CheckoutInv, PageTypes
<1>2. flows[i].tx = "none"
  BY ClickedNow DEF ReadFails, StepMatchesTx
<1> QED BY <1>1, <1>2, MoveOn DEF ReadFails, Steps

LEMMA AllowanceReadKeeps ==
  ASSUME CheckoutInv, NEW i \in Clicks, AllowanceRead(i) PROVE CheckoutInv'
<1> DEFINE s == IF allowance[flows[i].account] < flows[i].amount THEN "approve" ELSE "pay"
<1>1. PageTypes'
  <2>1. isPaying' \in BOOLEAN
    BY DEF AllowanceRead, Write, Fail, CheckoutInv, PageTypes
  <2> QED BY <2>1, PageStays DEF AllowanceRead, CheckoutInv
<1>2. flows[i].tx = "none" /\ Running(flows[i])
  BY ClickedNow DEF AllowanceRead, StepMatchesTx, Running
<1>3. Write(i, s) /\ s \in {"approve", "pay"} /\ UNCHANGED chainVars
  BY DEF AllowanceRead
<1> HIDE DEF s
<1> QED BY <1>1, <1>2, <1>3, WriteOn

LEMMA PromptApprovalKeeps ==
  ASSUME CheckoutInv, NEW i \in Clicks, PromptApproval(i) PROVE CheckoutInv'
<1>1. PageTypes'
  BY PageStays DEF PromptApproval, CheckoutInv, PageTypes
<1>2. flows[i].tx = "none" /\ Bill(flows[i]) \in Payments
  BY ClickedNow DEF PromptApproval, StepMatchesTx, Running
<1> QED BY <1>1, <1>2, MoveOn DEF PromptApproval, Steps

LEMMA PromptPaymentKeeps ==
  ASSUME CheckoutInv, NEW i \in Clicks, PromptPayment(i) PROVE CheckoutInv'
<1> DEFINE f == flows[i]
           g == [f EXCEPT !.step = "payPrompt"]
<1>1. PageTypes'
  BY PageStays DEF PromptPayment, CheckoutInv, PageTypes
<1>2. /\ Clicked(f, payments[i], shown[i]) /\ f \in Flow
      /\ f.tx \in {"none", "approved"} /\ Bill(f) \in Payments
  <2>1. Running(f)
    BY DEF PromptPayment, Running
  <2> QED BY <2>1, ClickedNow DEF PromptPayment, StepMatchesTx
<1>3. /\ g \in Flow /\ g.step = "payPrompt" /\ g.tx = f.tx /\ g.lost = f.lost
      /\ Bill(g) = Bill(f) /\ Sent(f, g)
  <2>1. "payPrompt" \in Steps
    BY DEF Steps
  <2> QED BY <1>2, <2>1, StepOn
<1>4. flows' = [flows EXCEPT ![i] = g]
  BY DEF PromptPayment, Goto
<1>5. shown' = [shown EXCEPT ![i] = <<Bill(f)>>]
  BY DEF PromptPayment, Bill
<1>6. UNCHANGED <<allowance, payments>>
  BY DEF PromptPayment
<1> HIDE DEF g
<1>7. shown \in [Clicks -> Seq(Payments)]
  BY DEF CheckoutInv, ChainTypes
<1>8. shown' \in [Clicks -> Seq(Payments)] /\ shown'[i] = <<Bill(g)>>
  BY <1>2, <1>3, <1>5, <1>7
<1>9. StepMatchesTx(g)
  BY <1>2, <1>3 DEF StepMatchesTx
<1>10. Clicked(g, payments'[i], shown'[i])
  BY <1>2, <1>3, <1>6, <1>8, <1>9 DEF Clicked
<1>11. flows' \in [Clicks -> Flow] /\ AllClicked'
  <2>1. \A j \in Clicks \ {i} : payments'[j] = payments[j] /\ shown'[j] = shown[j]
    BY <1>5, <1>6, <1>7
  <2> QED BY <1>4, <1>10, <2>1, OthersClicked
<1>12. AllowanceIsBounded'
  <2>1. ASSUME NEW j \in Clicks PROVE Sent(flows[j], flows'[j])
    BY <1>3, <1>4 DEF Sent, CheckoutInv
  <2> QED BY <1>6, <2>1 DEF CheckoutInv, AllowanceIsBounded, Sent
<1> QED BY <1>1, <1>6, <1>8, <1>11, <1>12 DEF CheckoutInv, ChainTypes

LEMMA RefuseKeeps ==
  ASSUME CheckoutInv, NEW i \in Clicks, Refuse(i) PROVE CheckoutInv'
<1>1. PageTypes'
  BY PageStays DEF Refuse, Fail, CheckoutInv, PageTypes
<1>2. flows[i].tx \in {"none", "approved"}
  BY ClickedNow DEF Refuse, StepMatchesTx
<1> QED BY <1>1, <1>2, FailOn DEF Refuse

LEMMA ConfirmApprovalKeeps ==
  ASSUME CheckoutInv, NEW i \in Clicks, ConfirmApproval(i) PROVE CheckoutInv'
<1> DEFINE f == flows[i]
           g == Sends(f, "approveSent", "approving")
<1>1. PageTypes'
  BY PageStays DEF ConfirmApproval, CheckoutInv, PageTypes
<1>2. /\ Clicked(f, payments[i], shown[i]) /\ f \in Flow
      /\ f.tx = "none" /\ Bill(f) \in Payments
  <2>1. Running(f)
    BY DEF ConfirmApproval, Running
  <2> QED BY <2>1, ClickedNow DEF ConfirmApproval, StepMatchesTx
<1>3. /\ g \in Flow /\ g.step = "approveSent" /\ g.tx = "approving" /\ g.lost = f.lost
      /\ Bill(g) = Bill(f) /\ g.amount = f.amount
  <2>1. "approveSent" \in Steps /\ "approving" \in Txs
    BY DEF Steps, Txs
  <2> QED BY <1>2, <2>1, TxOn
<1>4. flows' = [flows EXCEPT ![i] = g]
  BY <1>2 DEF ConfirmApproval, Sends
<1> HIDE DEF g
<1>5. Clicked(g, payments[i], shown[i])
  BY <1>2, <1>3 DEF Clicked, StepMatchesTx
<1> QED BY <1>1, <1>2, <1>3, <1>4, <1>5, MoveKeeps DEF Moves, Sent, ConfirmApproval

LEMMA ConfirmPaymentKeeps ==
  ASSUME CheckoutInv, NEW i \in Clicks, ConfirmPayment(i) PROVE CheckoutInv'
<1> DEFINE f == flows[i]
           g == Sends(f, "paySent", "paying")
<1>1. PageTypes'
  BY PageStays DEF ConfirmPayment, CheckoutInv, PageTypes
<1>2. /\ Clicked(f, payments[i], shown[i]) /\ f \in Flow
      /\ f.tx \in {"none", "approved"} /\ Bill(f) \in Payments /\ shown[i] = <<Bill(f)>>
  <2>1. Running(f)
    BY DEF ConfirmPayment, Running
  <2> QED BY <2>1, ClickedNow DEF ConfirmPayment, StepMatchesTx, Clicked
<1>3. /\ g \in Flow /\ g.step = "paySent" /\ g.tx = "paying" /\ g.lost = f.lost
      /\ Bill(g) = Bill(f) /\ g.amount = f.amount
  <2>1. "paySent" \in Steps /\ "paying" \in Txs
    BY DEF Steps, Txs
  <2> QED BY <1>2, <2>1, TxOn
<1>4. flows' = [flows EXCEPT ![i] = g]
  BY <1>2 DEF ConfirmPayment, Sends
<1> HIDE DEF g
<1>5. Clicked(g, payments[i], shown[i])
  BY <1>2, <1>3 DEF Clicked, StepMatchesTx
<1> QED BY <1>1, <1>2, <1>3, <1>4, <1>5, MoveKeeps DEF Moves, Sent, ConfirmPayment

\* A transaction is mined: where the click is does not change.
LEMMA MinedMatches ==
  ASSUME NEW f, NEW g, StepMatchesTx(f), g.step = f.step, g.lost = f.lost,
         \/ f.tx = "approving" /\ g.tx = "approved"
         \/ f.tx = "paying" /\ g.tx \in {"paid", "reverted"}
  PROVE  StepMatchesTx(g)
BY DEF StepMatchesTx

LEMMA MineApprovalKeeps ==
  ASSUME CheckoutInv, NEW i \in Clicks, MineApproval(i) PROVE CheckoutInv'
<1> DEFINE f == flows[i]
           g == [f EXCEPT !.tx = "approved"]
<1>1. PageTypes'
  BY DEF MineApproval, CheckoutInv, PageTypes, SessionTypeOK, sessionVars
<1>2. /\ Clicked(f, payments[i], shown[i]) /\ f \in Flow /\ f.tx = "approving"
      /\ Bill(f) \in Payments /\ StepMatchesTx(f)
  <2>1. Running(f)
    BY DEF MineApproval, Running
  <2> QED BY <2>1, ClickedNow DEF MineApproval
<1>3. /\ g \in Flow /\ g.step = f.step /\ g.tx = "approved" /\ g.lost = f.lost
      /\ Bill(g) = Bill(f) /\ g.amount = f.amount
  BY <1>2, MinedOn DEF Txs
<1>4. flows' = [flows EXCEPT ![i] = g] /\ UNCHANGED <<payments, shown>>
  BY DEF MineApproval
<1> HIDE DEF g
<1>5. f.account \in Accounts /\ f.amount \in Prices /\ f.amount \in Nat
  BY <1>2, BillOf, CheckoutAssumption
<1>6. Clicked(g, payments'[i], shown'[i])
  <2>1. StepMatchesTx(g)
    BY <1>2, <1>3, MinedMatches
  <2>2. Running(g) => Bill(g) \in Payments
    BY <1>2, <1>3
  <2>3. g.step = "payPrompt" => shown[i] = <<Bill(g)>>
    BY <1>2, <1>3 DEF StepMatchesTx
  <2> QED BY <1>2, <1>3, <1>4, <2>1, <2>2, <2>3 DEF Clicked
<1>7. flows' \in [Clicks -> Flow] /\ AllClicked'
  BY <1>4, <1>6, OthersClicked
<1>8. allowance \in [Accounts -> Nat] /\ flows \in [Clicks -> Flow]
  BY DEF CheckoutInv, ChainTypes
<1>9. allowance' = [allowance EXCEPT ![f.account] = f.amount]
  BY DEF MineApproval
<1>10. AllowanceIsBounded'
  <2>1. ASSUME NEW a \in Accounts, allowance'[a] # 0
        PROVE  \E j \in Clicks : flows'[j].tx # "none" /\ allowance'[a] <= flows'[j].amount
    <3>1. CASE a = f.account
      <4>1. flows'[i] = g
        BY <1>4, <1>8
      <4>2. allowance'[a] = f.amount
        BY <1>5, <1>8, <1>9, <3>1
      <4> QED BY <1>3, <1>5, <4>1, <4>2
    <3>2. CASE a # f.account
      <4>1. allowance'[a] = allowance[a]
        BY <1>8, <1>9, <3>2
      <4>2. PICK j \in Clicks : flows[j].tx # "none" /\ allowance[a] <= flows[j].amount
        BY <2>1, <4>1 DEF CheckoutInv, AllowanceIsBounded
      <4>3. flows'[j].tx # "none" /\ flows'[j].amount = flows[j].amount
        BY <1>3, <1>4, <1>8, <4>2
      <4> QED BY <4>1, <4>2, <4>3
    <3> QED BY <3>1, <3>2
  <2> QED BY <2>1 DEF AllowanceIsBounded
<1>11. ChainTypes'
  BY <1>4, <1>5, <1>8, <1>9 DEF CheckoutInv, ChainTypes
<1> QED BY <1>1, <1>7, <1>10, <1>11 DEF CheckoutInv

LEMMA FlowAmount ==
  ASSUME NEW f \in Flow PROVE f.amount \in Nat
<1>1. f.amount \in Prices \cup {0}
  BY DEF Flow
<1>2. \A m \in Prices \cup {0} : m \in Nat
  BY CheckoutAssumption
<1> QED BY <1>1, <1>2

LEMMA MinePaymentKeeps ==
  ASSUME CheckoutInv, NEW i \in Clicks, MinePayment(i) PROVE CheckoutInv'
<1> DEFINE f == flows[i]
           g == [f EXCEPT !.tx = "paid"]
<1>1. PageTypes'
  BY DEF MinePayment, CheckoutInv, PageTypes, SessionTypeOK, sessionVars
<1>2. /\ Clicked(f, payments[i], shown[i]) /\ f \in Flow /\ f.tx = "paying"
      /\ Bill(f) \in Payments /\ StepMatchesTx(f)
  <2>1. Running(f)
    BY DEF MinePayment, Running
  <2> QED BY <2>1, ClickedNow DEF MinePayment
<1>3. /\ g \in Flow /\ g.step = f.step /\ g.tx = "paid" /\ g.lost = f.lost
      /\ Bill(g) = Bill(f) /\ g.amount = f.amount
  BY <1>2, MinedOn DEF Txs
<1>4. flows' = [flows EXCEPT ![i] = g] /\ UNCHANGED shown
  BY DEF MinePayment
<1> HIDE DEF g
<1>5. f.account \in Accounts /\ f.amount \in Prices /\ f.amount \in Nat
  BY <1>2, BillOf, CheckoutAssumption
<1>6. payments[i] = <<>> /\ shown[i] = <<Bill(f)>>
  BY <1>2 DEF Clicked
<1>7. payments \in [Clicks -> Seq(Payments)]
  BY DEF CheckoutInv, ChainTypes
<1>8. payments' = [payments EXCEPT ![i] = <<Bill(f)>>]
  <2>1. payments' = [payments EXCEPT ![i] = Append(payments[i], Bill(f))]
    BY DEF MinePayment, Bill
  <2>2. Append(payments[i], Bill(f)) = <<Bill(f)>>
    BY <1>6
  <2> QED BY <2>1, <2>2
<1>9. payments' \in [Clicks -> Seq(Payments)] /\ payments'[i] = <<Bill(f)>>
  BY <1>2, <1>7, <1>8
<1>10. Bill(f).kind = "pay" <=> Bill(f).account.chain = PayableChain
  BY DEF MinePayment, Accepts, Bill
<1>11. Clicked(g, payments'[i], shown'[i])
  <2>1. StepMatchesTx(g)
    BY <1>2, <1>3, MinedMatches
  <2>2. Running(g) => Bill(g) \in Payments
    BY <1>2, <1>3
  <2>3. g.step = "payPrompt" => shown[i] = <<Bill(g)>>
    BY <1>3, <1>6
  <2>4. \E b \in Payments :
          /\ payments'[i] = <<b>> /\ shown'[i] = <<b>>
          /\ b.kind = "pay" <=> b.account.chain = PayableChain
    BY <1>2, <1>4, <1>6, <1>9, <1>10
  <2> QED BY <1>2, <1>3, <1>4, <2>1, <2>2, <2>3, <2>4 DEF Clicked
<1>12. flows' \in [Clicks -> Flow] /\ AllClicked'
  BY <1>4, <1>7, <1>8, <1>11, OthersClicked
<1>13. allowance \in [Accounts -> Nat] /\ flows \in [Clicks -> Flow]
  BY DEF CheckoutInv, ChainTypes
<1>14. allowance' = [allowance EXCEPT ![f.account] = allowance[f.account] - f.amount]
  BY DEF MinePayment
<1>15. /\ allowance[f.account] - f.amount \in Nat
       /\ allowance[f.account] - f.amount <= allowance[f.account]
       /\ allowance[f.account] \in Nat
  BY <1>5, <1>13 DEF MinePayment, Accepts
<1>16. AllowanceIsBounded'
  <2>1. ASSUME NEW a \in Accounts, allowance'[a] # 0
        PROVE  \E j \in Clicks : flows'[j].tx # "none" /\ allowance'[a] <= flows'[j].amount
    <3>1. /\ allowance[a] # 0 /\ allowance'[a] <= allowance[a]
          /\ allowance[a] \in Nat /\ allowance'[a] \in Nat
      <4>1. CASE a = f.account
        <5>1. allowance'[a] = allowance[f.account] - f.amount
          BY <1>5, <1>13, <1>14, <4>1
        <5> QED BY <1>5, <1>15, <2>1, <4>1, <5>1
      <4>2. CASE a # f.account
        BY <1>13, <1>14, <2>1, <4>2
      <4> QED BY <4>1, <4>2
    <3>2. PICK j \in Clicks : flows[j].tx # "none" /\ allowance[a] <= flows[j].amount
      BY <3>1 DEF CheckoutInv, AllowanceIsBounded
    <3>3. flows'[j].tx # "none" /\ flows'[j].amount = flows[j].amount
      BY <1>3, <1>4, <1>13, <3>2
    <3>4. flows[j].amount \in Nat
      BY <1>13, <3>2, FlowAmount
    <3> QED BY <3>1, <3>2, <3>3, <3>4
  <2> QED BY <2>1 DEF AllowanceIsBounded
<1>17. ChainTypes'
  BY <1>4, <1>5, <1>9, <1>13, <1>14, <1>15 DEF CheckoutInv, ChainTypes
<1> QED BY <1>1, <1>12, <1>16, <1>17 DEF CheckoutInv

LEMMA MineRevertKeeps ==
  ASSUME CheckoutInv, NEW i \in Clicks, MineRevert(i) PROVE CheckoutInv'
<1> DEFINE f == flows[i]
           g == [f EXCEPT !.tx = "reverted"]
<1>1. PageTypes'
  BY PageStays DEF MineRevert, CheckoutInv, PageTypes
<1>2. /\ Clicked(f, payments[i], shown[i]) /\ f \in Flow /\ f.tx = "paying"
      /\ Bill(f) \in Payments /\ StepMatchesTx(f)
  <2>1. Running(f)
    BY DEF MineRevert, Running
  <2> QED BY <2>1, ClickedNow DEF MineRevert
<1>3. /\ g \in Flow /\ g.step = f.step /\ g.tx = "reverted" /\ g.lost = f.lost
      /\ Bill(g) = Bill(f) /\ g.amount = f.amount
  BY <1>2, MinedOn DEF Txs
<1>4. flows' = [flows EXCEPT ![i] = g]
  BY DEF MineRevert
<1> HIDE DEF g
<1>5. StepMatchesTx(g)
  BY <1>2, <1>3, MinedMatches
<1>6. g.step = "payPrompt" => shown[i] = <<Bill(g)>>
  BY <1>2, <1>3 DEF Clicked
<1>7. Clicked(g, payments[i], shown[i])
  BY <1>2, <1>3, <1>5, <1>6 DEF Clicked
<1> QED BY <1>1, <1>2, <1>3, <1>4, <1>7, MoveKeeps DEF Moves, Sent, MineRevert

LEMMA ApprovedKeeps ==
  ASSUME CheckoutInv, NEW i \in Clicks, Approved(i) PROVE CheckoutInv'
<1>1. PageTypes'
  <2>1. isPaying' \in BOOLEAN
    BY DEF Approved, Write, Fail, CheckoutInv, PageTypes
  <2> QED BY <2>1, PageStays DEF Approved, CheckoutInv
<1>2. Running(flows[i])
  BY DEF Approved, Running
<1> QED BY <1>1, <1>2, WriteOn DEF Approved

LEMMA RevertedKeeps ==
  ASSUME CheckoutInv, NEW i \in Clicks, Reverted(i) PROVE CheckoutInv'
<1>1. PageTypes'
  BY PageStays DEF Reverted, Fail, CheckoutInv, PageTypes
<1> QED BY <1>1, FailOn DEF Reverted

LEMMA IncludedKeeps ==
  ASSUME CheckoutInv, NEW i \in Clicks, Included(i) PROVE CheckoutInv'
<1> DEFINE f == flows[i]
           a == IF wallet \in Accounts THEN wallet ELSE NoAccount
           g == For(f, "refresh", a)
<1>1. PageTypes'
  BY PageStays DEF Included, CheckoutInv, PageTypes
<1>2. Clicked(f, payments[i], shown[i]) /\ f \in Flow /\ f.tx = "paid"
  BY ClickedNow DEF Included
<1>3. CASE user = NoAccount
  BY <1>1, <1>2, <1>3, MoveOn DEF Included, Steps
<1>4. CASE user # NoAccount
  <2>1. a \in Accounts \cup {NoAccount} /\ "refresh" \in Steps
    BY DEF Steps
  <2>2. flows' = [flows EXCEPT ![i] = g]
    BY <1>2, <1>4 DEF Included, For
  <2> HIDE DEF a
  <2>3. /\ g \in Flow /\ g.step = "refresh" /\ g.tx = f.tx /\ g.lost = f.lost
        /\ g.account = a /\ g.kind = f.kind /\ g.amount = f.amount
    BY <1>2, <2>1, AccountOn
  <2> HIDE DEF g
  <2>4. StepMatchesTx(g) /\ ~Running(g)
    BY <1>2, <2>3 DEF StepMatchesTx, Running
  <2>5. Clicked(g, payments[i], shown[i])
    BY <1>2, <2>3, <2>4 DEF Clicked
  <2> QED BY <1>1, <1>2, <2>2, <2>3, <2>5, MoveKeeps DEF Moves, Sent, Included
<1> QED BY <1>3, <1>4

LEMMA ReceiptKeeps ==
  ASSUME CheckoutInv, NEW i \in Clicks, Receipt(i) PROVE CheckoutInv'
<1>1. flows[i].tx = "paid" /\ flows[i].account \in Accounts \cup {NoAccount}
  BY ClickedNow DEF Receipt, StepMatchesTx, Flow
<1>2. PageTypes'
  BY <1>1 DEF Receipt, CheckoutInv, PageTypes, SessionTypeOK
<1> QED BY <1>1, <1>2, MoveOn DEF Receipt, Steps

LEMMA LoseTrackKeeps ==
  ASSUME CheckoutInv, NEW i \in Clicks, LoseTrack(i) PROVE CheckoutInv'
<1> DEFINE f == flows[i]
           h == [f EXCEPT !.step = "failed"]
           g == [h EXCEPT !.lost = TRUE]
<1>1. PageTypes'
  BY PageStays DEF LoseTrack, CheckoutInv, PageTypes
<1>2. Clicked(f, payments[i], shown[i]) /\ f \in Flow
  BY ClickedNow
<1>3. h \in Flow /\ h.step = "failed" /\ h.tx = f.tx /\ Bill(h) = Bill(f) /\ Sent(f, h)
  <2>1. "failed" \in Steps
    BY DEF Steps
  <2> QED BY <1>2, <2>1, StepOn
<1>4. flows' = [flows EXCEPT ![i] = g]
  BY <1>2 DEF LoseTrack, Flow
<1> HIDE DEF h
<1>5. /\ g \in Flow /\ g.step = h.step /\ g.tx = h.tx /\ g.lost
      /\ Bill(g) = Bill(h) /\ g.amount = h.amount
  BY <1>3 DEF Flow, Bill
<1> HIDE DEF g
<1>6. StepMatchesTx(g)
  BY <1>3, <1>5 DEF StepMatchesTx
<1>7. Running(g) => Bill(g) \in Payments
  BY <1>2, <1>3, <1>5 DEF Running, Clicked
<1>8. Clicked(g, payments[i], shown[i])
  BY <1>2, <1>3, <1>5, <1>6, <1>7 DEF Clicked
<1>9. Sent(f, g)
  BY <1>3, <1>5 DEF Sent
<1> QED BY <1>1, <1>4, <1>8, <1>9, MoveKeeps DEF Moves, LoseTrack

-----------------------------------------------------------------------------
(* The theorems.                                                           *)

LEMMA CheckoutStarts == CheckoutInit => CheckoutInv
<1> SUFFICES ASSUME CheckoutInit PROVE CheckoutInv
  OBVIOUS
<1>1. PageTypes
  <2>1. updates \in [Updates -> UpdateTypes]
    BY FirstTypes DEF CheckoutInit, SessionInit
  <2>2. changes \in 0..MaxChanges
    BY SessionAssumption DEF CheckoutInit, SessionInit
  <2> QED BY <2>1, <2>2 DEF CheckoutInit, SessionInit, PageTypes, SessionTypeOK, UpdateTypes
<1>2. ChainTypes
  BY DEF CheckoutInit, ChainTypes
<1>3. AllClicked
  <2>1. ASSUME NEW i \in Clicks PROVE Clicked(flows[i], payments[i], shown[i])
    <3>1. flows[i] = NoFlow /\ payments[i] = <<>>
      BY DEF CheckoutInit
    <3> QED BY <3>1, NoFlowClicked
  <2> QED BY <2>1 DEF AllClicked
<1>4. flows \in [Clicks -> Flow]
  <2>1. NoFlow \in Flow
    BY DEF NoFlow, Flow
  <2> QED BY <2>1 DEF CheckoutInit
<1>5. AllowanceIsBounded
  BY DEF CheckoutInit, AllowanceIsBounded
<1> QED BY <1>1, <1>2, <1>3, <1>4, <1>5 DEF CheckoutInv

LEMMA CheckoutStutters ==
  ASSUME CheckoutInv, UNCHANGED checkoutVars PROVE CheckoutInv'
<1>1. PageTypes'
  BY DEF checkoutVars, payVars, sessionVars, CheckoutInv, PageTypes, SessionTypeOK
<1>2. UNCHANGED <<flows, allowance, payments, shown>>
  BY DEF checkoutVars, payVars
<1> QED BY <1>1, <1>2 DEF CheckoutInv, ChainTypes, AllClicked, AllowanceIsBounded

LEMMA CheckoutSteps ==
  ASSUME CheckoutInv, [CheckoutNext]_checkoutVars PROVE CheckoutInv'
<1>1. CASE UNCHANGED checkoutVars
  BY <1>1, CheckoutStutters
<1>2. CASE SessionStep
  BY <1>2, SessionStepKeeps
<1>3. CASE Reload
  BY <1>3, ReloadKeeps
<1>4. ASSUME NEW m \in Prices, Choose(m) PROVE CheckoutInv'
  BY <1>4, ChooseKeeps
<1>5. ASSUME NEW i \in Clicks,
             \/ Click(i) \/ NotValid(i) \/ Exec(i) \/ FeeRead(i) \/ ReadFails(i)
             \/ AllowanceRead(i) \/ Refuse(i) \/ PromptApproval(i) \/ PromptPayment(i)
      PROVE  CheckoutInv'
  <2>1. CASE Click(i) \/ NotValid(i) \/ Exec(i) \/ FeeRead(i) \/ ReadFails(i)
    BY <2>1, ClickKeeps, NotValidKeeps, ExecKeeps, FeeReadKeeps, ReadFailsKeeps
  <2>2. CASE AllowanceRead(i) \/ Refuse(i) \/ PromptApproval(i) \/ PromptPayment(i)
    BY <2>2, AllowanceReadKeeps, RefuseKeeps, PromptApprovalKeeps, PromptPaymentKeeps
  <2> QED BY <1>5, <2>1, <2>2
<1>6. ASSUME NEW i \in Clicks,
             \/ ConfirmApproval(i) \/ ConfirmPayment(i)
             \/ MineApproval(i) \/ MinePayment(i) \/ MineRevert(i)
             \/ Approved(i) \/ Reverted(i) \/ Included(i) \/ Receipt(i) \/ LoseTrack(i)
      PROVE  CheckoutInv'
  <2>1. CASE ConfirmApproval(i) \/ ConfirmPayment(i)
    BY <2>1, ConfirmApprovalKeeps, ConfirmPaymentKeeps
  <2>2. CASE MineApproval(i) \/ MinePayment(i) \/ MineRevert(i)
    BY <2>2, MineApprovalKeeps, MinePaymentKeeps, MineRevertKeeps
  <2>3. CASE Approved(i) \/ Reverted(i) \/ Included(i) \/ Receipt(i) \/ LoseTrack(i)
    BY <2>3, ApprovedKeeps, RevertedKeeps, IncludedKeeps, ReceiptKeeps, LoseTrackKeeps
  <2> QED BY <1>6, <2>1, <2>2, <2>3
<1> QED
  BY <1>1, <1>2, <1>3, <1>4, <1>5, <1>6 DEF CheckoutNext

LEMMA CheckoutInvariant == CheckoutSpec => []CheckoutInv
<1>1. CheckoutInv /\ [CheckoutNext]_checkoutVars => CheckoutInv'
  BY CheckoutSteps
<1> QED BY CheckoutStarts, <1>1, PTL DEF CheckoutSpec

(* Every variable of the session, the page and the chain keeps its type:   *)
(* no reading of the wallet, early or late, puts anything else in.         *)
THEOREM CheckoutTypeCorrect == CheckoutSpec => []CheckoutTypeOK
<1>1. CheckoutInv => CheckoutTypeOK
  BY DEF CheckoutInv, PageTypes, ChainTypes, CheckoutTypeOK
<1> QED BY CheckoutInvariant, <1>1, PTL

(* The page goes to a receipt only of a payment that was made, and a       *)
(* payment it calls failed was not made and will not be, unless the        *)
(* connection broke while the page was waiting (evm.ts writeContract,      *)
(* payment.ts exec, PayView.vue pay).                                      *)
THEOREM OutcomesAreTrue == CheckoutSpec => []OutcomeIsTrue
<1>1. CheckoutInv => OutcomeIsTrue
  <2> SUFFICES ASSUME CheckoutInv, NEW i \in Clicks
      PROVE  /\ flows[i].step \in {"refresh", "paid"} => payments[i] # <<>>
             /\ flows[i].step = "failed" /\ ~flows[i].lost =>
                  payments[i] = <<>> /\ flows[i].tx # "paying"
    BY DEF OutcomeIsTrue
  <2>1. Clicked(flows[i], payments[i], shown[i]) /\ StepMatchesTx(flows[i])
    BY ClickedNow
  <2>2. CASE flows[i].step \in {"refresh", "paid"}
    <3>1. PICK b \in Payments : payments[i] = <<b>>
      BY <2>1, <2>2 DEF Clicked, StepMatchesTx
    <3> QED BY <2>2, <3>1
  <2>3. CASE flows[i].step = "failed" /\ ~flows[i].lost
    BY <2>1, <2>3 DEF Clicked, StepMatchesTx
  <2> QED BY <2>2, <2>3
<1> QED BY CheckoutInvariant, <1>1, PTL

(* A click makes at most one payment, the one the wallet showed, by the    *)
(* route the payable's chain asks for, whatever the wallet and currentUser *)
(* did in between (payment.ts exec, evm.ts pay and payForeignWithCircle).  *)
THEOREM PaymentsAreAsConfirmed == CheckoutSpec => []PaymentsAsConfirmed
<1>1. CheckoutInv => PaymentsAsConfirmed
  <2> SUFFICES ASSUME CheckoutInv, NEW i \in Clicks, payments[i] # <<>>
      PROVE  /\ payments[i] = shown[i]
             /\ payments[i][1].kind = "pay" <=> payments[i][1].account.chain = PayableChain
    BY DEF PaymentsAsConfirmed
  <2>1. Clicked(flows[i], payments[i], shown[i])
    BY ClickedNow
  <2>2. PICK b \in Payments :
          /\ payments[i] = <<b>> /\ shown[i] = <<b>>
          /\ b.kind = "pay" <=> b.account.chain = PayableChain
    BY <2>1 DEF Clicked
  <2>3. payments[i][1] = b
    BY <2>2
  <2> QED BY <2>2, <2>3
<1> QED BY CheckoutInvariant, <1>1, PTL

(* An allowance is never the sum of approvals: of what an account has, our *)
(* contract may take no more than one payment, however many were started   *)
(* or given up (evm.ts approveToken).                                      *)
THEOREM AllowancesAreBounded == CheckoutSpec => []AllowanceIsBounded
<1>1. CheckoutInv => AllowanceIsBounded
  BY DEF CheckoutInv
<1> QED BY CheckoutInvariant, <1>1, PTL

-----------------------------------------------------------------------------
(***************************************************************************)
(* The table of activities shows one page of one list, whole and in order, *)
(* for lists of any length, pages of any size and any number of loads and  *)
(* fetches that overlap.  What a load shows is what its ids were, because  *)
(* what was missing in the cache comes back in the order it was asked for  *)
(* (AllPlaced); and what was a page of the list stays one, because lists   *)
(* only grow, while the counts a fetch sets may go back.  Until tab or     *)
(* counts change unseen (astray), the load that began last was asked for   *)
(* the page the table is on (IsOfThisPage), because every change of the    *)
(* page and every new count begins a load.                                 *)
(***************************************************************************)
(* Picking some of the ids, in order: the recursion exists (by the least   *)
(* length without one), and what it gives is unique to it.                 *)

PickedBy(f, ids, set, n) ==
  f = [i \in 0..n |->
         IF i = 0 THEN <<>>
         ELSE IF ids[i] \in set THEN Append(f[i - 1], ids[i])
         ELSE f[i - 1]]

LEMMA PickedIsPicker ==
  ASSUME NEW ids, NEW set
  PROVE  Picked(ids, set) = CHOOSE f : PickedBy(f, ids, set, Len(ids))
BY DEF Picked, PickedBy

LEMMA PickedAt ==
  ASSUME NEW f, NEW ids, NEW set, NEW n \in Nat, PickedBy(f, ids, set, n), NEW i \in 0..n
  PROVE  f[i] = IF i = 0 THEN <<>>
                ELSE IF ids[i] \in set THEN Append(f[i - 1], ids[i])
                ELSE f[i - 1]
BY DEF PickedBy

LEMMA PickerExists ==
  ASSUME NEW ids, NEW set
  PROVE  \A n \in Nat : \E f : PickedBy(f, ids, set, n)
<1> DEFINE bad == {n \in Nat : ~ \E f : PickedBy(f, ids, set, n)}
<1>1. ASSUME bad # {} PROVE FALSE
  <2>1. PICK n \in bad : \A m \in bad : n <= m
    <3>1. bad \subseteq Nat
      OBVIOUS
    <3> HIDE DEF bad
    <3> QED
      BY <1>1, <3>1, LeastNumber
  <2>2. n \in Nat /\ ~ \E f : PickedBy(f, ids, set, n)
    BY <2>1
  <2>3. CASE n = 0
    <3> DEFINE f == [i \in 0..0 |-> <<>>]
    <3>1. PickedBy(f, ids, set, 0)
      BY DEF PickedBy
    <3> QED
      BY <2>2, <2>3, <3>1
  <2>4. CASE n # 0
    <3>1. n - 1 \in Nat /\ n - 1 \notin bad
      BY <2>1, <2>2, <2>4
    <3>2. PICK g : PickedBy(g, ids, set, n - 1)
      BY <3>1
    <3> DEFINE last == IF ids[n] \in set THEN Append(g[n - 1], ids[n]) ELSE g[n - 1]
               f == [i \in 0..n |-> IF i = n THEN last ELSE g[i]]
    <3>3. ASSUME NEW i \in 0..n
          PROVE  f[i] = IF i = 0 THEN <<>>
                        ELSE IF ids[i] \in set THEN Append(f[i - 1], ids[i])
                        ELSE f[i - 1]
      <4>1. CASE i = n
        <5>1. f[i] = last /\ f[i - 1] = g[n - 1]
          BY <2>2, <2>4, <4>1
        <5> QED
          BY <2>4, <4>1, <5>1
      <4>2. CASE i # n
        <5>1. i \in 0..(n - 1) /\ f[i] = g[i]
          BY <2>2, <4>2
        <5>2. g[i] = IF i = 0 THEN <<>>
                        ELSE IF ids[i] \in set THEN Append(g[i - 1], ids[i])
                        ELSE g[i - 1]
          BY <3>1, <3>2, <5>1, PickedAt
        <5>3. i # 0 => f[i - 1] = g[i - 1]
          BY <2>2, <5>1
        <5> HIDE DEF f
        <5> QED
          BY <5>1, <5>2, <5>3
      <4> QED
        BY <4>1, <4>2
    <3>4. f = [i \in 0..n |-> f[i]]
      OBVIOUS
    <3> HIDE DEF f
    <3>5. PickedBy(f, ids, set, n)
      BY <3>3, <3>4 DEF PickedBy
    <3> QED
      BY <2>2, <3>5
  <2> QED
    BY <2>3, <2>4
<1> QED
  BY <1>1

LEMMA PickedIs ==
  ASSUME NEW S, NEW ids \in Seq(S), NEW set
  PROVE  PickedBy(Picked(ids, set), ids, set, Len(ids))
<1>1. \E f : PickedBy(f, ids, set, Len(ids))
  BY PickerExists
<1> QED
  BY <1>1, PickedIsPicker

\* What is picked early stays where it is.
LEMMA PickedGrows ==
  ASSUME NEW S, NEW ids \in Seq(S), NEW set, NEW f, PickedBy(f, ids, set, Len(ids))
  PROVE  \A j \in 0..Len(ids) :
           /\ f[j] \in Seq(S)
           /\ \A x \in DOMAIN f[j] : f[j][x] \in set /\ \E i \in DOMAIN ids : ids[i] = f[j][x]
           /\ \A i \in 0..j : /\ Len(f[i]) <= Len(f[j])
                              /\ \A x \in 1..Len(f[i]) : f[j][x] = f[i][x]
<1> DEFINE Good(j) ==
           /\ f[j] \in Seq(S)
           /\ \A x \in DOMAIN f[j] : f[j][x] \in set /\ \E i \in DOMAIN ids : ids[i] = f[j][x]
           /\ \A i \in 0..j : /\ Len(f[i]) <= Len(f[j])
                              /\ \A x \in 1..Len(f[i]) : f[j][x] = f[i][x]
           bad == {j \in 0..Len(ids) : ~ Good(j)}
<1>0. Len(ids) \in Nat /\ DOMAIN ids = 1..Len(ids)
  OBVIOUS
<1>1. ASSUME bad # {} PROVE FALSE
  <2>1. PICK n \in bad : \A m \in bad : n <= m
    <3>1. bad \subseteq Nat
      BY <1>0
    <3> HIDE DEF bad
    <3> QED
      BY <1>1, <3>1, LeastNumber
  <2>2. n \in 0..Len(ids) /\ ~ Good(n)
    BY <2>1
  <2>3. CASE n = 0
    <3>1. f[0] = <<>>
      BY <1>0, PickedAt
    <3> QED
      BY <2>2, <2>3, <3>1
  <2>4. CASE n # 0
    <3> DEFINE s == f[n - 1]
    <3>1. n - 1 \in 0..Len(ids) /\ Good(n - 1) /\ n \in DOMAIN ids /\ ids[n] \in S
      BY <1>0, <2>1, <2>2, <2>4
    <3>2. s \in Seq(S)
      BY <3>1
    <3>3. f[n] = IF ids[n] \in set THEN Append(s, ids[n]) ELSE s
      BY <1>0, <2>2, <2>4, PickedAt
    <3>4. /\ f[n] \in Seq(S) /\ Len(s) <= Len(f[n])
          /\ \A x \in 1..Len(s) : f[n][x] = s[x]
          /\ \A x \in DOMAIN f[n] : x \in 1..Len(s) \/ (ids[n] \in set /\ f[n][x] = ids[n])
      <4> HIDE DEF s
      <4>1. CASE ids[n] \in set
        BY <3>1, <3>2, <3>3, <4>1
      <4>2. CASE ids[n] \notin set
        BY <3>1, <3>2, <3>3, <4>2
      <4> QED
        BY <4>1, <4>2
    <3>5. \A x \in 1..Len(s) : s[x] \in set /\ \E i \in DOMAIN ids : ids[i] = s[x]
      BY <3>1, <3>2
    <3>6. \A x \in DOMAIN f[n] : f[n][x] \in set /\ \E i \in DOMAIN ids : ids[i] = f[n][x]
      BY <3>1, <3>4, <3>5
    <3>7. ASSUME NEW i \in 0..n
          PROVE  /\ Len(f[i]) <= Len(f[n])
                 /\ \A x \in 1..Len(f[i]) : f[n][x] = f[i][x]
      <4>1. CASE i = n
        BY <3>4, <4>1
      <4>2. CASE i # n
        <5>1. i \in 0..(n - 1)
          BY <2>2, <4>2
        <5>2. /\ Len(f[i]) <= Len(s) /\ \A x \in 1..Len(f[i]) : s[x] = f[i][x]
              /\ f[i] \in Seq(S)
          <6>1. i \notin bad /\ i \in 0..Len(ids)
            BY <1>0, <2>1, <2>2, <5>1
          <6> QED
            BY <3>1, <5>1, <6>1
        <5>3. Len(f[i]) \in Nat /\ Len(s) \in Nat /\ Len(f[n]) \in Nat
          BY <3>2, <3>4, <5>2
        <5>4. Len(f[i]) <= Len(f[n]) /\ 1..Len(f[i]) \subseteq 1..Len(s)
          BY <3>4, <5>2, <5>3
        <5> QED
          BY <3>4, <5>2, <5>4
      <4> QED
        BY <4>1, <4>2
    <3>8. Good(n)
      BY <3>4, <3>6, <3>7
    <3> QED
      BY <2>2, <3>8
  <2> QED
    BY <2>3, <2>4
<1>2. \A j \in 0..Len(ids) : Good(j)
  BY <1>1
<1> QED
  BY <1>2

\* What was missing is put in its places, and the rest left in its own.
LEMMA AllPlaced ==
  ASSUME NEW S, NEW ids \in Seq(S), NEW had
  PROVE  LET missing == Picked(ids, ToSet(ids) \ had)[Len(ids)] IN
         Placed(ids, missing, missing) = ids
<1> DEFINE set == ToSet(ids) \ had
           f == Picked(ids, set)
           missing == f[Len(ids)]
<1>0. Len(ids) \in Nat /\ DOMAIN ids = 1..Len(ids)
  OBVIOUS
<1>1. PickedBy(f, ids, set, Len(ids))
  BY PickedIs
<1>2. ASSUME NEW i \in DOMAIN ids, ids[i] \in set
      PROVE  /\ f[i] \in Seq(S) /\ Len(f[i]) \in 1..Len(missing)
             /\ missing[Len(f[i])] = ids[i]
  <2>1. i \in 0..Len(ids) /\ i - 1 \in 0..Len(ids) /\ i # 0
    BY <1>0
  <2> HIDE DEF f, set
  <2>2. f[i] = Append(f[i - 1], ids[i])
    BY <1>0, <1>1, <1>2, <2>1, PickedAt
  <2>3. f[i] \in Seq(S) /\ f[i - 1] \in Seq(S) /\ f[Len(ids)] \in Seq(S)
    BY <1>0, <1>1, <2>1, PickedGrows
  <2>4. Len(f[i]) = Len(f[i - 1]) + 1 /\ f[i][Len(f[i])] = ids[i] /\ Len(f[i - 1]) \in Nat
    BY <2>2, <2>3
  <2>5. /\ Len(f[i]) <= Len(f[Len(ids)])
        /\ \A x \in 1..Len(f[i]) : f[Len(ids)][x] = f[i][x]
    BY <1>0, <1>1, <2>1, PickedGrows
  <2> QED
    BY <2>3, <2>4, <2>5
<1>3. ToSet(missing) = set
  <2>1. \A x \in DOMAIN missing : missing[x] \in set
    <3> HIDE DEF f, set
    <3> QED
      BY <1>0, <1>1, PickedGrows
  <2>2. \A x \in set : \E i \in DOMAIN ids : ids[i] = x
    BY DEF ToSet
  <2>3. missing \in Seq(S)
    <3> HIDE DEF f, set
    <3> QED
      BY <1>0, <1>1, PickedGrows
  <2> HIDE DEF missing, set, f
  <2>4. \A x \in set : \E y \in DOMAIN missing : missing[y] = x
    BY <1>2, <2>2, <2>3
  <2> QED
    BY <2>1, <2>4 DEF ToSet
<1>4. ASSUME NEW i \in DOMAIN ids
      PROVE  Placed(ids, missing, missing)[i] = ids[i]
  <2> HIDE DEF missing
  <2>1. Placed(ids, missing, missing)[i] =
          IF ids[i] \in set THEN missing[Len(f[i])] ELSE ids[i]
    BY <1>3 DEF Placed
  <2> HIDE DEF set, f
  <2> QED
    BY <1>2, <2>1
<1>5. Placed(ids, missing, missing) = [i \in DOMAIN ids |-> Placed(ids, missing, missing)[i]]
  BY DEF Placed
<1>6. ids = [i \in DOMAIN ids |-> ids[i]]
  OBVIOUS
<1> HIDE DEF missing
<1>7. Placed(ids, missing, missing) = ids
  BY <1>4, <1>5, <1>6
<1> QED
  BY <1>7 DEF missing

-----------------------------------------------------------------------------
(* The pages of a list.                                                    *)

\* A page ends where the next begins.
LEMMA Products ==
  ASSUME NEW s \in Nat \ {0}, NEW a \in Nat, NEW b \in Nat, a < b
  PROVE  s * a + s <= s * b
<1>1. PICK d \in Nat : b = (a + 1) + d
  <2>1. b - (a + 1) \in Nat /\ b = (a + 1) + (b - (a + 1))
    OBVIOUS
  <2> QED
    BY <2>1
<1>2. s * b = s * (a + 1) + s * d
  BY <1>1
<1>3. s * (a + 1) = s * a + s
  OBVIOUS
<1>4. s * d \in Nat /\ s * a \in Nat
  OBVIOUS
<1> QED
  BY <1>2, <1>3, <1>4

LEMMA Quotients ==
  ASSUME NEW a \in Nat, NEW b \in Nat, NEW s \in Nat \ {0}, a <= b
  PROVE  a \div s \in Nat /\ b \div s \in Nat /\ a \div s <= b \div s
<1> DEFINE p == a \div s
           q == b \div s
<1>1. p \in Nat /\ q \in Nat
  OBVIOUS
<1>2. s * p <= a /\ b < s * q + s
  OBVIOUS
<1> HIDE DEF p, q
<1>3. ASSUME q < p PROVE FALSE
  <2>1. s * q + s <= s * p
    BY <1>1, <1>3, Products
  <2>2. s * q \in Nat /\ s * p \in Nat
    BY <1>1
  <2> QED
    BY <1>2, <2>1, <2>2
<1>4. p <= q
  BY <1>1, <1>3
<1> QED
  BY <1>1, <1>4 DEF p, q

\* A longer list has no fewer pages.
LEMMA LastPageGrows ==
  ASSUME NEW a \in Nat, NEW b \in Nat, NEW s \in Nat \ {0}, a <= b
  PROVE  GetLastPage(a, s) \in Nat /\ GetLastPage(b, s) \in Nat /\ GetLastPage(a, s) <= GetLastPage(b, s)
<1>0. ASSUME NEW n \in Nat \ {0} PROVE (n + s - 1) \div s - 1 \in Nat
  <2>1. s \div s = 1
    OBVIOUS
  <2>2. s <= n + s - 1 /\ n + s - 1 \in Nat
    OBVIOUS
  <2> DEFINE q == (n + s - 1) \div s
  <2>3. q \in Nat /\ 1 <= q
    BY <2>1, <2>2, Quotients
  <2> QED
    BY <2>3
<1>1. GetLastPage(a, s) \in Nat /\ GetLastPage(b, s) \in Nat
  BY <1>0 DEF GetLastPage
<1>2. CASE a = 0
  BY <1>1, <1>2 DEF GetLastPage
<1>3. CASE a # 0
  <2>1. b # 0
    BY <1>3
  <2> DEFINE p == (a + s - 1) \div s
             q == (b + s - 1) \div s
  <2>2. a + s - 1 \in Nat /\ b + s - 1 \in Nat /\ a + s - 1 <= b + s - 1
    OBVIOUS
  <2>3. p \in Nat /\ q \in Nat /\ p <= q
    BY <2>2, Quotients
  <2>4. GetLastPage(a, s) = p - 1 /\ GetLastPage(b, s) = q - 1
    BY <1>3, <2>1 DEF GetLastPage
  <2> HIDE DEF p, q
  <2> QED
    BY <1>1, <2>3, <2>4
<1> QED
  BY <1>2, <1>3

\* The rows r are those of the page: all of it, or up to its end.
Shows(r, c, p, size, n) ==
  /\ IsPage(r, c, p, size)
  /\ Len(r) < size => p * size + Len(r) >= n

\* The getters return a stretch of the list, short only at its end.
LEMMA Stretch ==
  ASSUME PagingTypeOK, NEW c \in Categories, NEW o \in Nat, NEW l \in Nat
  PROVE  LET r == Paginated(c, o, l) IN
         /\ r \in Seq(Items) /\ Len(r) <= l
         /\ \A i \in 1..Len(r) : r[i] = <<c, o + i>>
         /\ Len(r) < l => o + Len(r) >= length[c]
<1> DEFINE n == length[c]
           end == IF o + l > n THEN n ELSE o + l
           m == end - o
           r == Paginated(c, o, l)
<1>1. n \in Nat /\ n <= MaxLength[c] /\ MaxLength[c] \in Nat
  BY PagingAssumption DEF PagingTypeOK
<1>2. CASE o >= n
  <2>1. r = <<>>
    BY <1>2 DEF Paginated
  <2> HIDE DEF r, n
  <2>2. <<>> \in Seq(Items) /\ Len(<<>>) = 0
    OBVIOUS
  <2>3. r \in Seq(Items)
    BY <2>1, <2>2
  <2>4. Len(r) = 0
    BY <2>1, <2>2
  <2> QED
    BY <1>1, <1>2, <2>3, <2>4 DEF r, n
<1>3. CASE o < n
  <2> HIDE DEF n
  <2>1. m \in Nat /\ m <= l /\ o + m <= n /\ (m < l => o + m = n)
    BY <1>1, <1>3
  <2>2. r = [i \in 1..m |-> <<c, o + i>>]
    BY <1>1, <1>3 DEF Paginated, n
  <2> HIDE DEF m
  <2>3. \A i \in 1..m : <<c, o + i>> \in Items
    <3> SUFFICES ASSUME NEW i \in 1..m PROVE <<c, o + i>> \in Items
      OBVIOUS
    <3>1. o + i \in 1..MaxLength[c]
      BY <1>1, <2>1
    <3> QED
      BY <3>1 DEF Items
  <2> HIDE DEF r
  <2>4. r \in [1..m -> Items] /\ \A i \in 1..m : r[i] = <<c, o + i>>
    BY <2>2, <2>3
  <2>5. m \in Nat
    BY <2>1
  <2>6. r \in Seq(Items) /\ Len(r) = m
    BY <2>4, <2>5
  <2> QED
    BY <1>1, <2>1, <2>4, <2>6 DEF r, n
<1> QED
  BY <1>1, <1>2, <1>3

\* What the getters return for a page is that page.
LEMMA PageRead ==
  ASSUME PagingTypeOK, NEW c \in Categories, NEW p \in Nat, NEW size \in Nat \ {0}
  PROVE  Shows(Paginated(c, p * size, size), c, p, size, known[c])
<1> DEFINE offset == p * size
           r == Paginated(c, offset, size)
           full == PageOf(c, p, size)
<1>1. offset \in Nat /\ length[c] \in Nat /\ known[c] \in Nat /\ known[c] <= length[c]
  BY DEF PagingTypeOK
<1>2. full = [i \in 1..size |-> <<c, offset + i>>]
  BY DEF PageOf
<1> HIDE DEF offset
<1>3. /\ r \in Seq(Items) /\ Len(r) <= size /\ Len(r) \in Nat
      /\ \A i \in 1..Len(r) : r[i] = <<c, offset + i>>
      /\ Len(r) < size => offset + Len(r) >= length[c]
  BY <1>1, Stretch
<1> HIDE DEF full, r
<1>4. full \in Seq({c} \X Nat) /\ Len(full) = size /\ \A i \in 1..size : full[i] = <<c, offset + i>>
  <2>1. \A i \in 1..size : <<c, offset + i>> \in {c} \X Nat
    BY <1>1
  <2> QED
    BY <1>2, <2>1
<1>5. SubSeq(r, 1, Len(r)) = SubSeq(full, 1, Len(r))
  <2>1. SubSeq(r, 1, Len(r)) = [i \in 1..Len(r) |-> r[i]]
    BY <1>3
  <2>2. SubSeq(full, 1, Len(r)) = [i \in 1..Len(r) |-> full[i]]
    BY <1>3, <1>4
  <2>3. ASSUME NEW i \in 1..Len(r) PROVE r[i] = full[i]
    <3>1. i \in 1..size
      BY <1>3
    <3> QED
      BY <1>3, <1>4, <3>1
  <2> QED
    BY <2>1, <2>2, <2>3
<1>6. Len(r) < size => offset + Len(r) >= known[c]
  BY <1>1, <1>3
<1> QED
  BY <1>3, <1>4, <1>5, <1>6 DEF Shows, IsPage, IsPrefix, full, r, offset

-----------------------------------------------------------------------------
(* The table: which reads there are, and what the newest load is of.        *)

By == {"fetchPayable", "withdraw"}
IdsLoads == [step : {"ids"}, cat : Categories, page : Nat, count : RowOptions]
BulkLoads == [step : {"bulk"}, ids : Seq(Items), missing : Seq(Items)]
Askings == [step : {"asked"}, by : By]
Countings == [step : {"counts"}, by : By, counts : [Categories -> Nat]]

\* One page of one tab, of a page number the list has.
APage(r) ==
  \E c \in Categories, size \in RowOptions :
    \E p \in 0..GetLastPage(length[c], size) : IsPage(r, c, p, size)

Sound(l) ==
  /\ l \in {NoRead} \cup IdsLoads \cup BulkLoads \cup Askings \cup Countings
  /\ l.step = "bulk" => Placed(l.ids, l.missing, l.missing) = l.ids /\ APage(l.ids)
  /\ l.step = "counts" => \A c \in Categories : l.counts[c] \in 0..length[c]

ReadsOK == DOMAIN reads = Reads /\ \A k \in Reads : Sound(reads[k])

ThisPage(r) == Shows(r, cat, page, rowsPerPage, known[cat])

PageIsThere == page <= GetLastPage(length[cat], rowsPerPage)

IsOfThisPage(l) ==
  /\ l.step = "ids" => l.cat = cat /\ l.count = rowsPerPage /\ l.page = page
  /\ l.step = "bulk" => ThisPage(l.ids)

RowsAreThisPage ==
  upToDate /\ rows \notin {Failed, <<>>} => ThisPage(rows)

RowsAreAPage == rows # Failed => APage(rows)

PagingInv ==
  /\ PagingTypeOK
  /\ ReadsOK /\ reads = [k \in Reads |-> reads[k]]
  /\ RowsAreAPage
  /\ ~astray => PageIsThere /\ IsOfThisPage(reads[newest]) /\ RowsAreThisPage

LEMMA OptionsAreSizes == \A size \in RowOptions : size \in Nat \ {0}
BY PagingAssumption

LEMMA TablesTyped ==
  ASSUME PagingTypeOK
  PROVE  /\ rowsPerPage \in RowOptions /\ rowsPerPage \in Nat \ {0}
         /\ page \in Nat /\ cat \in Categories /\ newest \in Reads
         /\ length \in [Categories -> Nat]
         /\ \A c \in Categories : known[c] \in Nat /\ known[c] <= length[c]
BY OptionsAreSizes DEF PagingTypeOK

\* An empty answer is the start of a first page.
LEMMA NothingIsAPage == ASSUME PagingTypeOK PROVE APage(<<>>)
<1>1. /\ cat \in Categories /\ rowsPerPage \in RowOptions /\ rowsPerPage \in Nat \ {0}
      /\ length[cat] \in Nat
  BY TablesTyped
<1>2. 0 \in 0..GetLastPage(length[cat], rowsPerPage)
  <2>1. GetLastPage(length[cat], rowsPerPage) \in Nat
    BY <1>1, LastPageGrows
  <2> QED
    BY <2>1
<1> DEFINE full == PageOf(cat, 0, rowsPerPage)
           none == <<>>
<1>3. none \in Seq({cat} \X Nat) /\ Len(none) = 0
  OBVIOUS
<1>4. full \in Seq({cat} \X Nat) /\ Len(full) = rowsPerPage
  <2>1. \A i \in 1..rowsPerPage : <<cat, 0 * rowsPerPage + i>> \in {cat} \X Nat
    BY <1>1
  <2> QED
    BY <1>1, <2>1 DEF PageOf
<1> HIDE DEF full, none
<1>5. SubSeq(none, 1, Len(none)) = SubSeq(full, 1, Len(none)) /\ Len(none) <= Len(full)
  BY <1>1, <1>3, <1>4
<1>6. IsPage(none, cat, 0, rowsPerPage)
  BY <1>1, <1>3, <1>5 DEF IsPage, IsPrefix, full
<1> QED
  BY <1>1, <1>2, <1>6 DEF APage, none

\* A page that starts inside a list is one the list has.
LEMMA LastPageReaches ==
  ASSUME NEW n \in Nat, NEW p \in Nat, NEW s \in Nat \ {0}, p * s < n
  PROVE  p <= GetLastPage(n, s)
<1> DEFINE q == (n + s - 1) \div s
<1>1. p * s \in Nat /\ n # 0
  OBVIOUS
<1>2. q \in Nat /\ n + s - 1 < s * q + s
  OBVIOUS
<1>3. GetLastPage(n, s) = q - 1
  BY <1>1 DEF GetLastPage
<1> HIDE DEF q
<1>4. ASSUME q <= p PROVE FALSE
  <2>1. s * q <= s * p
    <3>1. CASE q < p
      <4>1. s * q + s <= s * p /\ s * q \in Nat /\ s * p \in Nat
        BY <1>2, <3>1, Products
      <4> QED
        BY <4>1
    <3>2. CASE q = p
      BY <3>2
    <3> QED
      BY <1>2, <1>4, <3>1, <3>2
  <2>2. s * p = p * s /\ s * q \in Nat
    BY <1>2
  <2> QED
    BY <1>1, <1>2, <2>1, <2>2
<1>5. p <= q - 1
  BY <1>2, <1>4
<1> QED
  BY <1>3, <1>5

\* Whatever the getters return for a page of any number is one page of one tab.
LEMMA AnyPageRead ==
  ASSUME PagingTypeOK, NEW c \in Categories, NEW p \in Nat, NEW size \in RowOptions
  PROVE  APage(Paginated(c, p * size, size))
<1> DEFINE r == Paginated(c, p * size, size)
           n == length[c]
<1>1. size \in Nat \ {0} /\ n \in Nat /\ p * size \in Nat
  BY OptionsAreSizes, TablesTyped
<1>2. CASE p * size >= n
  <2>1. r = <<>>
    BY <1>2 DEF Paginated
  <2> QED
    BY <2>1, NothingIsAPage
<1>3. CASE p * size < n
  <2>1. p <= GetLastPage(n, size) /\ GetLastPage(n, size) \in Nat
    BY <1>1, <1>3, LastPageReaches, LastPageGrows
  <2>2. p \in 0..GetLastPage(n, size)
    BY <2>1
  <2>3. IsPage(r, c, p, size)
    BY <1>1, PageRead DEF Shows
  <2>4. \E q \in 0..GetLastPage(length[c], size) : IsPage(r, c, q, size)
    <3> HIDE DEF r
    <3> QED
      BY <2>2, <2>3
  <2>5. APage(r)
    <3> HIDE DEF r
    <3> QED
      BY <2>4 DEF APage
  <2> QED
    BY <2>5
<1> QED
  BY <1>1, <1>2, <1>3

\* Pages stay as the lists grow.
LEMMA PagesStay ==
  ASSUME \A c \in Categories : length[c] \in Nat /\ length'[c] \in Nat /\ length[c] <= length'[c],
         NEW r, APage(r)
  PROVE  APage(r)'
<1>1. PICK c \in Categories, size \in RowOptions :
        \E p \in 0..GetLastPage(length[c], size) : IsPage(r, c, p, size)
  BY DEF APage
<1>2. PICK p \in 0..GetLastPage(length[c], size) : IsPage(r, c, p, size)
  BY <1>1
<1>3. GetLastPage(length[c], size) \in Nat /\ GetLastPage(length'[c], size) \in Nat
      /\ GetLastPage(length[c], size) <= GetLastPage(length'[c], size)
  BY OptionsAreSizes, LastPageGrows
<1>4. p \in 0..GetLastPage(length'[c], size)
  BY <1>3
<1> QED
  BY <1>2, <1>4 DEF APage

\* What the bulk call is asked for, put in its places, gives the ids of the page.
LEMMA MissingTyped ==
  ASSUME NEW ids \in Seq(Items)
  PROVE  MissingOf(ids) \in Seq(Items) /\ Placed(ids, MissingOf(ids), MissingOf(ids)) = ids
<1> DEFINE set == ToSet(ids) \ cache
           f == Picked(ids, set)
<1>1. MissingOf(ids) = f[Len(ids)] /\ Len(ids) \in 0..Len(ids)
  BY DEF MissingOf
<1>2. f[Len(ids)] \in Seq(Items)
  <2> HIDE DEF set
  <2>1. PickedBy(f, ids, set, Len(ids))
    BY PickedIs
  <2> HIDE DEF f
  <2> QED
    BY <1>1, <2>1, PickedGrows
<1>3. Placed(ids, f[Len(ids)], f[Len(ids)]) = ids
  BY AllPlaced
<1> QED
  BY <1>1, <1>2, <1>3

\* The saved page, cut to the last of the counts, is a page of the list.
LEMMA PageExists ==
  ASSUME PagingTypeOK, NEW c \in Categories
  PROVE  SavedOrLast(c) \in Nat /\ SavedOrLast(c) <= GetLastPage(length[c], rowsPerPage)
<1>1. /\ known[c] \in Nat /\ length[c] \in Nat /\ known[c] <= length[c]
      /\ rowsPerPage \in Nat \ {0} /\ savedPage \in Nat
  BY TablesTyped DEF PagingTypeOK
<1> DEFINE last == GetLastPage(known[c], rowsPerPage)
           end == GetLastPage(length[c], rowsPerPage)
<1>2. last \in Nat /\ end \in Nat /\ last <= end
  BY <1>1, LastPageGrows
<1>3. SavedOrLast(c) = IF savedPage > last THEN last ELSE savedPage
  BY DEF SavedOrLast
<1> HIDE DEF last, end
<1> QED
  BY <1>1, <1>2, <1>3 DEF end

LEMMA IdsLoadTyped ==
  ASSUME NEW c \in Categories, NEW p \in Nat, NEW size \in RowOptions
  PROVE  /\ IdsLoad(c, p, size) \in IdsLoads /\ IdsLoad(c, p, size).step = "ids"
         /\ IdsLoad(c, p, size).cat = c /\ IdsLoad(c, p, size).count = size
         /\ IdsLoad(c, p, size).page = p
BY DEF IdsLoad, IdsLoads

LEMMA IdsLoadSound ==
  ASSUME NEW c \in Categories, NEW p \in Nat, NEW size \in RowOptions
  PROVE  Sound(IdsLoad(c, p, size))
BY IdsLoadTyped DEF Sound

LEMMA NoReadSound == Sound(NoRead) /\ NoRead.step = "none"
BY DEF Sound, NoRead

LEMMA PagingStarts == PagingInit => PagingInv
<1> SUFFICES ASSUME PagingInit PROVE PagingInv
  OBVIOUS
<1>1. PagingTypeOK
  <2>1. length \in [Categories -> Nat]
    <3>1. UNION {0..MaxLength[c] : c \in Categories} \subseteq Nat
      OBVIOUS
    <3> QED
      BY <3>1 DEF PagingInit
  <2>2. \A c \in Categories : known[c] \in 0..length[c] /\ length[c] <= MaxLength[c]
    BY <2>1 DEF PagingInit
  <2>3. cat \in Categories /\ rowsPerPage \in Nat \ {0} /\ savedPage \in Nat
    BY OptionsAreSizes DEF PagingInit
  <2>4. page \in Nat
    <3>1. known[cat] \in Nat /\ page = SavedOrLast(cat)
      BY <2>1, <2>2, <2>3 DEF PagingInit
    <3>2. GetLastPage(known[cat], rowsPerPage) \in Nat
      BY <2>3, <3>1, LastPageGrows
    <3> QED
      BY <2>3, <3>1, <3>2 DEF SavedOrLast
  <2> QED
    BY <2>1, <2>2, <2>3, <2>4 DEF PagingInit, PagingTypeOK
<1>2. PageIsThere
  BY <1>1, PageExists DEF PagingInit, PageIsThere
<1>3. rowsPerPage \in RowOptions /\ page \in Nat /\ cat \in Categories
  BY <1>1, TablesTyped
<1> DEFINE first == IdsLoad(cat, page, rowsPerPage)
<1>4. /\ first.step = "ids" /\ first.cat = cat
      /\ first.count = rowsPerPage /\ first.page = page
  BY <1>3, IdsLoadTyped
<1>5. Sound(first)
  BY <1>3, IdsLoadSound
<1>6. /\ newest \in Reads /\ upToDate = FALSE /\ rows = Failed
      /\ reads = [k \in Reads |-> IF k = newest THEN first ELSE NoRead]
  BY DEF PagingInit
<1> HIDE DEF first
<1>7. ReadsOK /\ reads = [k \in Reads |-> reads[k]]
  BY <1>5, <1>6, NoReadSound DEF ReadsOK
<1>8. IsOfThisPage(reads[newest])
  BY <1>4, <1>6 DEF IsOfThisPage
<1>9. RowsAreThisPage /\ RowsAreAPage
  BY <1>6 DEF RowsAreThisPage, RowsAreAPage
<1> QED
  BY <1>1, <1>2, <1>7, <1>8, <1>9 DEF PagingInv

-----------------------------------------------------------------------------
(* What the actions are made of.                                           *)

LEMMA SoundStays == ASSUME length' = length, NEW l PROVE Sound(l)' <=> Sound(l)
BY DEF Sound, APage

LEMMA ThisPageStays ==
  ASSUME UNCHANGED <<cat, page, rowsPerPage, known>>, NEW l
  PROVE  /\ ThisPage(l)' <=> ThisPage(l)
         /\ IsOfThisPage(l)' <=> IsOfThisPage(l)
BY DEF ThisPage, IsOfThisPage

\* One read takes another step.
LEMMA ReadsStay ==
  ASSUME PagingInv, length' = length, NEW k \in Reads, NEW l, Sound(l),
         reads' = [reads EXCEPT ![k] = l]
  PROVE  ReadsOK' /\ reads' = [i \in Reads |-> reads'[i]] /\ reads'[k] = l
         /\ \A i \in Reads \ {k} : reads'[i] = reads[i]
<1>1. /\ DOMAIN reads' = Reads /\ reads' = [i \in Reads |-> reads'[i]] /\ reads'[k] = l
      /\ \A i \in Reads \ {k} : reads'[i] = reads[i]
  BY DEF PagingInv
<1>2. ASSUME NEW i \in Reads PROVE Sound(reads'[i])
  BY <1>1 DEF PagingInv, ReadsOK
<1>3. ASSUME NEW i \in Reads PROVE Sound(reads[i])'
  <2> DEFINE s == reads'[i]
  <2>1. Sound(s)
    BY <1>2
  <2> HIDE DEF s
  <2>2. length' = length => \A x : Sound(x)' <=> Sound(x)
    BY SoundStays
  <2> QED
    BY <1>2 DEF Sound, APage
<1> QED
  BY <1>1, <1>3 DEF ReadsOK

\* A load begins, of the page the table is then on.
LEMMA GetKeeps ==
  ASSUME PagingInv, PagingTypeOK', length' = length,
         NEW k \in Reads, NEW c \in Categories, NEW p \in Nat, NEW size \in RowOptions,
         GetTransactions(k, c, p, size),
         cat' = c, page' = p, rowsPerPage' = size,
         ~astray' => p <= GetLastPage(length[c], size)
  PROVE  PagingInv'
<1> DEFINE first == IdsLoad(c, p, size)
<1>1. /\ first.step = "ids" /\ first.cat = c
      /\ first.count = size /\ first.page = p
  BY IdsLoadTyped
<1>2. Sound(first)
  BY IdsLoadSound
<1>3. /\ reads' = [reads EXCEPT ![k] = first] /\ newest' = k
      /\ upToDate' = FALSE /\ rows' = rows
  BY DEF GetTransactions
<1> HIDE DEF first
<1>4. ReadsOK' /\ reads' = [i \in Reads |-> reads'[i]] /\ reads'[k] = first
  BY <1>2, <1>3, ReadsStay
<1>5. IsOfThisPage(reads[newest])'
  BY <1>1, <1>3, <1>4 DEF IsOfThisPage
<1>6. RowsAreThisPage'
  BY <1>3 DEF RowsAreThisPage
<1>7. RowsAreAPage'
  BY <1>3 DEF PagingInv, RowsAreAPage, APage
<1>8. ~astray' => PageIsThere'
  BY DEF PageIsThere
<1> QED
  BY <1>4, <1>5, <1>6, <1>7, <1>8 DEF PagingInv

\* A fetch takes a step of its own.
LEMMA FetchKeeps ==
  ASSUME PagingInv, PagingTypeOK', UNCHANGED <<length, tableVars, shownVars>>,
         ~astray' => ~astray /\ known' = known,
         NEW k \in Reads, reads[k].step \notin {"ids", "bulk"},
         NEW l, Sound(l), l.step \notin {"ids", "bulk"},
         reads' = [reads EXCEPT ![k] = l]
  PROVE  PagingInv'
<1>1. /\ ReadsOK' /\ reads' = [i \in Reads |-> reads'[i]] /\ reads'[k] = l
      /\ \A i \in Reads \ {k} : reads'[i] = reads[i]
  BY ReadsStay
<1>2. /\ rows' = rows /\ newest' = newest /\ upToDate' = upToDate
      /\ cat' = cat /\ page' = page /\ rowsPerPage' = rowsPerPage
      /\ newest \in Reads
  BY TablesTyped DEF tableVars, shownVars, PagingInv
<1>3. RowsAreAPage'
  BY <1>2 DEF PagingInv, RowsAreAPage, APage
<1>4. ASSUME ~astray' PROVE PageIsThere' /\ IsOfThisPage(reads[newest])' /\ RowsAreThisPage'
  <2>1. ~astray /\ known' = known
    BY <1>4
  <2>2. PageIsThere /\ IsOfThisPage(reads[newest]) /\ RowsAreThisPage
    BY <2>1 DEF PagingInv
  <2>3. IsOfThisPage(reads[newest])'
    <3>1. CASE newest = k
      BY <1>1, <1>2, <3>1 DEF IsOfThisPage
    <3>2. CASE newest # k
      <4>1. reads'[newest'] = reads[newest]
        BY <1>1, <1>2, <3>2
      <4> QED
        BY <1>2, <2>1, <2>2, <4>1 DEF IsOfThisPage, ThisPage
    <3> QED
      BY <3>1, <3>2
  <2> QED
    BY <1>2, <2>1, <2>2, <2>3 DEF PageIsThere, RowsAreThisPage, ThisPage
<1> QED
  BY <1>1, <1>3, <1>4 DEF PagingInv

\* A load ends, with the rows of the page if it is the newest.
LEMMA ShowKeeps ==
  ASSUME PagingInv, PagingTypeOK', UNCHANGED <<length, known, tableVars, astray>>,
         NEW k \in Reads, NEW result,
         Show(k, result),
         result # Failed => APage(result),
         ~astray /\ k = newest /\ result \notin {Failed, <<>>} => ThisPage(result)
  PROVE  PagingInv'
<1>1. /\ rows' = result /\ newest' = newest /\ upToDate' = (k = newest)
      /\ reads' = [reads EXCEPT ![k] = NoRead]
  BY DEF Show
<1>2. /\ ReadsOK' /\ reads' = [i \in Reads |-> reads'[i]] /\ reads'[k] = NoRead
      /\ \A i \in Reads \ {k} : reads'[i] = reads[i]
  BY <1>1, NoReadSound, ReadsStay
<1>3. /\ cat' = cat /\ page' = page /\ rowsPerPage' = rowsPerPage /\ known' = known
      /\ length' = length /\ astray' = astray /\ newest \in Reads
  BY TablesTyped DEF tableVars, PagingInv
<1>4. RowsAreAPage'
  BY <1>1, <1>3 DEF RowsAreAPage, APage
<1>5. ASSUME ~astray PROVE PageIsThere' /\ IsOfThisPage(reads[newest])' /\ RowsAreThisPage'
  <2>1. PageIsThere /\ IsOfThisPage(reads[newest])
    BY <1>5 DEF PagingInv
  <2>2. IsOfThisPage(reads[newest])'
    <3>1. CASE newest = k
      BY <1>1, <1>2, <3>1, NoReadSound DEF IsOfThisPage
    <3>2. CASE newest # k
      <4>1. reads'[newest'] = reads[newest]
        BY <1>1, <1>2, <1>3, <3>2
      <4> QED
        BY <1>3, <2>1, <4>1 DEF IsOfThisPage, ThisPage
    <3> QED
      BY <3>1, <3>2
  <2>3. RowsAreThisPage'
    BY <1>1, <1>3, <1>5 DEF RowsAreThisPage, ThisPage
  <2> QED
    BY <1>3, <2>1, <2>2, <2>3 DEF PageIsThere
<1> QED
  BY <1>2, <1>3, <1>4, <1>5 DEF PagingInv

-----------------------------------------------------------------------------
(* The steps.                                                              *)

LEMMA GrowKeeps == ASSUME PagingInv, NEW c \in Categories, Grow(c) PROVE PagingInv'
<1>1. PagingTypeOK
  BY DEF PagingInv
<1>2. /\ length' = [length EXCEPT ![c] = length[c] + 1] /\ length[c] < MaxLength[c]
      /\ known' = known /\ length \in [Categories -> Nat]
      /\ UNCHANGED <<isLoading, tableVars, reads, cache, shownVars, astray>>
  BY <1>1 DEF Grow, PagingTypeOK
<1>3. ASSUME NEW x \in Categories
      PROVE  /\ known'[x] \in 0..length'[x] /\ length'[x] <= MaxLength[x]
             /\ length[x] \in Nat /\ length'[x] \in Nat /\ length[x] <= length'[x]
  <2>1. known[x] \in 0..length[x] /\ length[x] <= MaxLength[x] /\ length[x] \in Nat /\ MaxLength[x] \in Nat
    BY <1>1, <1>2, PagingAssumption DEF PagingTypeOK
  <2>2. length'[x] = length[x] \/ (length'[x] = length[x] + 1 /\ length[x] < MaxLength[x])
    BY <1>2
  <2> QED
    BY <1>2, <2>1, <2>2
<1>4. PagingTypeOK'
  BY <1>1, <1>2, <1>3 DEF PagingTypeOK, tableVars, shownVars
<1>5. \A r : APage(r) => APage(r)'
  BY <1>3, PagesStay
<1>6. ReadsOK'
  <2>1. ASSUME NEW k \in Reads PROVE Sound(reads[k])'
    <3>1. Sound(reads[k]) /\ reads'[k] = reads[k]
      BY <1>2 DEF PagingInv, ReadsOK
    <3>2. reads[k].step = "counts" => \A x \in Categories : reads[k].counts[x] \in 0..length'[x]
      <4> SUFFICES ASSUME reads[k].step = "counts", NEW x \in Categories
                   PROVE  reads[k].counts[x] \in 0..length'[x]
        OBVIOUS
      <4> DEFINE n == reads[k].counts[x]
      <4>1. n \in 0..length[x]
        BY <3>1 DEF Sound
      <4> HIDE DEF n
      <4>2. n \in 0..length'[x]
        BY <1>3, <4>1
      <4> QED
        BY <4>2 DEF n
    <3>3. reads[k].step = "bulk" => APage(reads[k].ids)'
      <4> SUFFICES ASSUME reads[k].step = "bulk" PROVE APage(reads[k].ids)'
        OBVIOUS
      <4> DEFINE r == reads[k].ids
      <4>1. APage(r) /\ r' = r
        BY <3>1 DEF Sound
      <4> HIDE DEF r
      <4>2. PICK x \in Categories, size \in RowOptions :
              \E p \in 0..GetLastPage(length'[x], size) : IsPage(r, x, p, size)
        BY <1>5, <4>1 DEF APage
      <4>3. APage(r)'
        BY <4>1, <4>2 DEF APage
      <4> QED
        BY <4>3 DEF r
    <3> QED
      BY <3>1, <3>2, <3>3 DEF Sound
  <2> QED
    BY <1>2, <2>1 DEF PagingInv, ReadsOK
<1>7. RowsAreAPage'
  <2> SUFFICES ASSUME rows # Failed PROVE APage(rows)'
    BY <1>2 DEF RowsAreAPage, shownVars
  <2>1. APage(rows) /\ rows' = rows
    BY <1>2 DEF PagingInv, RowsAreAPage, shownVars
  <2> QED
    BY <1>5, <2>1 DEF APage
<1>8. ASSUME ~astray PROVE PageIsThere' /\ IsOfThisPage(reads[newest])' /\ RowsAreThisPage'
  <2>1. PageIsThere /\ IsOfThisPage(reads[newest]) /\ RowsAreThisPage
    BY <1>8 DEF PagingInv
  <2>2. PageIsThere'
    <3> DEFINE a == GetLastPage(length[cat], rowsPerPage)
               b == GetLastPage(length'[cat], rowsPerPage)
    <3>1. a \in Nat /\ b \in Nat /\ a <= b /\ page \in Nat
      BY <1>1, <1>3, TablesTyped, LastPageGrows
    <3>2. page <= a
      BY <2>1 DEF PageIsThere
    <3> HIDE DEF a, b
    <3>3. page <= b
      BY <3>1, <3>2
    <3> QED
      BY <1>2, <3>3 DEF PageIsThere, tableVars, b
  <2> QED
    BY <1>2, <2>1, <2>2 DEF IsOfThisPage, RowsAreThisPage, ThisPage, tableVars, shownVars
<1> QED
  BY <1>2, <1>4, <1>6, <1>7, <1>8 DEF PagingInv, shownVars

LEMMA UpdateKeeps ==
  ASSUME PagingInv, NEW size \in RowOptions, NEW p \in 0..GetLastPage(known[cat], size),
         UpdateTablePage(p, size)
  PROVE  PagingInv'
<1>1. /\ PagingTypeOK /\ size \in Nat \ {0} /\ cat \in Categories
      /\ known[cat] \in Nat /\ length[cat] \in Nat /\ known[cat] <= length[cat]
  BY OptionsAreSizes, TablesTyped DEF PagingInv
<1> DEFINE a == GetLastPage(known[cat], size)
           b == GetLastPage(length[cat], size)
<1>2. a \in Nat /\ b \in Nat /\ a <= b
  BY <1>1, LastPageGrows
<1> HIDE DEF a, b
<1>3. p \in Nat /\ p <= b
  BY <1>2 DEF a
<1>4. PICK k \in Free : GetTransactions(k, cat, p, size)
  BY DEF UpdateTablePage
<1>5. PagingTypeOK'
  BY <1>1, <1>3, <1>4 DEF UpdateTablePage, GetTransactions, PagingTypeOK, Free
<1> QED
  BY <1>1, <1>3, <1>4, <1>5, GetKeeps DEF UpdateTablePage, Free, b

LEMMA RetryKeeps == ASSUME PagingInv, Retry PROVE PagingInv'
<1>1. /\ PagingTypeOK /\ rowsPerPage \in RowOptions /\ cat \in Categories /\ page \in Nat
  BY TablesTyped DEF PagingInv
<1>2. PICK k \in Free : GetTransactions(k, cat, page, rowsPerPage)
  BY DEF Retry
<1>3. PagingTypeOK'
  BY <1>1, <1>2 DEF Retry, GetTransactions, PagingTypeOK, tableVars, Free
<1>4. ~astray' => page <= GetLastPage(length[cat], rowsPerPage)
  BY DEF Retry, PagingInv, PageIsThere
<1> QED
  BY <1>1, <1>2, <1>3, <1>4, GetKeeps DEF Retry, tableVars, Free

LEMMA ShowCategoryKeeps ==
  ASSUME PagingInv, NEW c \in Categories, ShowCategory(c)
  PROVE  PagingInv'
<1>1. PagingTypeOK /\ rowsPerPage \in RowOptions
  BY TablesTyped DEF PagingInv
<1>2. SavedOrLast(c) \in Nat /\ SavedOrLast(c) <= GetLastPage(length[c], rowsPerPage)
  BY <1>1, PageExists
<1>3. PICK k \in Free : GetTransactions(k, c, SavedOrLast(c), rowsPerPage)
  BY DEF ShowCategory
<1>4. PagingTypeOK'
  BY <1>1, <1>2, <1>3 DEF ShowCategory, GetTransactions, PagingTypeOK, Free
<1> QED
  BY <1>1, <1>2, <1>3, <1>4, GetKeeps DEF ShowCategory, Free

LEMMA EarlyKeeps ==
  ASSUME PagingInv, NEW c \in Categories, ShowCategoryEarly(c)
  PROVE  PagingInv'
<1>1. /\ UNCHANGED <<length, known, isLoading, page, savedPage, rowsPerPage, reads, cache, shownVars>>
      /\ cat' = c /\ astray' = TRUE
  BY DEF ShowCategoryEarly
<1>2. PagingTypeOK'
  BY <1>1 DEF PagingInv, PagingTypeOK, shownVars
<1>3. ReadsOK' /\ RowsAreAPage'
  BY <1>1 DEF PagingInv, ReadsOK, RowsAreAPage, Sound, APage, shownVars
<1> QED
  BY <1>1, <1>2, <1>3 DEF PagingInv

LEMMA AskKeeps == ASSUME PagingInv, Focus \/ Refresh \/ Withdrawn PROVE PagingInv'
<1>1. PICK by \in By : Ask(by)
  BY DEF Focus, Refresh, Withdrawn, By
<1> DEFINE l == [step |-> "asked", by |-> by]
<1>2. PICK k \in Free : reads' = [reads EXCEPT ![k] = l]
  BY <1>1 DEF Ask
<1>3. Sound(l) /\ l.step \notin {"ids", "bulk"}
  BY DEF Sound, Askings
<1>4. k \in Reads /\ reads[k].step \notin {"ids", "bulk"}
  BY NoReadSound DEF Free
<1>5. UNCHANGED <<length, known, tableVars, cache, shownVars, astray>>
  BY <1>1 DEF Ask
<1>6. isLoading' \in BOOLEAN
  BY DEF Focus, Refresh, Withdrawn, PagingInv, PagingTypeOK
<1>7. PagingTypeOK'
  BY <1>5, <1>6 DEF PagingInv, PagingTypeOK, tableVars, shownVars
<1> HIDE DEF l
<1> QED
  BY <1>2, <1>3, <1>4, <1>5, <1>7, FetchKeeps

LEMMA ReadIs ==
  ASSUME PagingInv, NEW k \in Reads
  PROVE  /\ Sound(reads[k])
         /\ reads[k].step = "ids" => reads[k] \in IdsLoads
         /\ reads[k].step = "bulk" => reads[k] \in BulkLoads
         /\ reads[k].step = "asked" => reads[k] \in Askings
         /\ reads[k].step = "counts" => reads[k] \in Countings
<1>1. Sound(reads[k])
  BY DEF PagingInv, ReadsOK
<1>2. /\ NoRead.step = "none" /\ (\A l \in IdsLoads : l.step = "ids")
      /\ (\A l \in BulkLoads : l.step = "bulk") /\ (\A l \in Askings : l.step = "asked")
      /\ (\A l \in Countings : l.step = "counts")
  BY DEF NoRead, IdsLoads, BulkLoads, Askings, Countings
<1> DEFINE l == reads[k]
<1>3. l \in {NoRead} \cup IdsLoads \cup BulkLoads \cup Askings \cup Countings
  BY <1>1 DEF Sound
<1> HIDE DEF l
<1>4. /\ l.step = "ids" => l \in IdsLoads
      /\ l.step = "bulk" => l \in BulkLoads
      /\ l.step = "asked" => l \in Askings
      /\ l.step = "counts" => l \in Countings
  BY <1>2, <1>3
<1> QED
  BY <1>1, <1>4 DEF l

LEMMA CountsKeep == ASSUME PagingInv, NEW k \in Reads, CountsRead(k) PROVE PagingInv'
<1> DEFINE by == reads[k].by
           l == [step |-> "counts", by |-> by, counts |-> length]
<1>1. PagingTypeOK /\ reads[k].step = "asked" /\ by \in By /\ length \in [Categories -> Nat]
  BY ReadIs, TablesTyped DEF CountsRead, PagingInv, Askings
<1>2. /\ reads' = [reads EXCEPT ![k] = l]
      /\ UNCHANGED <<length, known, isLoading, tableVars, cache, shownVars, astray>>
  BY DEF CountsRead
<1> HIDE DEF by
<1>3. l \in Countings /\ l.step = "counts" /\ l.counts = length
  BY <1>1 DEF Countings
<1> HIDE DEF l
<1>4. Sound(l)
  BY <1>1, <1>3 DEF Sound
<1>5. PagingTypeOK'
  BY <1>1, <1>2 DEF PagingTypeOK, tableVars, shownVars
<1> QED
  BY <1>1, <1>2, <1>3, <1>4, <1>5, FetchKeeps

LEMMA FetchedKeeps == ASSUME PagingInv, NEW k \in Reads, Fetched(k) PROVE PagingInv'
<1>1. /\ PagingTypeOK /\ rowsPerPage \in RowOptions /\ cat \in Categories /\ page \in Nat
      /\ reads[k].step = "counts"
  BY TablesTyped DEF PagingInv, Fetched
<1>2. /\ \A c \in Categories : known'[c] \in 0..length[c]
      /\ length' = length /\ UNCHANGED tableVars
  BY <1>1, ReadIs DEF Fetched, Sound
<1>3. isLoading' \in BOOLEAN
  BY DEF Fetched
<1>4. \A c \in Categories : known'[c] \in 0..length'[c] /\ length'[c] <= MaxLength[c]
  BY <1>1, <1>2 DEF PagingTypeOK
<1>5. CASE mounted /\ GetTransactions(k, cat, page, rowsPerPage) /\ UNCHANGED astray
  <2>1. PagingTypeOK'
    BY <1>1, <1>2, <1>3, <1>4, <1>5 DEF GetTransactions, PagingTypeOK, tableVars
  <2>2. ~astray' => page <= GetLastPage(length[cat], rowsPerPage)
    BY <1>5 DEF PagingInv, PageIsThere
  <2> QED
    BY <1>1, <1>2, <1>5, <2>1, <2>2, GetKeeps DEF tableVars
<1>6. CASE /\ ~mounted /\ astray' = TRUE
           /\ reads' = [reads EXCEPT ![k] = NoRead]
           /\ UNCHANGED <<cache, shownVars>>
  <2>1. PagingTypeOK'
    BY <1>1, <1>2, <1>3, <1>4, <1>6 DEF PagingTypeOK, tableVars, shownVars
  <2>2. reads[k].step \notin {"ids", "bulk"} /\ NoRead.step \notin {"ids", "bulk"}
    BY <1>1, NoReadSound
  <2> QED
    BY <1>2, <1>6, <2>1, <2>2, NoReadSound, FetchKeeps
<1> QED
  BY <1>5, <1>6 DEF Fetched

LEMMA FetchFailedKeeps == ASSUME PagingInv, NEW k \in Reads, FetchFailed(k) PROVE PagingInv'
<1>1. /\ reads[k].step \notin {"ids", "bulk"} /\ NoRead.step \notin {"ids", "bulk"}
      /\ reads' = [reads EXCEPT ![k] = NoRead] /\ isLoading' = FALSE
      /\ UNCHANGED <<length, known, tableVars, cache, shownVars, astray>>
  BY NoReadSound DEF FetchFailed, Fetching
<1>2. PagingTypeOK'
  BY <1>1 DEF PagingInv, PagingTypeOK, tableVars, shownVars
<1> QED
  BY <1>1, <1>2, NoReadSound, FetchKeeps

LEMMA IdsReadKeeps == ASSUME PagingInv, NEW k \in Reads, IdsRead(k) PROVE PagingInv'
<1> DEFINE c == reads[k].cat
           p == reads[k].page
           n == reads[k].count
           ids == Paginated(c, p * n, n)
           bulk == [step |-> "bulk", ids |-> ids, missing |-> MissingOf(ids)]
<1>1. /\ PagingTypeOK /\ reads[k].step = "ids" /\ c \in Categories /\ p \in Nat
      /\ n \in RowOptions /\ n \in Nat \ {0} /\ newest \in Reads
  BY ReadIs, OptionsAreSizes, TablesTyped DEF IdsRead, PagingInv, IdsLoads
<1>2. UNCHANGED <<length, known, isLoading, tableVars, cache, astray>>
  BY DEF IdsRead
<1>3. CASE MissingOf(ids) = <<>>
  <2>1. Show(k, ids)
    BY <1>3 DEF IdsRead
  <2>2. APage(ids)
    BY <1>1, AnyPageRead
  <2>3. ~astray /\ k = newest => ThisPage(ids)
    <3> SUFFICES ASSUME ~astray, k = newest PROVE ThisPage(ids)
      OBVIOUS
    <3>1. c = cat /\ p = page /\ n = rowsPerPage
      BY <1>1 DEF PagingInv, IsOfThisPage
    <3> QED
      BY <1>1, <3>1, PageRead DEF ThisPage
  <2>4. PagingTypeOK'
    BY <1>1, <1>2, <2>1 DEF PagingTypeOK, Show, tableVars
  <2> HIDE DEF ids
  <2> QED
    BY <1>2, <2>1, <2>2, <2>3, <2>4, ShowKeeps
<1>4. CASE MissingOf(ids) # <<>>
  <2>1. reads' = [reads EXCEPT ![k] = bulk] /\ UNCHANGED shownVars
    BY <1>4 DEF IdsRead
  <2>2. APage(ids)
    BY <1>1, AnyPageRead
  <2>3. ~astray /\ k = newest => ThisPage(ids)
    <3> SUFFICES ASSUME ~astray, k = newest PROVE ThisPage(ids)
      OBVIOUS
    <3>1. c = cat /\ p = page /\ n = rowsPerPage
      BY <1>1 DEF PagingInv, IsOfThisPage
    <3> QED
      BY <1>1, <3>1, PageRead DEF ThisPage
  <2>4. ids \in Seq(Items)
    <3>1. p * n \in Nat /\ n \in Nat
      BY <1>1
    <3> QED
      BY <1>1, <3>1, Stretch
  <2> DEFINE missing == MissingOf(ids)
  <2>5. missing \in Seq(Items) /\ Placed(ids, missing, missing) = ids
    BY <2>4, MissingTyped
  <2> HIDE DEF ids, missing
  <2>6. bulk \in BulkLoads /\ bulk.step = "bulk" /\ bulk.ids = ids /\ bulk.missing = missing
    BY <2>4, <2>5 DEF BulkLoads, missing
  <2>7. Placed(bulk.ids, bulk.missing, bulk.missing) = bulk.ids
    BY <2>5, <2>6
  <2> HIDE DEF bulk
  <2>8. Sound(bulk)
    BY <2>2, <2>6, <2>7 DEF Sound
  <2>9. /\ ReadsOK' /\ reads' = [i \in Reads |-> reads'[i]] /\ reads'[k] = bulk
        /\ \A i \in Reads \ {k} : reads'[i] = reads[i]
    BY <1>2, <2>1, <2>8, ReadsStay
  <2>10. PagingTypeOK'
    BY <1>1, <1>2, <2>1 DEF PagingTypeOK, shownVars, tableVars
  <2>11. /\ cat' = cat /\ page' = page /\ rowsPerPage' = rowsPerPage /\ known' = known
         /\ length' = length /\ astray' = astray
         /\ rows' = rows /\ newest' = newest /\ upToDate' = upToDate
    BY <1>2, <2>1 DEF tableVars, shownVars
  <2>12. RowsAreAPage'
    BY <2>11 DEF PagingInv, RowsAreAPage, APage
  <2>13. ASSUME ~astray PROVE PageIsThere' /\ IsOfThisPage(reads[newest])' /\ RowsAreThisPage'
    <3>1. PageIsThere /\ IsOfThisPage(reads[newest]) /\ RowsAreThisPage
      BY <2>13 DEF PagingInv
    <3>2. IsOfThisPage(reads[newest])'
      <4>1. CASE newest = k
        <5>1. reads'[newest'] = bulk /\ ThisPage(ids)
          BY <2>3, <2>9, <2>11, <2>13, <4>1
        <5> QED
          BY <2>6, <2>11, <5>1 DEF IsOfThisPage, ThisPage
      <4>2. CASE newest # k
        <5>1. reads'[newest'] = reads[newest]
          BY <1>1, <2>9, <2>11, <4>2
        <5> QED
          BY <2>11, <3>1, <5>1 DEF IsOfThisPage, ThisPage
      <4> QED
        BY <4>1, <4>2
    <3> QED
      BY <2>11, <3>1, <3>2 DEF PageIsThere, RowsAreThisPage, ThisPage
  <2> QED
    BY <2>9, <2>10, <2>11, <2>12, <2>13 DEF PagingInv
<1> QED
  BY <1>3, <1>4

LEMMA BulkReadKeeps == ASSUME PagingInv, NEW k \in Reads, BulkRead(k) PROVE PagingInv'
<1> DEFINE ids == reads[k].ids
<1>1. /\ PagingTypeOK /\ reads[k].step = "bulk" /\ reads[k] \in BulkLoads
      /\ Sound(reads[k])
  BY ReadIs DEF BulkRead, PagingInv
<1>2. Placed(reads[k].ids, reads[k].missing, reads[k].missing) = ids /\ APage(ids)
  BY <1>1 DEF Sound
<1>3. /\ Show(k, ids) /\ cache' = cache \cup ToSet(ids)
      /\ UNCHANGED <<length, known, isLoading, tableVars, astray>>
  BY <1>2 DEF BulkRead
<1>4. ids \in Seq(Items)
  BY <1>1 DEF BulkLoads
<1>5. ~astray /\ k = newest => ThisPage(ids)
  BY <1>1 DEF PagingInv, IsOfThisPage
<1> HIDE DEF ids
<1>6. ToSet(ids) \subseteq Items
  BY <1>4 DEF ToSet
<1>7. PagingTypeOK'
  BY <1>1, <1>3, <1>6 DEF PagingTypeOK, Show, tableVars
<1> QED
  BY <1>2, <1>3, <1>5, <1>7, ShowKeeps

LEMMA LoadFailsKeeps == ASSUME PagingInv, NEW k \in Reads, LoadFails(k) PROVE PagingInv'
<1>1. /\ Show(k, <<>>) \/ Show(k, Failed)
      /\ UNCHANGED <<length, known, isLoading, tableVars, cache, astray>>
  BY DEF LoadFails
<1>2. PagingTypeOK'
  BY <1>1 DEF PagingInv, PagingTypeOK, Show, tableVars
<1>3. APage(<<>>)
  BY NothingIsAPage DEF PagingInv
<1> QED
  BY <1>1, <1>2, <1>3, ShowKeeps

LEMMA StutterKeeps == ASSUME PagingInv, UNCHANGED pagingVars PROVE PagingInv'
<1>1. UNCHANGED <<length, known, isLoading, cat, page, savedPage, rowsPerPage, reads, cache,
                  isLoadingActivities, mounted, rows, newest, upToDate, astray>>
  BY DEF pagingVars, tableVars, shownVars
<1> QED
  BY <1>1 DEF PagingInv, PagingTypeOK, ReadsOK, Sound, APage, RowsAreAPage, PageIsThere,
              IsOfThisPage, RowsAreThisPage, ThisPage

LEMMA PagingSteps == PagingInv /\ [PagingNext]_pagingVars => PagingInv'
<1> SUFFICES ASSUME PagingInv, [PagingNext]_pagingVars PROVE PagingInv'
  OBVIOUS
<1>1. CASE \E k \in Reads : \/ CountsRead(k) \/ Fetched(k) \/ FetchFailed(k)
                            \/ IdsRead(k) \/ BulkRead(k) \/ LoadFails(k)
  BY <1>1, CountsKeep, FetchedKeeps, FetchFailedKeeps, IdsReadKeeps, BulkReadKeeps, LoadFailsKeeps
<1>2. CASE \/ \E c \in Categories : Grow(c) \/ ShowCategory(c) \/ ShowCategoryEarly(c)
           \/ \E size \in RowOptions : \E p \in 0..GetLastPage(known[cat], size) : UpdateTablePage(p, size)
           \/ Retry \/ Focus \/ Refresh \/ Withdrawn
  BY <1>2, GrowKeeps, ShowCategoryKeeps, EarlyKeeps, UpdateKeeps, RetryKeeps, AskKeeps
<1>3. CASE UNCHANGED pagingVars
  BY <1>3, StutterKeeps
<1> QED
  BY <1>1, <1>2, <1>3 DEF PagingNext

LEMMA PagingInvariant == PagingSpec => []PagingInv
BY PagingStarts, PagingSteps, PTL DEF PagingSpec

\* Clicks, fetches and loads in any order leave the table on a page number, with
\* receipts of the lists in the cache and counts no greater than the lists.
THEOREM PagingTypeCorrect == PagingSpec => []PagingTypeOK
<1>1. PagingInv => PagingTypeOK
  BY DEF PagingInv
<1> QED
  BY <1>1, PagingInvariant, PTL

\* Whichever load ends last, the rows are one page of one tab, whole and in
\* order; and unless tab or counts changed before the page watched them, the
\* page exists on the chain, however old the counts a late fetch set, and once
\* the load that began last has ended, its rows are those of the page: however
\* many loads and fetches overlap, whatever the cache had of them and however
\* far the lists have grown meanwhile (fetchPayable, getTransactions and
\* resetTablePage of PayableDetailView.vue, payment.ts, withdrawal.ts).
THEOREM RowsAlwaysMatch == PagingSpec => []RowsMatchTheList
<1>1. PagingInv => RowsMatchTheList
  BY DEF PagingInv, RowsAreThisPage, RowsAreAPage, APage, PageIsThere, ThisPage, Shows,
         RowsMatchTheList
<1> QED
  BY <1>1, PagingInvariant, PTL

-----------------------------------------------------------------------------
(* The four together.  Each sees only its own steps, so all that is proved *)
(* of a part holds in the whole that is run.                               *)

\* A behaviour of the whole is a behaviour of each part.
THEOREM EachPartAlone ==
  WebSpec => DocsSpec /\ NoticesSpec /\ CheckoutSpec /\ PagingSpec
<1>1. WebInit => DocsInit /\ NoticesInit /\ CheckoutInit /\ PagingInit
  BY DEF WebInit
<1>2. [WebNext]_webVars => [DocsNext]_docsVars
  BY DEF WebNext, webVars
<1>3. [WebNext]_webVars => [NoticesNext]_noticesVars
  BY DEF WebNext, webVars
<1>4. [WebNext]_webVars => [CheckoutNext]_checkoutVars
  BY DEF WebNext, webVars
<1>5. [WebNext]_webVars => [PagingNext]_pagingVars
  BY DEF WebNext, webVars
<1> QED
  BY <1>1, <1>2, <1>3, <1>4, <1>5, PTL
     DEF WebSpec, DocsSpec, NoticesSpec, CheckoutSpec, PagingSpec

\* Whatever is done in whatever order, documents, notices, clicks and table
\* are well formed.
THEOREM WebTypeCorrect == WebSpec => []TypeOK
<1>1. DocsTypeOK /\ NoticesTypeOK /\ CheckoutTypeOK /\ PagingTypeOK => TypeOK
  BY DEF TypeOK
<1> QED
  BY <1>1, EachPartAlone, DocumentsTypeCorrect, NoticesTypeCorrect, CheckoutTypeCorrect,
     PagingTypeCorrect, PTL
=============================================================================
