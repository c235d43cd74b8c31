-------------------------------- MODULE Web --------------------------------
(***************************************************************************)
(* The four parts of the web that keep state of their own: the documents   *)
(* of a payable, the notices to its host, the page that pays it and the    *)
(* table of its activities.  They share no state, so a behaviour is one of *)
(* the four; part says of which.                                           *)
(***************************************************************************)
EXTENDS Documents, Notices, Checkout, Paging

VARIABLE part

webVars == <<docsVars, noticesVars, checkoutVars, pagingVars, part>>

WebInit ==
  /\ part \in {"documents", "notices", "checkout", "table"}
  /\ DocsInit /\ NoticesInit /\ CheckoutInit /\ PagingInit

WebNext ==
  \/ /\ part = "documents"
     /\ DocsNext
     /\ UNCHANGED <<noticesVars, checkoutVars, pagingVars, part>>
  \/ /\ part = "notices"
     /\ NoticesNext
     /\ UNCHANGED <<docsVars, checkoutVars, pagingVars, part>>
  \/ /\ part = "checkout"
     /\ CheckoutNext
     /\ UNCHANGED <<docsVars, noticesVars, pagingVars, part>>
  \/ /\ part = "table"
     /\ PagingNext
     /\ UNCHANGED <<docsVars, noticesVars, checkoutVars, part>>

WebSpec == WebInit /\ [][WebNext]_webVars

-----------------------------------------------------------------------------
(* The states of all four are well formed.                                 *)
TypeOK == DocsTypeOK /\ NoticesTypeOK /\ CheckoutTypeOK /\ PagingTypeOK
=============================================================================
