------------------------------- MODULE Paging -------------------------------
(***************************************************************************)
(* The table of a payable's activities: two lists on the chain that grow,  *)
(* payments and withdrawals, read page by page.  A load asks the getters   *)
(* for the ids of a page, takes what it can from the browser's cache and   *)
(* the rest in one call, and then replaces the rows.  The payable, with    *)
(* the counts, is fetched when the window gets the focus, by a button and  *)
(* after a withdrawal.  Nothing cancels a load or a fetch, any number      *)
(* overlap, and the last to finish is the one shown: the counts can go     *)
(* back, the rows can be those of an earlier click.                        *)
(*                                                                         *)
(* The page of a user's activities works alike, with currentUser in place  *)
(* of the payable.                                                         *)
(***************************************************************************)
EXTENDS Integers, Sequences, SequencesExt

CONSTANTS
  Categories,       \* payments and withdrawals
  RowOptions,       \* rowsPerPageOptions
  Reads,            \* bound: loads and fetches at a time
  MaxLength         \* bound: length of each list

ASSUME PagingAssumption ==
  /\ RowOptions \subseteq Nat \ {0}
  /\ MaxLength \in [Categories -> Nat \ {0}]

VARIABLES
  length,           \* the lists on the chain
  known,            \* payable.value: the counts the page has read
  cat,              \* activeCat
  page,             \* currentTablePage
  savedPage,        \* localStorage: the page last clicked
  rowsPerPage,
  cache,            \* the receipts in the browser's database
  reads,            \* getTransactions and payableStore.get in progress
  isLoading,        \* the whole page is hidden behind a loader
  isLoadingActivities,
  mounted,          \* onMounted is through: focus and watches are there
  rows,             \* transactions: the receipts shown, or Failed
  newest,           \* history: the read that is the load begun last, or was
  upToDate,         \* history: the rows are that load's
  astray            \* history: tab or counts changed and no watch saw it

tableVars == <<cat, page, savedPage, rowsPerPage>>
shownVars == <<isLoadingActivities, mounted, rows, newest, upToDate>>
pagingVars == <<length, known, isLoading, tableVars, reads, cache, shownVars, astray>>

Items == UNION {{c} \X (1..MaxLength[c]) : c \in Categories}
Failed == << <<"null", 0>> >>

NoRead == [step |-> "none"]
Free == {k \in Reads : reads[k] = NoRead}
IdsLoad(c, p, size) == [step |-> "ids", cat |-> c, page |-> p, count |-> size]

\* Math.ceil(total / rows) - 1, and 0 for an empty list.
GetLastPage(total, size) == IF total = 0 THEN 0 ELSE (total + size - 1) \div size - 1

\* The getters' pagination: from offset, up to limit items of the list.
Paginated(c, offset, limit) ==
  LET end == IF offset + limit > length[c] THEN length[c] ELSE offset + limit
  IN  IF offset >= length[c] THEN <<>> ELSE [i \in 1..(end - offset) |-> <<c, offset + i>>]

\* resetTablePage: the saved page, if the list has one; all tabs share it.
SavedOrLast(c) ==
  LET last == GetLastPage(known[c], rowsPerPage)
  IN  IF savedPage > last THEN last ELSE savedPage

(* The payable is there, and onMounted waits for the first load.           *)
PagingInit ==
  /\ length \in [Categories -> UNION {0..MaxLength[c] : c \in Categories}]
  /\ \A c \in Categories : length[c] <= MaxLength[c]
  /\ known = length
  /\ cat \in Categories
  /\ savedPage \in 0..1
  /\ rowsPerPage \in RowOptions
  /\ page = SavedOrLast(cat)
  /\ cache \in SUBSET {i \in Items : i[2] <= length[i[1]]}
  /\ newest \in Reads
  /\ reads = [k \in Reads |-> IF k = newest THEN IdsLoad(cat, page, rowsPerPage) ELSE NoRead]
  /\ isLoading = FALSE
  /\ isLoadingActivities = TRUE
  /\ mounted = FALSE
  /\ rows = Failed
  /\ upToDate = FALSE
  /\ astray = FALSE

-----------------------------------------------------------------------------
(* Somebody pays the payable, or its host withdraws.                       *)
Grow(c) ==
  /\ length[c] < MaxLength[c]
  /\ length' = [length EXCEPT ![c] = @ + 1]
  /\ UNCHANGED <<known, isLoading, tableVars, reads, cache, shownVars, astray>>

\* getTransactions, for a category, a page and a number of rows.
GetTransactions(k, c, p, size) ==
  /\ reads' = [reads EXCEPT ![k] = IdsLoad(c, p, size)]
  /\ newest' = k
  /\ isLoadingActivities' = TRUE
  /\ upToDate' = FALSE
  /\ UNCHANGED <<cache, mounted, rows>>

(* A page of the table's paginator, perhaps with another number of rows.   *)
UpdateTablePage(p, size) ==
  /\ ~isLoading /\ ~isLoadingActivities
  /\ rows \notin {Failed, <<>>}
  /\ rowsPerPage' = size
  /\ page' = p
  /\ savedPage' = p
  /\ astray' = FALSE
  /\ \E k \in Free : GetTransactions(k, cat, p, size)
  /\ UNCHANGED <<length, known, isLoading, cat>>

(* The button under "Something went wrong".                                *)
Retry ==
  /\ ~isLoading /\ ~isLoadingActivities
  /\ rows = Failed
  /\ \E k \in Free : GetTransactions(k, cat, page, rowsPerPage)
  /\ UNCHANGED <<length, known, isLoading, tableVars, astray>>

(* Another tab; and a user who signs in or out is treated as if it were.   *)
ShowCategory(c) ==
  /\ mounted
  /\ isLoading => c = cat
  /\ cat' = c
  /\ page' = SavedOrLast(c)
  /\ astray' = FALSE
  /\ \E k \in Free : GetTransactions(k, c, SavedOrLast(c), rowsPerPage)
  /\ UNCHANGED <<length, known, isLoading, savedPage, rowsPerPage>>

(* A tab before the watch on it: neither page nor rows follow.             *)
ShowCategoryEarly(c) ==
  /\ ~mounted /\ ~isLoading
  /\ c # cat
  /\ cat' = c
  /\ astray' = TRUE
  /\ UNCHANGED <<length, known, isLoading, page, savedPage, rowsPerPage, reads, cache, shownVars>>

-----------------------------------------------------------------------------
(* The payable is asked for: by fetchPayable, or after a withdrawal.       *)
Ask(by) ==
  /\ \E k \in Free : reads' = [reads EXCEPT ![k] = [step |-> "asked", by |-> by]]
  /\ UNCHANGED <<length, known, tableVars, cache, shownVars, astray>>

Focus == mounted /\ isLoading' = FALSE /\ Ask("fetchPayable")
Refresh == ~isLoading /\ isLoading' = TRUE /\ Ask("fetchPayable")

Fetching(k, by) == reads[k].step \in {"asked", "counts"} /\ reads[k].by = by

\* One withdrawal at a time.
Withdrawn ==
  /\ \A k \in Reads : ~Fetching(k, "withdraw")
  /\ Ask("withdraw")
  /\ UNCHANGED isLoading

(* The first of the three reads that make up the payable has the counts.   *)
CountsRead(k) ==
  /\ reads[k].step = "asked"
  /\ reads' = [reads EXCEPT ![k] = [step |-> "counts", by |-> reads[k].by, counts |-> length]]
  /\ UNCHANGED <<length, known, isLoading, tableVars, cache, shownVars, astray>>

(* The payable is set, with counts perhaps older than those it had.  The   *)
(* watch on it loads the page again, whatever page the counts now have.    *)
Fetched(k) ==
  /\ reads[k].step = "counts"
  /\ known' = reads[k].counts
  /\ isLoading' = (isLoading /\ Fetching(k, "withdraw"))
  /\ \/ mounted /\ GetTransactions(k, cat, page, rowsPerPage) /\ UNCHANGED astray
     \/ /\ ~mounted
        /\ astray' = TRUE
        /\ reads' = [reads EXCEPT ![k] = NoRead]
        /\ UNCHANGED <<cache, shownVars>>
  /\ UNCHANGED <<length, tableVars>>

(* After a withdrawal the browser reloads instead: another behaviour.      *)
FetchFailed(k) ==
  /\ Fetching(k, "fetchPayable")
  /\ isLoading' = FALSE
  /\ reads' = [reads EXCEPT ![k] = NoRead]
  /\ UNCHANGED <<length, known, tableVars, cache, shownVars, astray>>

-----------------------------------------------------------------------------
\* A load ends: its result is shown, whatever was asked for in the meantime.
Show(k, result) ==
  /\ rows' = result
  /\ isLoadingActivities' = FALSE
  /\ mounted' = TRUE
  /\ reads' = [reads EXCEPT ![k] = NoRead]
  /\ upToDate' = (k = newest)
  /\ UNCHANGED newest

\* Picked(ids, set)[i]: which of the first i ids are in the set, in order.
Picked(ids, set) ==
  LET picked[i \in 0..Len(ids)] ==
        IF i = 0 THEN <<>>
        ELSE IF ids[i] \in set THEN Append(picked[i - 1], ids[i])
        ELSE picked[i - 1]
  IN  picked

MissingOf(ids) == Picked(ids, ToSet(ids) \ cache)[Len(ids)]

(* The ids of the page, and what the cache has of them.                    *)
IdsRead(k) ==
  LET ids == Paginated(reads[k].cat, reads[k].page * reads[k].count, reads[k].count) IN
  /\ reads[k].step = "ids"
  /\ IF MissingOf(ids) = <<>>
       THEN Show(k, ids)
       ELSE /\ reads' = [reads EXCEPT ![k] = [step |-> "bulk", ids |-> ids, missing |-> MissingOf(ids)]]
            /\ UNCHANGED shownVars
  /\ UNCHANGED <<length, known, isLoading, tableVars, cache, astray>>

\* mutant of Placed: what the cache had comes first
CachedFirst(ids, missing, raw) ==
  SelectSeq(ids, LAMBDA id : id \notin ToSet(missing)) \o raw
\* The answer to the bulk call goes to the places of what was missing, in order.
Placed(ids, missing, raw) ==
  [i \in DOMAIN ids |->
     IF ids[i] \in ToSet(missing)
       THEN raw[Len(Picked(ids, ToSet(missing))[i])]
       ELSE ids[i]]

BulkRead(k) ==
  LET result == Placed(reads[k].ids, reads[k].missing, reads[k].missing) IN
  /\ reads[k].step = "bulk"
  /\ cache' = cache \cup ToSet(result)
  /\ Show(k, result)
  /\ UNCHANGED <<length, known, isLoading, tableVars, astray>>

(* No answer: no ids is an empty table, no receipts an error.              *)
LoadFails(k) ==
  /\ \/ reads[k].step = "ids" /\ Show(k, <<>>)
     \/ reads[k].step = "bulk" /\ Show(k, Failed)
  /\ UNCHANGED <<length, known, isLoading, tableVars, cache, astray>>

PagingNext ==
  \/ \E c \in Categories : Grow(c) \/ ShowCategory(c) \/ ShowCategoryEarly(c)
  \/ \E size \in RowOptions : \E p \in 0..GetLastPage(known[cat], size) : UpdateTablePage(p, size)
  \/ Retry \/ Focus \/ Refresh \/ Withdrawn
  \/ \E k \in Reads :
       \/ CountsRead(k) \/ Fetched(k) \/ FetchFailed(k)
       \/ IdsRead(k) \/ BulkRead(k) \/ LoadFails(k)

PagingSpec == PagingInit /\ [][PagingNext]_pagingVars

-----------------------------------------------------------------------------
PagingTypeOK ==
  /\ length \in [Categories -> Nat]
  /\ \A c \in Categories : known[c] \in 0..length[c] /\ length[c] <= MaxLength[c]
  /\ cat \in Categories
  /\ page \in Nat /\ savedPage \in Nat
  /\ rowsPerPage \in RowOptions
  /\ cache \subseteq Items
  /\ newest \in Reads
  /\ {isLoading, isLoadingActivities, mounted, upToDate, astray} \subseteq BOOLEAN

\* The receipts of a full page.
PageOf(c, p, size) == [i \in 1..size |-> <<c, p * size + i>>]

\* The rows r are those of a page, from its first on.
IsPage(r, c, p, size) == Len(r) <= size /\ IsPrefix(r, PageOf(c, p, size))

(* Whichever load is shown, its rows are one page of one tab, in order and *)
(* without a gap.  Unless tab or counts changed before the watches were    *)
(* there, the table is on a page the list has, however old the counts; and *)
(* once the load that began last is the one shown, its rows are that page, *)
(* with none missing that the counts speak of (getTransactions and         *)
(* resetTablePage of PayableDetailView.vue, with the getters' pagination   *)
(* and the fill from cache and bulk call of the stores).                   *)
RowsMatchTheList ==
  /\ rows # Failed =>
       \E c \in Categories, size \in RowOptions :
         \E p \in 0..GetLastPage(length[c], size) : IsPage(rows, c, p, size)
  /\ ~astray => page <= GetLastPage(length[cat], rowsPerPage)
  /\ ~astray /\ upToDate /\ rows \notin {Failed, <<>>} =>
       /\ IsPage(rows, cat, page, rowsPerPage)
       /\ Len(rows) < rowsPerPage => page * rowsPerPage + Len(rows) >= known[cat]
=============================================================================
