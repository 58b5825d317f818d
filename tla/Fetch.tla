-------------------------------- MODULE Fetch -------------------------------
(***************************************************************************)
(* The paging loops of the client's users: fetchAllPRs of pkg/watcher.go   *)
(* over SearchPRs, and the loop inside ListPRFiles.  Page after page is    *)
(* read from a listing that changes in between: an entry that leaves the   *)
(* listing moves the later ones up, one that enters moves them down.       *)
(***************************************************************************)
EXTENDS SequencesExt

CONSTANTS
    Entries,     \* what can be listed
    PageSize,    \* PerPage
    MaxChanges   \* bound: how often the listing changes during a fetch

VARIABLES
    listing,     \* the listing of the moment
    page,        \* the page to read next; 0 when the loop has ended
    fetched,     \* the entries of the pages so far; the result in the end
    aborted,     \* a page failed, or the context was cancelled
    stayed,      \* history: the entries listed ever since the fetch began
    leaves,      \* history: how often an entry left
    changes      \* how often the listing changed

Parameters == PageSize \in Nat \ {0}

fetchVars == <<listing, page, fetched, aborted, stayed, leaves, changes>>

-----------------------------------------------------------------------------
\* Mutation of FirstPage: GitHub's pages begin with 1.
FirstPageSecond == 2

FirstPage == 1

HasNextPage(n) == n * PageSize < Len(listing)

PageOf(n) ==
    SubSeq(listing, (n - 1) * PageSize + 1,
           IF HasNextPage(n) THEN n * PageSize ELSE Len(listing))

\* One request; the loop ends with the page that has no next one.
ReadPage ==
    /\ page > 0
    /\ fetched' = fetched \cup ToSet(PageOf(page))
    /\ page' = IF HasNextPage(page) THEN page + 1 ELSE 0
    /\ UNCHANGED <<listing, aborted, stayed, leaves, changes>>

\* The pages that were read are thrown away.
Abort ==
    /\ page > 0
    /\ page' = 0
    /\ fetched' = {}
    /\ aborted' = TRUE
    /\ UNCHANGED <<listing, stayed, leaves, changes>>

Change ==
    /\ page > 0
    /\ changes < MaxChanges
    /\ changes' = changes + 1
    /\ UNCHANGED <<page, fetched, aborted>>

Enter ==
    /\ Change
    /\ \E e \in Entries \ ToSet(listing) : \E i \in 1 .. Len(listing) + 1 :
        listing' = InsertAt(listing, i, e)
    /\ UNCHANGED <<stayed, leaves>>

\* Closed, merged, or no longer in the diff.
Leave ==
    /\ Change
    /\ \E i \in 1 .. Len(listing) :
        /\ listing' = RemoveAt(listing, i)
        /\ stayed' = stayed \ {listing[i]}
    /\ leaves' = leaves + 1

\* An entry is updated and takes another place.
Move ==
    /\ Change
    /\ \E i, j \in 1 .. Len(listing) :
        listing' = InsertAt(RemoveAt(listing, i), j, listing[i])
    /\ leaves' = leaves + 1
    /\ UNCHANGED stayed

Init ==
    /\ listing \in UNION {{s \in [1 .. n -> Entries] : IsInjective(s)} :
                              n \in 0 .. Cardinality(Entries)}
    /\ page = FirstPage
    /\ fetched = {}
    /\ aborted = FALSE
    /\ stayed = ToSet(listing)
    /\ leaves = 0
    /\ changes = 0

Next == ReadPage \/ Abort \/ Enter \/ Leave \/ Move

-----------------------------------------------------------------------------
\* A fetch that ends without an error misses at most one entry for each that
\* left its place while the pages were read: none in a listing that only grows,
\* wherever it grows (watcher.go:118-135).  Watcher!SearchMisses is what is left.
MissesBounded ==
    page = 0 /\ ~aborted => Cardinality(stayed \ fetched) <= leaves
=============================================================================
