---------------------------- MODULE KeysetPages ----------------------------
(***************************************************************************)
(* The lists of the API, read page by page while their tables change.  A    *)
(* page is the first rows strictly after the last row of the page before it; *)
(* the cursor carries only that row's id, and its sort key is looked up when *)
(* the next page is read.  One reader walks one list to its end; every       *)
(* request between two pages may add, change or remove rows.                 *)
(***************************************************************************)
EXTENDS Integers, Sequences, SequencesExt, FiniteSets

CONSTANTS
    RowIds,        \* ids of rows, random: their order is not that of creation
    Times,         \* values of created_at and updated_at
    PageLimit,     \* the page size the reader asks for
    MaxRowEdits,   \* bound: changes to the table
    NoCursor

ASSUME KeysetAssumption ==
    /\ RowIds \subseteq Nat /\ IsFiniteSet(RowIds) /\ NoCursor \notin RowIds
    /\ Times \subseteq Nat /\ PageLimit \in Nat \ {0} /\ MaxRowEdits \in Nat

VARIABLES
    list,       \* the list that is read
    table,      \* its rows: created_at, updated_at, whether the filter admits it
    walk,       \* "open" until a page comes without a cursor
    boundary,   \* the row the next cursor names
    given,      \* the rows the reader was given, in order
    rowEdits,   \* changes so far
    steady,     \* history: rows in the list since the walk began, unmoved
    cutShort,   \* history: the row a cursor named was deleted
    rewound     \* history: the row a cursor named moved

keysetVars == <<list, table, walk, boundary, given, rowEdits, steady, cutShort, rewound>>

-----------------------------------------------------------------------------
(* The lists: what orders them and how their rows may change *)

Keyset(by, newest, filtered, removable) ==
    [by |-> by, newest |-> newest, filtered |-> filtered, removable |-> removable]

CollectionsPage == Keyset("made", TRUE, FALSE, TRUE)
SourcesPage == Keyset("made", TRUE, FALSE, TRUE)
DocumentsPage == Keyset("made", TRUE, TRUE, TRUE)
ArtifactsPage == Keyset("made", TRUE, FALSE, TRUE)
ServersPage == Keyset("made", TRUE, FALSE, TRUE)
AssistantsPage == Keyset("made", TRUE, TRUE, TRUE)
GovernedPage == Keyset("made", TRUE, FALSE, TRUE)
RunsPage == Keyset("made", TRUE, TRUE, TRUE)
DeliveriesPage == Keyset("made", TRUE, TRUE, TRUE)
SchedulesPage == Keyset("made", TRUE, TRUE, TRUE)
AuditPage == Keyset("made", TRUE, FALSE, FALSE)
MessagesPage == Keyset("made", FALSE, FALSE, FALSE)
MembersPage == Keyset("made", FALSE, FALSE, FALSE)
VersionsPage == Keyset("version", TRUE, FALSE, FALSE)
SessionsPage == Keyset("touched", TRUE, FALSE, TRUE)
SearchesPage == Keyset("touched", TRUE, FALSE, TRUE)
DocumentIdsPage == Keyset("id", FALSE, FALSE, TRUE)

Shapes ==
    [collections |-> CollectionsPage, sources |-> SourcesPage, documents |-> DocumentsPage,
     artifacts |-> ArtifactsPage, servers |-> ServersPage, assistants |-> AssistantsPage,
     governed |-> GovernedPage, runs |-> RunsPage, deliveries |-> DeliveriesPage,
     schedules |-> SchedulesPage, audit |-> AuditPage, messages |-> MessagesPage,
     members |-> MembersPage, versions |-> VersionsPage, sessions |-> SessionsPage,
     searches |-> SearchesPage, ids |-> DocumentIdsPage]
Lists == DOMAIN Shapes
Shape == Shapes[list]

TableRows == [live : BOOLEAN, made : Times, touched : Times, fits : BOOLEAN]

KeysetTypeOK ==
    /\ list \in Lists /\ table \in [RowIds -> TableRows]
    /\ walk \in {"open", "done"} /\ boundary \in RowIds \cup {NoCursor}
    /\ given \in Seq(RowIds) /\ rowEdits \in 0..MaxRowEdits
    /\ steady \subseteq {i \in RowIds : table[i].live /\ table[i].fits}
    /\ cutShort \in BOOLEAN /\ rewound \in BOOLEAN
    \* the reader holds a cursor exactly while its pages are not at an end
    /\ walk = "done" => boundary = NoCursor
    /\ boundary # NoCursor => boundary = Last(given)

InList == {i \in RowIds : table[i].live /\ table[i].fits}

\* Two versions of an assistant never have the same number.
DistinctKeys == Shape.by = "version" =>
    \A i, j \in RowIds : i # j /\ table[i].live /\ table[j].live => table[i].made # table[j].made

KeysetInit ==
    /\ list \in Lists
    /\ table \in [RowIds -> {r \in TableRows : r.touched = r.made /\ r.fits /\ (r.live \/ r.made = 0)}]
    /\ DistinctKeys
    /\ walk = "open" /\ boundary = NoCursor /\ given = <<>> /\ rowEdits = 0
    /\ steady = InList /\ cutShort = FALSE /\ rewound = FALSE

-----------------------------------------------------------------------------
(* A page *)

Key(i) == CASE Shape.by = "touched" -> table[i].touched
            [] Shape.by = "id" -> i
            [] OTHER -> table[i].made

\* The total order of a list: its key, then the id.
Follows(i, j) ==
    IF Shape.newest THEN Key(i) < Key(j) \/ (Key(i) = Key(j) /\ i < j)
    ELSE Key(i) > Key(j) \/ (Key(i) = Key(j) /\ i > j)

\* The boundary's key comes from a subquery: without the row it is NULL and no row
\* compares with it.  A cursor that is an id is compared itself.
BeyondByKey(i) ==
    \/ boundary = NoCursor
    \/ /\ table[boundary].live
       /\ IF Shape.newest THEN Key(i) < Key(boundary) ELSE Key(i) > Key(boundary)
BeyondInclusive(i) ==
    \/ boundary = NoCursor
    \/ (table[boundary].live /\ (i = boundary \/ Follows(i, boundary)))
Beyond(i) ==
    \/ boundary = NoCursor
    \/ (table[boundary].live \/ Shape.by = "id") /\ Follows(i, boundary)

\* What is left to show, ORDER BY the list's key and the id.
RowsInOrder(S) ==
    CHOOSE s \in [1..Cardinality(S) -> S] :
        ToSet(s) = S /\ \A m, n \in 1..Cardinality(S) : m < n => Follows(s[n], s[m])
Remaining == RowsInOrder({i \in InList : Beyond(i)})

\* limit + 1 rows tell whether there is another page.
HasMore(rows) == Len(rows) > PageLimit

\* list_page: decode the cursor, read, cut to the page size, encode the next cursor.
Fetch(l) ==
    LET page == SubSeq(Remaining, 1, IF HasMore(Remaining) THEN PageLimit ELSE Len(Remaining)) IN
    /\ list = l /\ walk = "open"
    /\ given' = given \o page
    /\ IF HasMore(Remaining)
       THEN boundary' = Last(page) /\ walk' = "open"
       ELSE boundary' = NoCursor /\ walk' = "done"
    /\ UNCHANGED <<list, table, rowEdits, steady, cutShort, rewound>>

ListCollections == Fetch("collections")
ListSources == Fetch("sources")
ListDocuments == Fetch("documents")
ListArtifacts == Fetch("artifacts")
ListServers == Fetch("servers")
ListAssistants == Fetch("assistants")
ListGoverned == Fetch("governed")
ListRuns == Fetch("runs")
ListDeliveries == Fetch("deliveries")
ListSchedules == Fetch("schedules")
QueryAudit == Fetch("audit")
ListMessages == Fetch("messages")
ListMembers == Fetch("members")
ListVersions == Fetch("versions")
ListSessions == Fetch("sessions")
ListSearches == Fetch("searches")

\* reindex_tenant asks until a page is empty.
ReindexTenant ==
    LET page == SubSeq(Remaining, 1, IF HasMore(Remaining) THEN PageLimit ELSE Len(Remaining)) IN
    /\ list = "ids" /\ walk = "open"
    /\ given' = given \o page
    /\ IF page = <<>>
       THEN boundary' = NoCursor /\ walk' = "done"
       ELSE boundary' = Last(page) /\ walk' = "open"
    /\ UNCHANGED <<list, table, rowEdits, steady, cutShort, rewound>>

-----------------------------------------------------------------------------
(* Requests between two pages *)

Edits(i, row) ==
    /\ walk = "open" /\ rowEdits < MaxRowEdits
    /\ rowEdits' = rowEdits + 1
    /\ table' = [table EXCEPT ![i] = row]
    /\ UNCHANGED <<list, walk, boundary, given>>

\* A new row.  Its time is that of its transaction's start, which may be before a row
\* that is already listed.
Create(l, i, t) ==
    /\ list = l /\ ~table[i].live
    /\ \A n \in 1..Len(given) : given[n] # i   \* an id is never used again
    /\ i \notin steady /\ boundary # i
    /\ Shape.by = "version" => \A j \in RowIds : table[j].live => table[j].made < t
    /\ Edits(i, [live |-> TRUE, made |-> t, touched |-> t, fits |-> TRUE])
    /\ UNCHANGED <<steady, cutShort, rewound>>
CreateCollection(i, t) == Create("collections", i, t)
StartSession(i, t) == Create("sessions", i, t)
SaveSearch(i, t) == Create("searches", i, t)
CreateElsewhere(l, i, t) ==
    l \notin {"collections", "sessions", "searches"} /\ Create(l, i, t)

\* A change of a row moves updated_at.
Touched(l, i, t) ==
    /\ list = l /\ table[i].live /\ t >= table[i].touched
    /\ Edits(i, [table[i] EXCEPT !.touched = t])
    /\ steady' = IF Shape.by = "touched" THEN steady \ {i} ELSE steady
    /\ rewound' = (rewound \/ (Shape.by = "touched" /\ i = boundary))
    /\ UNCHANGED cutShort
UpdateCollection(i, t) == Touched("collections", i, t)
RenameSession(i, t) == Touched("sessions", i, t)
TouchSession(i, t) == Touched("sessions", i, t)
UpdateSearch(i, t) == Touched("searches", i, t)

\* A row leaves the filtered set or comes back: a document is processed, an assistant
\* published, a run ends, a delivery is read, a schedule paused.
Refilter(i) ==
    /\ Shape.filtered /\ table[i].live
    /\ Edits(i, [table[i] EXCEPT !.fits = ~table[i].fits])
    /\ steady' = steady \ {i}
    /\ UNCHANGED <<cutShort, rewound>>

Erases(l, i) ==
    /\ list = l /\ Shape.removable /\ table[i].live
    /\ Edits(i, [table[i] EXCEPT !.live = FALSE])
    /\ steady' = steady \ {i}
    /\ cutShort' = (cutShort \/ (i = boundary /\ Shape.by # "id"))
    /\ UNCHANGED rewound
DeleteOwnedCollection(i) == Erases("collections", i)
DeleteChat(i) == Erases("sessions", i)
DeleteSearch(i) == Erases("searches", i)
RemoveElsewhere(l, i) == l \notin {"collections", "sessions", "searches"} /\ Erases(l, i)

KeysetNext ==
    \/ ListCollections \/ ListSources \/ ListDocuments \/ ListArtifacts \/ ListServers
    \/ ListAssistants \/ ListGoverned \/ ListRuns \/ ListDeliveries \/ ListSchedules
    \/ QueryAudit \/ ListMessages \/ ListMembers \/ ListVersions \/ ListSessions \/ ListSearches
    \/ ReindexTenant
    \/ \E i \in RowIds, t \in Times :
          \/ CreateCollection(i, t) \/ StartSession(i, t) \/ SaveSearch(i, t)
          \/ UpdateCollection(i, t) \/ RenameSession(i, t) \/ TouchSession(i, t) \/ UpdateSearch(i, t)
          \/ \E l \in Lists : CreateElsewhere(l, i, t)
    \/ \E i \in RowIds :
          \/ Refilter(i)
          \/ DeleteOwnedCollection(i) \/ DeleteChat(i) \/ DeleteSearch(i)
          \/ \E l \in Lists : RemoveElsewhere(l, i)

KeysetSpec == KeysetInit /\ [][KeysetNext]_keysetVars

-----------------------------------------------------------------------------
(* Properties *)

\* Rows that were in the list from the first page to the last, and kept their place, were
\* all shown, with whatever else was added, removed or re-sorted between the pages --
\* unless the very row a cursor named was deleted: then the list ends early.
NothingSkipped == walk = "done" /\ ~cutShort => \A i \in steady : \E n \in 1..Len(given) : given[n] = i

\* No row that kept its place is shown twice, unless the row a cursor named moved to the
\* front and took the walk back with it.
NoRowTwice ==
    ~rewound => \A i \in steady : Cardinality({n \in 1..Len(given) : given[n] = i}) <= 1

\* A walk through a list shows every steady row exactly once (NothingSkipped,
\* NoRowTwice).
ListIsExact == KeysetTypeOK /\ NothingSkipped /\ NoRowTwice

=============================================================================
