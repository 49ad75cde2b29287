------------------------ MODULE ConnectorSyncProofs ------------------------
(***************************************************************************)
(* Proofs about ConnectorSync: the mirror is sound for every set of files,   *)
(* any worker slots and any bounds, and a grant is not replaced under a task  *)
(* that may read it.  And about ModelGateway, which shares no state with it: the *)
(* runtime is given the answer and nothing else, for texts of any length,    *)
(* any tags and nesting bound, any tool calls and continuations.             *)
(***************************************************************************)
EXTENDS ConnectorSync, ModelGateway, DataInduction, NaturalsInduction

-----------------------------------------------------------------------------
(* The version of a file in a feed.                                          *)

\* VersionAt, of any feed.
LastChange(f, n, log) == Max({0} \cup {i \in 1..n : f \in log[i].files})

\* A set of naturals with an upper bound has a greatest element.
LEMMA GreatestNatural ==
    ASSUME NEW T \in SUBSET Nat, T # {}, NEW n \in Nat, \A y \in T : y <= n
    PROVE  \E x \in T : \A y \in T : x >= y
<1> DEFINE U == {x \in Nat : \A y \in T : y <= x}
<1>1. n \in U /\ U \in SUBSET Nat
  OBVIOUS
<1>2. PICK x \in U : \A y \in U : ~(<<y, x>> \in OpToRel(<, Nat))
  BY <1>1, NatLessThanWellFounded, WFMin
<1>3. ASSUME NEW y \in U, ~(x <= y) PROVE FALSE
  <2>1. <<y, x>> \in Nat \X Nat /\ y < x
    BY <1>3
  <2>2. <<y, x>>[1] < <<y, x>>[2]
    BY <2>1
  <2> QED BY <1>2, <2>1, <2>2 DEF OpToRel
<1>4. ASSUME x \notin T PROVE FALSE
  <2>1. x \in Nat /\ \A y \in T : y <= x
    OBVIOUS
  <2>2. \A y \in T : y < x
    BY <1>4, <2>1
  <2>3. PICK t \in T : TRUE
    OBVIOUS
  <2>4. x > 0 /\ x - 1 \in Nat /\ \A y \in T : y <= x - 1
    BY <2>1, <2>2, <2>3
  <2>5. x - 1 \in U /\ ~(x <= x - 1)
    BY <2>1, <2>4
  <2> QED BY <1>3, <2>5
<1> QED BY <1>2, <1>4

\* The last change of a file among the first n is the greatest that lists it, or 0.
LEMMA LastChangeIs ==
    ASSUME NEW f, NEW n \in Nat, NEW log
    PROVE  /\ LastChange(f, n, log) \in 0..n
           /\ LastChange(f, n, log) > 0 => f \in log[LastChange(f, n, log)].files
           /\ \A i \in 1..n : f \in log[i].files => LastChange(f, n, log) >= i
<1> DEFINE T == {0} \cup {i \in 1..n : f \in log[i].files}
<1>1. \E x \in T : \A y \in T : x >= y
  <2>1. T \in SUBSET Nat /\ T # {} /\ \A y \in T : y <= n
    OBVIOUS
  <2> QED BY <2>1, GreatestNatural
<1>2. LastChange(f, n, log) \in T /\ \A y \in T : LastChange(f, n, log) >= y
  BY <1>1 DEF LastChange, Max
<1> QED BY <1>2

\* It is the only such number.
LEMMA LastChangeUnique ==
    ASSUME NEW f, NEW n \in Nat, NEW log, NEW k \in 0..n,
           k > 0 => f \in log[k].files,
           \A i \in 1..n : f \in log[i].files => k >= i
    PROVE  LastChange(f, n, log) = k
BY LastChangeIs

\* More changes, later versions.
LEMMA LastChangeGrows ==
    ASSUME NEW f, NEW log, NEW n \in Nat, NEW k \in Nat, n <= k
    PROVE  LastChange(f, n, log) <= LastChange(f, k, log)
<1>1. LastChange(f, n, log) \in 0..n /\ LastChange(f, k, log) \in 0..k
  BY LastChangeIs
<1>2. CASE LastChange(f, n, log) = 0
  BY <1>1, <1>2
<1>3. CASE LastChange(f, n, log) > 0
  BY <1>1, <1>3, LastChangeIs
<1> QED BY <1>1, <1>2, <1>3

\* What the next change does to the versions of a feed and to the trashed files:
\* earlier versions stay, and a file is trashed by a change of its own.
Follow(log, g, log2, g2) ==
    /\ Len(log2) = Len(log) + 1 /\ g \subseteq g2
    /\ \A f \in Files, n \in 0..Len(log) : LastChange(f, n, log2) = LastChange(f, n, log)
    /\ \A i \in 1..Len(log) : log2[i] = log[i]
    /\ \A f \in g : LastChange(f, Len(log2), log2) = LastChange(f, Len(log), log)
    /\ \A f \in g2 \ g : /\ LastChange(f, Len(log2), log2) = Len(log2)
                         /\ ~log2[Len(log2)].folder

\* The next change of the feed is such a change.
LEMMA AppendFollows ==
    ASSUME NEW log \in Seq(ChangeRecords), NEW g \in SUBSET Files, NEW e \in ChangeRecords, NEW g2,
           e.files \cap g = {},
           \/ g2 = g
           \/ \E f \in Files : g2 = g \cup {f} /\ e.files = {f} /\ ~e.folder
    PROVE  Follow(log, g, Append(log, e), g2)
<1> DEFINE log2 == Append(log, e)
<1>1. /\ Len(log) \in Nat /\ Len(log2) \in Nat /\ Len(log2) = Len(log) + 1
      /\ log2 \in Seq(ChangeRecords)
  OBVIOUS
<1>2. \A i \in 1..Len(log) : log2[i] = log[i]
  OBVIOUS
<1>3. log2[Len(log2)] = e
  OBVIOUS
<1> HIDE DEF log2
<1>4. ASSUME NEW f \in Files, NEW n \in 0..Len(log)
      PROVE  LastChange(f, n, log2) = LastChange(f, n, log)
  <2>1. n \in Nat /\ 1..n \subseteq 1..Len(log)
    BY <1>1
  <2>2. LastChange(f, n, log) \in 0..n
    BY <2>1, LastChangeIs
  <2>3. \A i \in 1..n : log2[i] = log[i]
    BY <1>2, <2>1
  <2>4. LastChange(f, n, log) > 0 => f \in log2[LastChange(f, n, log)].files
    BY <2>1, <2>2, <2>3, LastChangeIs
  <2>5. \A i \in 1..n : f \in log2[i].files => LastChange(f, n, log) >= i
    BY <2>1, <2>3, LastChangeIs
  <2> QED BY <2>1, <2>2, <2>4, <2>5, LastChangeUnique
<1>5. ASSUME NEW f \in g
      PROVE  LastChange(f, Len(log2), log2) = LastChange(f, Len(log), log)
  <2>1. f \notin log2[Len(log2)].files /\ f \in Files
    BY <1>3
  <2>2. LastChange(f, Len(log), log) \in 0..Len(log2)
    BY <1>1, LastChangeIs
  <2>3. LastChange(f, Len(log), log) > 0 => f \in log2[LastChange(f, Len(log), log)].files
    BY <1>1, <1>2, LastChangeIs
  <2>4. \A i \in 1..Len(log2) : f \in log2[i].files => LastChange(f, Len(log), log) >= i
    BY <1>1, <1>2, <2>1, LastChangeIs
  <2> DEFINE k == LastChange(f, Len(log), log)
  <2> HIDE DEF k
  <2>5. k \in 0..Len(log2) /\ (k > 0 => f \in log2[k].files)
    BY <2>2, <2>3 DEF k
  <2>6. \A i \in 1..Len(log2) : f \in log2[i].files => k >= i
    BY <2>4 DEF k
  <2>7. LastChange(f, Len(log2), log2) = k
    BY <1>1, <2>5, <2>6, LastChangeUnique
  <2> QED BY <2>7 DEF k
<1>6. ASSUME NEW f \in g2 \ g
      PROVE  LastChange(f, Len(log2), log2) = Len(log2) /\ ~log2[Len(log2)].folder
  <2>1. f \in log2[Len(log2)].files /\ ~e.folder
    BY <1>3
  <2>2. Len(log2) \in 0..Len(log2) /\ \A i \in 1..Len(log2) : Len(log2) >= i
    BY <1>1
  <2> QED BY <1>1, <1>3, <2>1, <2>2, LastChangeUnique
<1> QED BY <1>1, <1>2, <1>4, <1>5, <1>6 DEF Follow, log2

-----------------------------------------------------------------------------
(* The invariant.                                                            *)

\* A page has the body of every file it lists.
BodiesRead(p) == \A f \in p.upserts : p.body[f] \in Bodies

\* No cursor is ahead of the feed, and a page is read from a cursor.
WithinFeed ==
    /\ src.cursor # None => src.cursor <= Log
    /\ \A w \in Workers : /\ run[w].cursor # None => run[w].cursor <= Log
                          /\ run[w].page.next <= Log
                          /\ run[w].pc = "fetch" => run[w].cursor # None
                          /\ BodiesRead(run[w].page)

\* The last change of a trashed file is its own, not its folder's.
TrashedByOwn(log, g) ==
    \A f \in g : /\ LastChange(f, Len(log), log) > 0
                 /\ ~log[LastChange(f, Len(log), log)].folder

\* A deleted source has no documents.
NoneWhenDeleted == ~Exists => \A f \in Files : ~mirror[f].present

\* A row or a page entry of f is of a file that was there at position c.
There(f, v, c, log, g) ==
    /\ v >= LastChange(f, c, log)
    /\ f \in g => LastChange(f, Len(log), log) > c

\* OwnChange, of any feed.
OwnIn(f, c, n, log) == \E i \in c + 1..n : f \in log[i].files /\ ~log[i].folder

\* MirrorFollowsCursor, for any cursor, mirror, skipped files and feed.
Follows(c, m, sk, log, g) ==
    \A f \in Files :
       IF m[f].present
       THEN /\ m[f].fresh => m[f].version >= LastChange(f, c, log)
            /\ f \in g => LastChange(f, Len(log), log) > c
       ELSE f \in g \/ (sk[f] # None /\ ~OwnIn(f, sk[f], c, log))

\* A page read from the cursor c is the feed's from there to its end: every file that
\* changed in between is listed, deleted or marked stale.
PageIsRead(p, c, log, g) ==
    /\ c <= p.next /\ p.deleted \subseteq g
    /\ \A f \in p.upserts : There(f, p.version[f], p.next, log, g)
    /\ p.complete => \A f \in Files \ (p.upserts \cup p.deleted) :
         /\ f \in g => \/ LastChange(f, Len(log), log) <= c
                       \/ LastChange(f, Len(log), log) > p.next
         /\ f \notin p.stale => LastChange(f, p.next, log) <= LastChange(f, c, log)
         /\ ~OwnIn(f, c, p.next, log)

\* What the only task of a source knows of the row (its existence e, cursor c and
\* demand q for a full sync), the mirror, the store and the feed, at each of its steps.
Knows(r, e, c, q, m, o, log, g) ==
    /\ r.pc \in {"token", "fetch"} /\ e => r.cursor = c /\ r.resync = q
    /\ r.pc = "fetch" => r.cursor # None
    /\ r.pc \in {"fetch", "put", "apply", "check", "erase", "ingest"} => ~r.resync
    /\ r.pc \in {"put", "apply"} =>
          /\ r.cursor # None /\ PageIsRead(r.page, r.cursor, log, g)
          /\ e => c = r.cursor /\ ~q
    /\ r.pc = "apply" /\ e => \A f \in r.page.upserts : r.page.body[f] \in o
    /\ r.pc \in {"check", "erase", "ingest"} /\ e /\ r.page.complete => c = r.page.next /\ ~q
    /\ r.pc \in {"erase", "clear"} => \A f \in Files : m[f].present => m[f].body \notin r.keys
    /\ r.pc = "finalize" /\ e /\ r.page.complete => ~q
    /\ r.pc \in {"baseline", "list", "replace", "clear", "load"} /\ e => (c = None \/ q) /\ r.resync = q
    /\ r.pc \in {"list", "replace", "clear", "load"} => r.cursor # None
    /\ r.pc \in {"replace", "clear", "load"} =>
          \A f \in r.page.upserts : There(f, r.page.version[f], r.cursor, log, g)
    /\ r.pc = "replace" => \A f \in Files : f \in r.page.upserts \/ f \in g \/ f \in r.page.stale
    /\ r.pc \in {"clear", "load"} =>
          \A f \in Files :
             /\ e => f \in r.page.upserts \/ f \in g \/ f \in r.page.stale \/ m[f].present
             /\ m[f].present => /\ m[f].fresh /\ (m[f].ready \/ r.failed)
                                /\ There(f, m[f].version, r.cursor, log, g)

\* A task that may still write something but an error.
Active(r) == r.pc \notin {"idle", "fail"}
Alone == \A v, w \in Workers : Active(run[v]) /\ Active(run[w]) => v = w
Informed ==
    \A w \in Workers : Active(run[w]) =>
       /\ src.status # "ready"
       /\ Knows(run[w], Exists, src.cursor, src.resync, mirror, objects, changes, gone)

\* MirrorIsSound without the history variable, and what it rests on.
Mirrored == (Exists /\ src.cursor # None /\ ~src.resync) => Follows(src.cursor, mirror, skipped, changes, gone)
Vouched ==
    src.status = "ready" =>
       /\ src.health /\ ~src.resync
       /\ \A f \in Files : mirror[f].present => mirror[f].fresh /\ mirror[f].ready
Backed == \A f \in Files : mirror[f].present => mirror[f].body \in objects
Undisturbed == Alone /\ Informed /\ Mirrored /\ Vouched /\ Backed

Basis == TypeOK /\ WithinFeed /\ TrashedByOwn(changes, gone) /\ NoneWhenDeleted
IInv == Basis /\ (~overlapped => Undisturbed)

-----------------------------------------------------------------------------
(* Types.                                                                    *)

\* The constants of the model have their types.
LEMMA EmptyTypes == NoDoc \in Docs /\ NoPage \in Pages /\ NoRun \in Tasks
<1>1. NoDoc \in Docs
  BY SyncAssumption DEF NoDoc, Docs
<1>2. NoPage \in Pages
  BY SyncAssumption DEF NoPage, Pages
<1>3. NoRun \in Tasks
  BY <1>2, SyncAssumption DEF NoRun, Tasks, Cursors, Pcs
<1> QED BY <1>1, <1>2, <1>3

\* VersionAt is LastChange of the feed.
LEMMA VersionIs ==
    \A f, n : VersionAt(f, n) = LastChange(f, n, changes) /\ Version(f) = LastChange(f, Log, changes)
BY DEF VersionAt, Version, LastChange

\* The initial state.
LEMMA InitHolds == Init => IInv
<1> SUFFICES ASSUME Init PROVE IInv
  OBVIOUS
<1>1. TypeOK
  <2>1. /\ changes \in Seq(ChangeRecords) /\ Log = 0
        /\ gone \subseteq Files /\ body \in [Files -> Bodies] /\ objects \subseteq Bodies
        /\ mirror \in [Files -> Docs] /\ run \in [Workers -> Tasks]
    BY EmptyTypes, SyncAssumption DEF Init, Log
  <2>2. src \in Sources
    BY SyncAssumption DEF Init, Sources, Statuses, Cursors
  <2>3. credOf \in 0..MaxConnects /\ queue \in 0..MaxQueue /\ faults \in 0..MaxFaults
    BY SyncAssumption DEF Init
  <2>4. /\ cred \in {"none", "live", "dead"} /\ flows \in [1..MaxConnects -> BOOLEAN]
        /\ overlapped \in BOOLEAN /\ wedged \in BOOLEAN /\ skipped \in [Files -> Cursors]
    BY Zenon DEF Init, Cursors
  <2> QED BY <2>1, <2>2, <2>3, <2>4, SyncAssumption DEF TypeOK
<1>2. WithinFeed /\ NoneWhenDeleted /\ TrashedByOwn(changes, gone)
  BY DEF Init, WithinFeed, NoneWhenDeleted, TrashedByOwn, BodiesRead, NoRun, NoPage, Log, Exists
<1>3. Undisturbed
  BY DEF Init, Undisturbed, Alone, Informed, Active, NoRun, Mirrored, Vouched, Backed, NoDoc
<1> QED BY <1>1, <1>2, <1>3 DEF IInv, Basis

\* The two writes most steps make: of a task, and of the source's row.
Moves(w, r) == run' = [v \in Workers |-> IF v = w THEN r ELSE run[v]]

\* The fault counter stays within its bound.
LEMMA FaultType == TypeOK /\ (Fault \/ faults' = faults) => faults' \in 0..MaxFaults
BY SyncAssumption DEF TypeOK, Fault

\* A step of the provider, of a request or of the poll keeps the types.
LEMMA RequestType ==
    ASSUME TypeOK,
           \/ Change \/ Revoke \/ StartConnect \/ Poll \/ Resync \/ DeleteSource
           \/ \E g \in 1..MaxConnects : Callback(g)
    PROVE  TypeOK'
<1>1. CASE Change
  <2>1. changes' \in Seq(ChangeRecords) /\ Len(changes') = Len(changes) + 1
    <3>1. PICK e : changes' = Append(changes, e) /\ e \in ChangeRecords
      <4>1. \A f \in Files : [files |-> {f}, folder |-> FALSE] \in ChangeRecords
        BY DEF ChangeRecords
      <4>2. [files |-> Folder \ gone, folder |-> TRUE] \in ChangeRecords
        BY SyncAssumption DEF ChangeRecords
      <4> QED BY <1>1, <4>1, <4>2, Zenon DEF Change
    <3> QED BY <3>1 DEF TypeOK
  <2>2. Len(changes) \in Nat
    BY DEF TypeOK
  <2>3. Log' <= MaxLog
    BY <1>1, <2>1, <2>2, SyncAssumption DEF Change, Log
  <2>4. gone' \subseteq Files /\ body' \in [Files -> Bodies]
    BY <1>1 DEF Change, TypeOK
  <2> QED BY <1>1, <2>1, <2>3, <2>4 DEF Change, TypeOK, Sources, consent, history, Tasks
<1>2. CASE Revoke
  BY <1>2, FaultType DEF Revoke, TypeOK, provider, consent, history, Log
<1>3. CASE StartConnect
  <2>1. src' \in Sources
    <3>1. src.gen \in 0..MaxConnects /\ src.gen < MaxConnects
      BY <1>3 DEF StartConnect, TypeOK, Sources
    <3>2. src.gen + 1 \in 0..MaxConnects
      BY <3>1, SyncAssumption
    <3> QED BY <1>3, <3>2 DEF StartConnect, TypeOK, Sources
  <2>2. flows' \in [1..MaxConnects -> BOOLEAN]
    BY <1>3, Zenon DEF StartConnect, TypeOK
  <2> QED BY <1>3, <2>1, <2>2 DEF StartConnect, TypeOK, provider, history, Log
<1>4. CASE Poll
  BY <1>4, SyncAssumption DEF Poll, Enqueue, TypeOK, provider, consent, history, Log
<1>5. CASE Resync
  <2>1. src' \in Sources
    BY <1>5 DEF Resync, TypeOK, Sources, Statuses
  <2>2. queue' \in 0..MaxQueue
    BY <1>5, SyncAssumption DEF Resync, EnqueueAfterCommit, Enqueue, TypeOK
  <2>3. faults' \in 0..MaxFaults /\ wedged' \in BOOLEAN
    BY <1>5, FaultType, Zenon DEF Resync, EnqueueAfterCommit, TypeOK
  <2> QED BY <1>5, <2>1, <2>2, <2>3 DEF Resync, TypeOK, provider, consent, Log
<1>6. CASE DeleteSource
  <2>1. src' \in Sources
    BY <1>6 DEF DeleteSource, TypeOK, Sources, Statuses, Cursors
  <2>2. mirror' \in [Files -> Docs] /\ objects' \subseteq Bodies /\ skipped' \in [Files -> Cursors]
    BY <1>6, EmptyTypes DEF DeleteSource, TypeOK, Cursors
  <2> QED BY <1>6, <2>1, <2>2 DEF DeleteSource, TypeOK, provider, consent, history, Log
<1>7. ASSUME NEW g \in 1..MaxConnects, Callback(g) PROVE TypeOK'
  <2>1. flows' \in [1..MaxConnects -> BOOLEAN]
    BY <1>7 DEF Callback, TypeOK
  <2>2. CASE Connected(g)
    <3>1. src' \in Sources
      BY <2>2 DEF Connected, TypeOK, Sources, Statuses
    <3>2. queue' \in 0..MaxQueue /\ cred' = "live" /\ credOf' \in 0..MaxConnects
      BY <2>2, SyncAssumption DEF Connected, EnqueueAfterCommit, Enqueue, TypeOK
    <3>3. faults' \in 0..MaxFaults /\ wedged' \in BOOLEAN
      BY <2>2, FaultType, Zenon DEF Connected, EnqueueAfterCommit, TypeOK
    <3> QED BY <1>7, <2>1, <3>1, <3>2, <3>3 DEF Callback, TypeOK, provider, Log
  <2>3. CASE CallbackFails
    BY <1>7, <2>1, <2>3 DEF Callback, CallbackFails, TypeOK, provider, Log
  <2> QED BY <1>7, <2>2, <2>3 DEF Callback
<1> QED BY <1>1, <1>2, <1>3, <1>4, <1>5, <1>6, <1>7

-----------------------------------------------------------------------------
(* What each step of a task makes of the task.                               *)

\* Two tasks that differ in nothing but where they are.
SameBut(r, t) ==
    /\ r.cursor = t.cursor /\ r.resync = t.resync /\ r.page = t.page
    /\ r.keys = t.keys /\ r.failed = t.failed

\* Rewriting one task keeps the type of all.
LEMMA MovesType ==
    ASSUME TypeOK, NEW w \in Workers, NEW r \in Tasks, Moves(w, r)
    PROVE  run' \in [Workers -> Tasks] /\ run'[w] = r /\ \A v \in Workers \ {w} : run'[v] = run[v]
BY DEF Moves, TypeOK

\* A task that only goes on keeps everything else.
LEMMA GotoMoves ==
    ASSUME TypeOK, NEW w \in Workers, NEW p \in Pcs, Goto(w, p)
    PROVE  \E r \in Tasks : Moves(w, r) /\ r.pc = p /\ SameBut(r, run[w])
<1>1. PICK r : r = [run[w] EXCEPT !.pc = p]
  OBVIOUS
<1>2. r \in Tasks /\ r.pc = p /\ SameBut(r, run[w])
  BY <1>1 DEF TypeOK, Tasks, SameBut
<1>3. Moves(w, r)
  BY <1>1 DEF Goto, Moves, TypeOK
<1> QED BY <1>2, <1>3

\* A task that ends is no task.
LEMMA FinishMoves ==
    ASSUME TypeOK, NEW w \in Workers, Finish(w)
    PROVE  Moves(w, NoRun) /\ NoRun \in Tasks /\ NoRun.pc = "idle"
BY EmptyTypes DEF Finish, Moves, TypeOK, NoRun

\* A task that starts has the row's cursor and demand as they were.
LEMMA StartMoves ==
    ASSUME TypeOK, NEW w \in Workers, Start(w), Exists
    PROVE  \E r \in Tasks : /\ Moves(w, r) /\ r.pc = "token" /\ r.cursor = src.cursor
                            /\ r.resync = src.resync /\ r.page = NoPage
<1>1. PICK r : r = [NoRun EXCEPT !.pc = "token", !.cursor = src.cursor, !.resync = src.resync]
  OBVIOUS
<1>2. r \in Tasks /\ r.pc = "token" /\ r.cursor = src.cursor /\ r.resync = src.resync /\ r.page = NoPage
  BY <1>1, EmptyTypes DEF NoRun, Tasks, TypeOK, Sources, Pcs
<1>3. Moves(w, r)
  BY <1>1 DEF Start, Moves, TypeOK
<1> QED BY <1>2, <1>3

\* What is read of the files is typed.
LEMMA ReadTypes ==
    ASSUME TypeOK, NEW S \in SUBSET Files
    PROVE  /\ VersionOf(S) \in [Files -> 0..MaxLog] /\ BodyOf(S) \in [Files -> Bodies \cup {None}]
           /\ \A f \in S : VersionOf(S)[f] = LastChange(f, Log, changes) /\ BodyOf(S)[f] = body[f]
           /\ \A f \in S : BodyOf(S)[f] \in Bodies
<1>1. \A f \in Files : Version(f) \in 0..MaxLog /\ Version(f) = LastChange(f, Log, changes)
  <2>1. Log \in Nat /\ Log <= MaxLog
    BY DEF TypeOK, Log
  <2> QED BY <2>1, VersionIs, LastChangeIs, SyncAssumption
<1>2. 0 \in 0..MaxLog
  BY SyncAssumption
<1> QED BY <1>1, <1>2 DEF VersionOf, BodyOf, TypeOK

\* A page is read.
Reads(w, p) == run' = [run EXCEPT ![w].page = p, ![w].pc = "put"]

\* A page that is read is typed and has the bodies it lists.
LEMMA FetchMoves ==
    ASSUME TypeOK, NEW w \in Workers, NEW n \in 0..Log, NEW reread \in BOOLEAN, NEW seen \in SUBSET Files,
           run[w].cursor # None,
           Reads(w, PageOf(w, n, reread, seen))
    PROVE  \E r \in Tasks : /\ Moves(w, r) /\ r.pc = "put" /\ r.cursor = run[w].cursor
                            /\ r.resync = run[w].resync /\ r.page = PageOf(w, n, reread, seen)
                            /\ BodiesRead(r.page)
<1>1. PICK p : p = PageOf(w, n, reread, seen)
  OBVIOUS
<1>2. PICK r : r = [run[w] EXCEPT !.page = p, !.pc = "put"]
  OBVIOUS
<1>3. p \in Pages /\ BodiesRead(p)
  <2> DEFINE window == run[w].cursor + 1 .. n
             own == UNION {changes[i].files : i \in {j \in window : ~changes[j].folder}}
             inherited == UNION {changes[i].files : i \in {j \in window : changes[j].folder}}
             listed == seen \cap ((IF reread THEN own \cup inherited ELSE own) \ gone)
  <2>1. p = [next |-> n, upserts |-> listed, deleted |-> seen \cap own \cap gone,
             stale |-> inherited, complete |-> seen = Files,
             version |-> VersionOf(listed), body |-> BodyOf(listed)]
    BY <1>1 DEF PageOf
  <2>2. listed \in SUBSET Files
    OBVIOUS
  <2> HIDE DEF listed
  <2>3. /\ VersionOf(listed) \in [Files -> 0..MaxLog] /\ BodyOf(listed) \in [Files -> Bodies \cup {None}]
        /\ \A f \in listed : BodyOf(listed)[f] \in Bodies
    BY <2>2, ReadTypes
  <2>4. n \in 0..MaxLog
    BY SyncAssumption DEF TypeOK, Log
  <2> HIDE DEF own
  <2>5. inherited \in SUBSET Files
    <3>1. run[w].cursor \in Nat
      BY DEF TypeOK, Tasks, Cursors
    <3>2. \A i \in window : i \in 1..Log
      BY <3>1 DEF TypeOK, Log
    <3>3. \A i \in 1..Log : changes[i] \in ChangeRecords
      BY DEF TypeOK, Log
    <3>4. \A i \in window : changes[i].files \in SUBSET Files
      BY <3>2, <3>3 DEF ChangeRecords
    <3> QED BY <3>4
  <2> HIDE DEF inherited
  <2> QED BY <2>1, <2>2, <2>3, <2>4, <2>5 DEF Pages, BodiesRead
<1>4. r \in Tasks /\ r.pc = "put" /\ r.cursor = run[w].cursor /\ r.resync = run[w].resync /\ r.page = p
  BY <1>2, <1>3 DEF Tasks, TypeOK, Pcs
<1>5. Moves(w, r)
  BY <1>1, <1>2 DEF Reads, Moves, TypeOK
<1> QED BY <1>1, <1>3, <1>4, <1>5

\* A task goes to p with the keys k to look after.
Keeps(w, p, k) == run' = [run EXCEPT ![w].pc = p, ![w].keys = k]

\* Such a step changes nothing else of the task.
LEMMA KeepsMoves ==
    ASSUME TypeOK, NEW w \in Workers, NEW k \in SUBSET Bodies, NEW p \in Pcs,
           Keeps(w, p, k)
    PROVE  \E r \in Tasks : /\ Moves(w, r) /\ r.pc = p /\ r.keys = k /\ r.cursor = run[w].cursor
                            /\ r.resync = run[w].resync /\ r.page = run[w].page
                            /\ r.failed = run[w].failed
<1>1. PICK r : r = [run[w] EXCEPT !.pc = p, !.keys = k]
  OBVIOUS
<1>2. /\ r \in Tasks /\ r.pc = p /\ r.keys = k /\ r.cursor = run[w].cursor
      /\ r.resync = run[w].resync /\ r.page = run[w].page /\ r.failed = run[w].failed
  BY <1>1 DEF Tasks, TypeOK
<1>3. Moves(w, r)
  BY <1>1 DEF Keeps, Moves, TypeOK
<1> QED BY <1>2, <1>3

\* The ingestion of a page leaves the task at the page's end.
LEMMA IngestMoves ==
    ASSUME TypeOK, NEW w \in Workers, IngestPage(w)
    PROVE  \E r \in Tasks : /\ Moves(w, r) /\ r.cursor = run[w].page.next /\ r.resync = run[w].resync
                            /\ r.page.complete = run[w].page.complete /\ r.page.next = 0
                            /\ r.page.upserts = {}
                            /\ r.pc = IF ~run[w].page.complete \/ run[w].page.next = Log
                                      THEN "finalize" ELSE "fetch"
<1>1. PICK p : p = [NoPage EXCEPT !.complete = run[w].page.complete]
  OBVIOUS
<1>2. PICK to : to = IF ~run[w].page.complete \/ run[w].page.next = Log THEN "finalize" ELSE "fetch"
  OBVIOUS
<1>3. PICK r : r = [run[w] EXCEPT !.page = p, !.cursor = run[w].page.next, !.pc = to]
  OBVIOUS
<1>4. run[w] \in Tasks /\ run[w].page \in Pages
  BY DEF TypeOK, Tasks
<1>5. p \in Pages /\ p.complete = run[w].page.complete /\ p.next = 0 /\ p.upserts = {}
  BY <1>1, <1>4, EmptyTypes DEF Pages, NoPage
<1>6. run[w].page.next \in Cursors /\ to \in Pcs
  BY <1>2, <1>4 DEF Pages, Cursors, Pcs
<1>7. /\ r \in Tasks /\ r.cursor = run[w].page.next /\ r.resync = run[w].resync /\ r.page = p /\ r.pc = to
  BY <1>3, <1>4, <1>5, <1>6 DEF Tasks
<1>8. Moves(w, r)
  BY <1>1, <1>2, <1>3 DEF IngestPage, Moves, TypeOK
<1> QED BY <1>2, <1>5, <1>7, <1>8

\* A full sync takes its cursor at the end of the feed.
LEMMA BaselineMoves ==
    ASSUME TypeOK, NEW w \in Workers, Baseline(w)
    PROVE  \E r \in Tasks : /\ Moves(w, r) /\ r.pc = "list" /\ r.cursor = Log
                            /\ r.resync = run[w].resync /\ r.page = run[w].page
<1>1. PICK r : r = [run[w] EXCEPT !.pc = "list", !.cursor = Log]
  OBVIOUS
<1>2. Log \in Cursors
  BY SyncAssumption DEF TypeOK, Log, Cursors
<1>3. r \in Tasks /\ r.pc = "list" /\ r.cursor = Log /\ r.resync = run[w].resync /\ r.page = run[w].page
  BY <1>1, <1>2 DEF Tasks, TypeOK, Pcs
<1>4. Moves(w, r)
  BY <1>1 DEF Baseline, Moves, TypeOK
<1> QED BY <1>3, <1>4

\* The files of S are read, and the others that are there are not.
Lists(w, S) ==
    run' = [run EXCEPT ![w].pc = "replace",
                       ![w].page = [NoPage EXCEPT !.upserts = S, !.stale = (Files \ gone) \ S,
                                                  !.version = VersionOf(S), !.body = BodyOf(S)]]

\* An enumeration has the version and the body of every file it could read.
LEMMA EnumerateMoves ==
    ASSUME TypeOK, NEW w \in Workers, NEW S \in SUBSET (Files \ gone), Lists(w, S)
    PROVE  \E r \in Tasks : /\ Moves(w, r) /\ r.pc = "replace" /\ r.cursor = run[w].cursor
                            /\ r.resync = run[w].resync /\ r.page.next = 0
                            /\ r.page.upserts = S /\ r.page.stale = (Files \ gone) \ S
                            /\ \A f \in S : r.page.version[f] = LastChange(f, Log, changes)
                            /\ \A f \in S : r.page.body[f] \in Bodies
<1>1. PICK p : p = [NoPage EXCEPT !.upserts = S, !.stale = (Files \ gone) \ S,
                                  !.version = VersionOf(S), !.body = BodyOf(S)]
  OBVIOUS
<1>2. PICK r : r = [run[w] EXCEPT !.pc = "replace", !.page = p]
  OBVIOUS
<1>3. S \in SUBSET Files
  OBVIOUS
<1>4. Moves(w, r)
  BY <1>1, <1>2 DEF Lists, Moves, TypeOK
<1>5. /\ p \in Pages /\ p.upserts = S /\ p.stale = (Files \ gone) \ S /\ p.next = 0
      /\ p.version = VersionOf(S) /\ p.body = BodyOf(S)
  <2>1. VersionOf(S) \in [Files -> 0..MaxLog] /\ BodyOf(S) \in [Files -> Bodies \cup {None}]
    BY <1>3, ReadTypes
  <2>2. NoPage \in Pages /\ NoPage.next = 0
    BY EmptyTypes DEF NoPage
  <2> QED BY <1>1, <1>3, <2>1, <2>2 DEF Pages
<1>6. r \in Tasks /\ r.pc = "replace" /\ r.cursor = run[w].cursor /\ r.resync = run[w].resync /\ r.page = p
  BY <1>2, <1>5 DEF Tasks, TypeOK, Pcs
<1>7. \A f \in S : p.version[f] = LastChange(f, Log, changes) /\ p.body[f] \in Bodies
  BY <1>3, <1>5, ReadTypes
<1> QED BY <1>4, <1>5, <1>6, <1>7

\* A file of the enumeration is loaded.
Loads(w, f, ready) ==
    run' = [run EXCEPT ![w].page = [run[w].page EXCEPT !.upserts = @ \ {f}, !.version[f] = 0,
                                                       !.body[f] = None],
                       ![w].failed = run[w].failed \/ ~ready \/ ~Exists]

\* Loading a file takes it off the list and remembers a failure.
LEMMA LoadMoves ==
    ASSUME TypeOK, NEW w \in Workers, NEW f \in Files, NEW ready \in BOOLEAN,
           Loads(w, f, ready)
    PROVE  \E r \in Tasks : /\ Moves(w, r) /\ r.pc = run[w].pc /\ r.cursor = run[w].cursor
                            /\ r.resync = run[w].resync /\ r.page.next = run[w].page.next
                            /\ r.page.upserts = run[w].page.upserts \ {f}
                            /\ r.page.stale = run[w].page.stale
                            /\ \A h \in Files \ {f} : /\ r.page.version[h] = run[w].page.version[h]
                                                      /\ r.page.body[h] = run[w].page.body[h]
                            /\ r.failed = (run[w].failed \/ ~ready \/ ~Exists)
<1>1. PICK p : p = [run[w].page EXCEPT !.upserts = @ \ {f}, !.version[f] = 0, !.body[f] = None]
  OBVIOUS
<1>2. PICK x : x = (run[w].failed \/ ~ready \/ ~Exists)
  OBVIOUS
<1>3. PICK r : r = [run[w] EXCEPT !.page = p, !.failed = x]
  OBVIOUS
<1>4. run[w] \in Tasks /\ run[w].page \in Pages
  BY DEF TypeOK, Tasks
<1>5. /\ p \in Pages /\ p.next = run[w].page.next /\ p.upserts = run[w].page.upserts \ {f}
      /\ p.stale = run[w].page.stale
      /\ \A h \in Files \ {f} : p.version[h] = run[w].page.version[h] /\ p.body[h] = run[w].page.body[h]
  <2>1. PICK a : a = [run[w].page.version EXCEPT ![f] = 0]
    OBVIOUS
  <2>2. PICK b : b = [run[w].page.body EXCEPT ![f] = None]
    OBVIOUS
  <2>3. a \in [Files -> 0..MaxLog] /\ \A h \in Files \ {f} : a[h] = run[w].page.version[h]
    BY <1>4, <2>1, SyncAssumption DEF Pages
  <2>4. b \in [Files -> Bodies \cup {None}] /\ \A h \in Files \ {f} : b[h] = run[w].page.body[h]
    BY <1>4, <2>2 DEF Pages
  <2>5. p = [run[w].page EXCEPT !.upserts = run[w].page.upserts \ {f}, !.version = a, !.body = b]
    BY <1>1, <1>4, <2>1, <2>2 DEF Pages
  <2> QED BY <1>4, <2>3, <2>4, <2>5 DEF Pages
<1>6. x \in BOOLEAN
  BY <1>2
<1>7. /\ r \in Tasks /\ r.pc = run[w].pc /\ r.cursor = run[w].cursor
      /\ r.resync = run[w].resync /\ r.page = p /\ r.failed = x
  BY <1>3, <1>4, <1>5, <1>6 DEF Tasks
<1>8. Moves(w, r)
  <2>1. run' = [run EXCEPT ![w].page = p, ![w].failed = x]
    BY <1>1, <1>2, Zenon DEF Loads
  <2> QED BY <1>3, <2>1 DEF Moves, TypeOK
<1> QED BY <1>2, <1>5, <1>7, <1>8

-----------------------------------------------------------------------------
(* Steps of a task.  A lawful step makes a task of type Tasks of one worker's  *)
(* task and leaves the rest of the state typed and the feed alone.           *)

Lawful(w, r) ==
    /\ r \in Tasks /\ Moves(w, r)
    /\ changes' = changes /\ gone' = gone /\ body' = body
    /\ src' \in Sources /\ mirror' \in [Files -> Docs] /\ objects' \subseteq Bodies
    /\ cred' = cred /\ flows' = flows /\ credOf' = credOf
    /\ queue' \in 0..MaxQueue /\ faults' \in 0..MaxFaults
    /\ overlapped' \in BOOLEAN /\ wedged' \in BOOLEAN /\ skipped' \in [Files -> Cursors]
    /\ r.cursor # None => r.cursor <= Log
    /\ r.page.next <= Log /\ BodiesRead(r.page)
    /\ r.pc = "fetch" => r.cursor # None
    /\ src'.cursor # None => src'.cursor <= Log
    /\ src'.status = "deleted" => \A f \in Files : ~mirror'[f].present

\* A lawful step keeps the basis.
LEMMA LawfulBasis ==
    ASSUME Basis, NEW w \in Workers, NEW r, Lawful(w, r)
    PROVE  Basis'
<1>1. /\ run' \in [Workers -> Tasks] /\ run'[w] = r
      /\ \A v \in Workers \ {w} : run'[v] = run[v]
  BY MovesType DEF Basis, Lawful
<1>2. Log' = Log
  BY DEF Lawful, Log
<1>3. TypeOK'
  BY <1>1, <1>2 DEF Basis, Lawful, TypeOK
<1>4. WithinFeed'
  BY <1>1, <1>2 DEF Basis, Lawful, WithinFeed
<1>5. TrashedByOwn(changes, gone)'
  BY DEF Basis, Lawful, TrashedByOwn
<1>6. NoneWhenDeleted'
  BY DEF Lawful, NoneWhenDeleted, Exists
<1> QED BY <1>3, <1>4, <1>5, <1>6 DEF Basis

\* What the mirror owes its readers.
Sound == Mirrored /\ Vouched /\ Backed

\* A step of the active task leaves the source undisturbed if the task knows what it
\* should afterwards and the mirror stays sound.
LEMMA ActiveStep ==
    ASSUME Basis, NEW w \in Workers, NEW r, Lawful(w, r), Undisturbed, Active(run[w]),
           Active(r) => /\ src'.status # "ready"
                        /\ Knows(r, src'.status # "deleted", src'.cursor, src'.resync,
                                 mirror', objects', changes', gone'),
           Sound'
    PROVE  Undisturbed'
<1>1. run'[w] = r /\ \A v \in Workers \ {w} : run'[v] = run[v]
  BY MovesType DEF Basis, Lawful
<1>2. \A v \in Workers \ {w} : ~Active(run'[v])
  BY <1>1 DEF Undisturbed, Alone
<1>3. Alone'
  BY <1>2 DEF Alone
<1>4. Informed'
  BY <1>1, <1>2 DEF Informed, Exists
<1> QED BY <1>3, <1>4 DEF Undisturbed, Sound

\* A step of another worker, or of a request, disturbs nothing while it leaves the mirror,
\* the cursor and the demand for a full sync, and erases no body.
LEMMA AsideStep ==
    ASSUME Basis, Undisturbed,
           \A v \in Workers : Active(run'[v]) => run'[v] = run[v],
           mirror' = mirror, objects' = objects, changes' = changes, gone' = gone, skipped' = skipped,
           src'.cursor = src.cursor, src'.resync = src.resync,
           (src'.status = "deleted") <=> (src.status = "deleted"),
           src'.status = "ready" => src' = src
    PROVE  Undisturbed'
<1>1. Alone'
  BY DEF Undisturbed, Alone
<1>2. Informed'
  <2> SUFFICES ASSUME NEW v \in Workers, Active(run'[v])
               PROVE  /\ src'.status # "ready"
                      /\ Knows(run'[v], Exists', src'.cursor, src'.resync, mirror', objects', changes', gone')
    BY DEF Informed
  <2>1. /\ run'[v] = run[v] /\ src.status # "ready"
        /\ Knows(run[v], Exists, src.cursor, src.resync, mirror, objects, changes, gone)
    BY DEF Undisturbed, Informed
  <2>2. Exists' <=> Exists
    BY DEF Exists
  <2>3. Knows(run[v], Exists', src.cursor, src.resync, mirror, objects, changes, gone)
    BY <2>1, <2>2 DEF Knows
  <2> QED BY <2>1, <2>3
<1>3. Mirrored'
  BY DEF Undisturbed, Mirrored, Exists
<1>4. Vouched' /\ Backed'
  BY DEF Undisturbed, Vouched, Backed
<1> QED BY <1>1, <1>2, <1>3, <1>4 DEF Undisturbed

\* The mirror stays sound where rows, cursor and status stay and no body goes that a row has.
LEMMA SoundStays ==
    ASSUME Undisturbed, mirror' = mirror, src' = src, changes' = changes, gone' = gone, skipped' = skipped,
           \A f \in Files : mirror[f].present => mirror[f].body \in objects'
    PROVE  Sound'
BY DEF Undisturbed, Sound, Mirrored, Vouched, Backed, Exists

\* A step that leaves the row and the mirror is lawful if its task is.
LEMMA QuietLawful ==
    ASSUME Basis, NEW w \in Workers, NEW r \in Tasks, Moves(w, r),
           UNCHANGED <<changes, gone, body, mirror, src, cred, flows, credOf, skipped>>,
           objects' \subseteq Bodies, queue' \in 0..MaxQueue, faults' \in 0..MaxFaults,
           overlapped' \in BOOLEAN, wedged' \in BOOLEAN,
           r.cursor # None => r.cursor <= Log, r.page.next <= Log, BodiesRead(r.page),
           r.pc = "fetch" => r.cursor # None
    PROVE  Lawful(w, r)
BY DEF Basis, TypeOK, WithinFeed, NoneWhenDeleted, Exists, Lawful

\* Where the task of a worker stands within the feed, and the counters.
LEMMA BasisFacts ==
    ASSUME Basis, NEW w \in Workers
    PROVE  /\ run[w] \in Tasks /\ run[w].page \in Pages /\ Log \in Nat /\ Log <= MaxLog
           /\ run[w].cursor \in Cursors /\ (run[w].cursor # None => run[w].cursor \in 0..Log)
           /\ run[w].page.next \in 0..Log
           /\ src.cursor # None => src.cursor \in 0..Log
           /\ (run[w].pc = "fetch" => run[w].cursor # None) /\ BodiesRead(run[w].page)
           /\ objects \subseteq Bodies /\ queue \in 0..MaxQueue /\ faults \in 0..MaxFaults
           /\ overlapped \in BOOLEAN /\ wedged \in BOOLEAN /\ skipped \in [Files -> Cursors]
           /\ src \in Sources /\ mirror \in [Files -> Docs] /\ TypeOK
<1>1. run[w] \in Tasks /\ Log \in Nat /\ Log <= MaxLog /\ src \in Sources
  BY DEF Basis, TypeOK, Log
<1>2. run[w].page \in Pages /\ run[w].cursor \in Cursors /\ src.cursor \in Cursors
  BY <1>1 DEF Tasks, Sources
<1>3. run[w].page.next \in 0..MaxLog
  BY <1>2 DEF Pages
<1>4. /\ run[w].cursor # None => run[w].cursor <= Log
      /\ run[w].page.next <= Log /\ (src.cursor # None => src.cursor <= Log)
      /\ (run[w].pc = "fetch" => run[w].cursor # None) /\ BodiesRead(run[w].page)
  BY DEF Basis, WithinFeed
<1>5. run[w].cursor # None => run[w].cursor \in 0..Log
  BY <1>1, <1>2, <1>4, SyncAssumption DEF Cursors
<1>6. src.cursor # None => src.cursor \in 0..Log
  BY <1>1, <1>2, <1>4, SyncAssumption DEF Cursors
<1>7. run[w].page.next \in 0..Log
  BY <1>1, <1>3, <1>4, SyncAssumption
<1> QED BY <1>1, <1>2, <1>4, <1>5, <1>6, <1>7 DEF Basis, TypeOK

\* A step of the active task that ends it, or fails it.
LEMMA EndingStep ==
    ASSUME IInv, NEW w \in Workers, NEW r, Lawful(w, r), ~Active(r), overlapped' = overlapped,
           mirror' = mirror, objects' = objects, src' = src, skipped' = skipped
    PROVE  IInv'
<1>1. Basis'
  BY LawfulBasis DEF IInv
<1>2. ASSUME ~overlapped, Active(run[w]) PROVE Undisturbed'
  <2>1. Sound'
    BY <1>2, SoundStays DEF IInv, Lawful, Undisturbed, Backed
  <2> QED BY <1>2, <2>1, ActiveStep DEF IInv
<1>3. ASSUME ~overlapped, ~Active(run[w]) PROVE Undisturbed'
  <2>1. run'[w] = r /\ \A v \in Workers \ {w} : run'[v] = run[v]
    BY MovesType DEF IInv, Basis, Lawful
  <2> QED BY <1>3, <2>1, AsideStep DEF IInv, Lawful
<1> QED BY <1>1, <1>2, <1>3 DEF IInv

\* A step of the active task that leaves the row and the mirror.
LEMMA QuietStep ==
    ASSUME IInv, NEW w \in Workers, NEW r, Lawful(w, r), Active(run[w]),
           overlapped' = overlapped, src' = src, mirror' = mirror, skipped' = skipped,
           Undisturbed => /\ \A f \in Files : mirror[f].present => mirror[f].body \in objects'
                          /\ Knows(r, Exists, src.cursor, src.resync, mirror, objects', changes, gone)
    PROVE  IInv'
<1>1. Basis'
  BY LawfulBasis DEF IInv
<1>2. ASSUME ~overlapped PROVE Undisturbed'
  <2>1. Undisturbed /\ src.status # "ready"
    BY <1>2 DEF IInv, Undisturbed, Informed
  <2>2. Sound'
    BY <2>1, SoundStays DEF Lawful
  <2>3. /\ src'.status # "ready"
        /\ Knows(r, src'.status # "deleted", src'.cursor, src'.resync, mirror', objects', changes', gone')
    BY <2>1 DEF Lawful, Exists
  <2> QED BY <2>1, <2>2, <2>3, ActiveStep DEF IInv
<1> QED BY <1>1, <1>2 DEF IInv

\* What an active task of an undisturbed source knows.
LEMMA TaskKnows ==
    ASSUME Undisturbed, NEW w \in Workers, Active(run[w])
    PROVE  /\ Knows(run[w], Exists, src.cursor, src.resync, mirror, objects, changes, gone)
           /\ \A f \in Files : mirror[f].present => mirror[f].body \in objects
           /\ src.status # "ready"
BY DEF Undisturbed, Informed, Backed

\* _build_run keeps the invariant: the mode follows from what was read.
LEMMA TokenStep ==
    ASSUME IInv, NEW w \in Workers, Token(w)
    PROVE  IInv'
<1>1. PICK p \in {"fail", "fetch", "baseline"} :
         /\ Goto(w, p) /\ (Fault \/ faults' = faults)
         /\ p = "fetch" => run[w].cursor # None /\ ~run[w].resync
         /\ p = "baseline" => run[w].cursor = None \/ run[w].resync
  BY Zenon DEF Token
<1>2. PICK r \in Tasks : Moves(w, r) /\ r.pc = p /\ SameBut(r, run[w])
  BY <1>1, GotoMoves DEF Pcs, IInv, Basis
<1>3. Lawful(w, r)
  BY <1>1, <1>2, BasisFacts, QuietLawful, FaultType
     DEF Token, IInv, SameBut, provider, consent, history
<1>4. CASE p = "fail"
  BY <1>2, <1>3, <1>4, EndingStep DEF Token, Active, history
<1>5. CASE p # "fail"
  <2>1. Undisturbed => Knows(r, Exists, src.cursor, src.resync, mirror, objects, changes, gone)
    BY <1>1, <1>2, <1>5, TaskKnows DEF Knows, SameBut, Token, Active
  <2> QED BY <1>3, <2>1, QuietStep, TaskKnows DEF Token, history, Active
<1> QED BY <1>4, <1>5

\* A page that was just read is the feed's from the cursor to its end.
LEMMA PageOfIsRead ==
    ASSUME Basis, NEW w \in Workers, run[w].cursor # None,
           NEW n \in run[w].cursor .. Log, NEW reread \in BOOLEAN, NEW seen \in SUBSET Files
    PROVE  /\ PageIsRead(PageOf(w, n, reread, seen), run[w].cursor, changes, gone)
           /\ PageOf(w, n, reread, seen).next = n
<1> DEFINE c == run[w].cursor
           window == c + 1 .. n
           own == UNION {changes[i].files : i \in {j \in window : ~changes[j].folder}}
           inherited == UNION {changes[i].files : i \in {j \in window : changes[j].folder}}
           listed == seen \cap ((IF reread THEN own \cup inherited ELSE own) \ gone)
<1>1. PICK p : p = PageOf(w, n, reread, seen)
  OBVIOUS
<1>2. /\ p.next = n /\ p.upserts = listed /\ p.deleted = seen \cap own \cap gone /\ p.stale = inherited
      /\ p.complete = (seen = Files) /\ p.version = VersionOf(listed)
  BY <1>1 DEF PageOf
<1>3. c \in Nat /\ n \in Nat /\ c <= n /\ n <= Log /\ Log \in Nat /\ TypeOK
  BY BasisFacts
<1>4. \A i \in window : \A f : f \in changes[i].files => f \in own \/ f \in inherited
  OBVIOUS
<1>5. \A i \in window : \A f : f \in changes[i].files /\ ~changes[i].folder => f \in own
  OBVIOUS
<1>6. \A i : i \in window <=> i \in Nat /\ c < i /\ i <= n
  BY <1>3
<1>7. listed \in SUBSET Files /\ listed \cap gone = {} /\ (own \ gone) \cap seen \subseteq listed
  OBVIOUS
<1> HIDE DEF listed, own, inherited, window, c
<1>8. ASSUME NEW f \in listed PROVE There(f, p.version[f], n, changes, gone)
  <2>1. p.version[f] = LastChange(f, Log, changes) /\ f \notin gone
    BY <1>2, <1>3, <1>7, ReadTypes
  <2> QED BY <1>3, <2>1, LastChangeIs, LastChangeGrows DEF There
<1>9. ASSUME seen = Files, NEW f \in Files \ (p.upserts \cup p.deleted)
      PROVE  /\ f \in gone => \/ LastChange(f, Len(changes), changes) <= c
                              \/ LastChange(f, Len(changes), changes) > n
             /\ f \notin inherited => LastChange(f, n, changes) <= LastChange(f, c, changes)
             /\ ~OwnIn(f, c, n, changes)
  <2>1. f \notin own
    BY <1>2, <1>7, <1>9
  <2>2. ASSUME f \in gone, ~(LastChange(f, Len(changes), changes) <= c),
               ~(LastChange(f, Len(changes), changes) > n)
        PROVE  FALSE
    <3>1. PICK i : i = LastChange(f, Len(changes), changes)
      OBVIOUS
    <3>2. i \in Nat /\ i > 0 /\ f \in changes[i].files /\ ~changes[i].folder
      BY <1>3, <2>2, <3>1, LastChangeIs DEF Basis, TrashedByOwn, Log
    <3> QED BY <1>3, <1>5, <1>6, <2>1, <2>2, <3>1, <3>2
  <2>3. ASSUME f \notin inherited PROVE LastChange(f, n, changes) <= LastChange(f, c, changes)
    <3>1. PICK i : i = LastChange(f, n, changes)
      OBVIOUS
    <3>2. i \in 0..n /\ (i > 0 => f \in changes[i].files)
      BY <1>3, <3>1, LastChangeIs
    <3>3. i <= c
      BY <1>3, <1>4, <1>6, <2>1, <2>3, <3>2
    <3>4. LastChange(f, c, changes) \in Nat /\ (i > 0 => LastChange(f, c, changes) >= i)
      BY <1>3, <3>2, <3>3, LastChangeIs
    <3> QED BY <3>1, <3>2, <3>4
  <2>4. ~OwnIn(f, c, n, changes)
    BY <1>5, <2>1 DEF OwnIn, window
  <2> QED BY <2>2, <2>3, <2>4
<1> QED BY <1>1, <1>2, <1>3, <1>8, <1>9 DEF PageIsRead, c

\* fetch_changes keeps it: the page is the feed's (PageOfIsRead).
LEMMA FetchStep ==
    ASSUME IInv, NEW w \in Workers, FetchPage(w)
    PROVE  IInv'
<1>1. PICK n \in run[w].cursor .. Log, reread \in BOOLEAN, seen \in SUBSET Files :
         /\ Fault \/ faults' = faults
         /\ Reads(w, PageOf(w, n, reread, seen))
  BY Zenon DEF FetchPage, Reads
<1>2. run[w].cursor # None /\ Basis /\ TypeOK
  BY BasisFacts DEF IInv, FetchPage
<1>3. n \in 0..Log /\ run[w].cursor \in 0..Log
  BY <1>2, BasisFacts
<1>4. PICK r \in Tasks : /\ Moves(w, r) /\ r.pc = "put" /\ r.cursor = run[w].cursor
                         /\ r.resync = run[w].resync /\ r.page = PageOf(w, n, reread, seen)
                         /\ BodiesRead(r.page)
  BY <1>1, <1>2, <1>3, FetchMoves
<1>5. PageIsRead(r.page, r.cursor, changes, gone) /\ r.page.next = n
  BY <1>2, <1>4, PageOfIsRead
<1>6. Lawful(w, r)
  BY <1>1, <1>2, <1>3, <1>4, <1>5, BasisFacts, QuietLawful, FaultType
     DEF FetchPage, provider, consent, history
<1>7. Undisturbed => Knows(r, Exists, src.cursor, src.resync, mirror, objects, changes, gone)
  BY <1>2, <1>4, <1>5, TaskKnows DEF Knows, FetchPage, Active
<1> QED BY <1>6, <1>7, QuietStep, TaskKnows DEF FetchPage, history, Active

\* A failed read keeps it: the row is as it was.
LEMMA FetchFailsStep ==
    ASSUME IInv, NEW w \in Workers, FetchFails(w)
    PROVE  IInv'
<1>1. Goto(w, "fail") /\ Fault /\ queue' \in 0..MaxQueue
  BY SyncAssumption DEF FetchFails, IInv, Basis, TypeOK
<1>2. PICK r \in Tasks : Moves(w, r) /\ r.pc = "fail" /\ SameBut(r, run[w])
  BY <1>1, GotoMoves DEF Pcs, IInv, Basis
<1>3. UNCHANGED <<changes, gone, body, mirror, objects, src, cred, flows, credOf, overlapped, wedged, skipped>>
  BY DEF FetchFails, provider, consent, history
<1>4. Lawful(w, r)
  BY <1>1, <1>2, <1>3, BasisFacts, QuietLawful, FaultType DEF IInv, SameBut
<1> QED BY <1>2, <1>3, <1>4, EndingStep DEF Active

\* A refused contract keeps it: if another task runs, they overlap.
LEMMA ContractFailsStep ==
    ASSUME IInv, NEW w \in Workers, ContractFails(w)
    PROVE  IInv'
<1>1. Goto(w, "fail") /\ Fault /\ queue' \in 0..MaxQueue /\ run[w].pc = "idle"
  BY SyncAssumption DEF ContractFails, IInv, Basis, TypeOK
<1>2. PICK r \in Tasks : Moves(w, r) /\ r.pc = "fail" /\ SameBut(r, run[w])
  BY <1>1, GotoMoves DEF Pcs, IInv, Basis
<1>3. UNCHANGED <<changes, gone, body, mirror, objects, src, cred, flows, credOf, wedged, skipped>>
  BY DEF ContractFails, provider, consent
<1>4. overlapped' \in BOOLEAN /\ (overlapped => overlapped')
  BY Zenon DEF ContractFails
<1>5. Lawful(w, r)
  BY <1>1, <1>2, <1>3, <1>4, BasisFacts, QuietLawful, FaultType DEF IInv, SameBut
<1>6. Basis'
  BY <1>5, LawfulBasis DEF IInv
<1>7. \A v \in Workers : Active(run'[v]) => run'[v] = run[v]
  BY <1>2, MovesType DEF Active, IInv, Basis
<1>8. Undisturbed => Undisturbed'
  BY <1>3, <1>7, AsideStep DEF IInv
<1> QED BY <1>4, <1>6, <1>8 DEF IInv

\* A crash, and a task that raises, keep it: the row is as it was.
LEMMA LossSteps ==
    ASSUME IInv, NEW w \in Workers, Crash(w) \/ TaskRaises(w)
    PROVE  IInv'
<1>1. /\ Fault /\ queue' \in 0..MaxQueue
      /\ UNCHANGED <<changes, gone, body, mirror, objects, src, cred, flows, credOf, overlapped, skipped>>
  BY SyncAssumption DEF Crash, TaskRaises, provider, consent, history, IInv, Basis, TypeOK
<1>2. wedged' \in BOOLEAN
  BY Zenon DEF Crash, TaskRaises, history, IInv, Basis, TypeOK
<1>3. CASE Finish(w)
  <2>1. NoRun \in Tasks /\ Moves(w, NoRun) /\ NoRun.pc = "idle"
    BY <1>3, FinishMoves DEF IInv, Basis
  <2>2. NoRun.cursor = None /\ NoRun.page.next = 0 /\ BodiesRead(NoRun.page) /\ Log \in Nat
    BY BasisFacts DEF NoRun, NoPage, IInv, BodiesRead
  <2>3. Lawful(w, NoRun)
    BY <1>1, <1>2, <2>1, <2>2, BasisFacts, QuietLawful, FaultType DEF IInv
  <2> QED BY <1>1, <2>1, <2>3, EndingStep DEF Active
<1>4. CASE run' = run
  <2>1. Basis'
    BY <1>1, <1>2, <1>4, FaultType
       DEF IInv, Basis, TypeOK, WithinFeed, TrashedByOwn, NoneWhenDeleted, Exists, Log
  <2>2. Undisturbed => Undisturbed'
    BY <1>1, <1>4 DEF Undisturbed, Alone, Informed, Mirrored, Vouched, Backed, Exists
  <2> QED BY <1>1, <2>1, <2>2 DEF IInv
<1> QED BY <1>3, <1>4 DEF Crash, TaskRaises

\* Storing the bodies of a page keeps it: bodies are only added.
LEMMA PutStep ==
    ASSUME IInv, NEW w \in Workers, Put(w)
    PROVE  IInv'
<1>1. PICK r \in Tasks : Moves(w, r) /\ r.pc = "apply" /\ SameBut(r, run[w])
  BY GotoMoves DEF Put, Pcs, IInv, Basis
<1>2. objects' = objects \cup {run[w].page.body[f] : f \in run[w].page.upserts}
  BY DEF Put
<1>3. \A f \in run[w].page.upserts : run[w].page.body[f] \in Bodies
  BY BasisFacts DEF IInv, BodiesRead
<1>4. Lawful(w, r)
  BY <1>1, <1>2, <1>3, BasisFacts, QuietLawful
     DEF Put, IInv, SameBut, provider, consent, history
<1>5. Undisturbed => Knows(r, Exists, src.cursor, src.resync, mirror, objects', changes, gone)
  BY <1>1, <1>2, TaskKnows DEF Knows, SameBut, Put, Active
<1> QED BY <1>2, <1>4, <1>5, QuietStep, TaskKnows DEF Put, history, Active

\* A key that no row refers to can go.
LEMMA UnreferencedCanGo ==
    ASSUME NEW keys, NEW f \in Files, mirror[f].body \in objects
    PROVE  mirror[f].body \in objects \ Unreferenced(keys, mirror)
BY DEF Unreferenced

\* A page that is rolled back keeps it: only bodies no row has are reclaimed.
LEMMA PageFailsStep ==
    ASSUME IInv, NEW w \in Workers, PageFails(w)
    PROVE  IInv'
<1> DEFINE written == {run[w].page.body[f] : f \in run[w].page.upserts}
<1>1. /\ objects' = objects \ Unreferenced(written, mirror) /\ Finish(w) /\ run[w].pc = "apply"
      /\ UNCHANGED <<changes, gone, body, mirror, src, cred, flows, credOf, overlapped, skipped>>
  BY DEF PageFails, provider, consent
<1>2. queue' \in 0..MaxQueue
  BY SyncAssumption DEF PageFails, IInv, Basis, TypeOK
<1>3. wedged' \in BOOLEAN /\ faults' \in 0..MaxFaults
  BY FaultType, Zenon DEF PageFails, IInv, Basis, TypeOK
<1>4. NoRun \in Tasks /\ Moves(w, NoRun) /\ NoRun.pc = "idle"
  BY <1>1, FinishMoves DEF IInv, Basis
<1>5. NoRun.cursor = None /\ NoRun.page.next = 0 /\ BodiesRead(NoRun.page) /\ Log \in Nat
  BY BasisFacts DEF NoRun, NoPage, IInv, BodiesRead
<1>6. Lawful(w, NoRun)
  BY <1>1, <1>2, <1>3, <1>4, <1>5, BasisFacts, QuietLawful DEF IInv
<1>7. Undisturbed => \A f \in Files : mirror[f].present => mirror[f].body \in objects'
  BY <1>1, UnreferencedCanGo DEF Undisturbed, Backed
<1>8. Knows(NoRun, Exists, src.cursor, src.resync, mirror, objects', changes, gone)
  BY <1>4 DEF Knows
<1> QED BY <1>1, <1>6, <1>7, <1>8, QuietStep DEF Active

\* _reclaim_objects keeps it: what it erases no row had when it looked, and no row since.
LEMMA ReclaimSteps ==
    ASSUME IInv, NEW w \in Workers, CheckReferences(w) \/ EraseObjects(w)
    PROVE  IInv'
<1>1. UNCHANGED <<changes, gone, body, mirror, src, cred, flows, credOf, queue, overlapped, wedged, skipped, faults>>
  BY DEF CheckReferences, EraseObjects, provider, consent, history
<1>2. run[w].keys \in SUBSET Bodies
  BY BasisFacts DEF IInv, Tasks
<1>3. ASSUME CheckReferences(w) PROVE IInv'
  <2>1. PICK k : k = Unreferenced(run[w].keys, mirror)
    OBVIOUS
  <2>2. k \in SUBSET Bodies /\ \A f \in Files : mirror[f].body \notin k
    BY <1>2, <2>1 DEF Unreferenced
  <2>3. PICK r \in Tasks : /\ Moves(w, r) /\ r.pc = "erase" /\ r.keys = k /\ r.cursor = run[w].cursor
                           /\ r.resync = run[w].resync /\ r.page = run[w].page
    <3>1. Keeps(w, "erase", k) /\ "erase" \in Pcs /\ TypeOK
      BY <1>3, <2>1 DEF CheckReferences, Keeps, Pcs, IInv, Basis
    <3> QED BY <2>2, <3>1, KeepsMoves
  <2>4. Lawful(w, r)
    BY <1>1, <1>3, <2>3, BasisFacts, QuietLawful DEF IInv, CheckReferences
  <2>5. Undisturbed => Knows(r, Exists, src.cursor, src.resync, mirror, objects, changes, gone)
    BY <1>3, <2>2, <2>3, TaskKnows DEF Knows, CheckReferences, Active
  <2> QED BY <1>1, <1>3, <2>4, <2>5, QuietStep, TaskKnows DEF CheckReferences, Active
<1>4. ASSUME EraseObjects(w) PROVE IInv'
  <2>1. PICK p : p = IF run[w].pc = "erase" THEN "ingest" ELSE "load"
    OBVIOUS
  <2>2. PICK r \in Tasks : /\ Moves(w, r) /\ r.pc = p /\ r.cursor = run[w].cursor
                           /\ r.resync = run[w].resync /\ r.page = run[w].page /\ r.failed = run[w].failed
    <3>1. Keeps(w, p, {}) /\ p \in Pcs /\ TypeOK
      BY <1>4, <2>1 DEF EraseObjects, Keeps, Pcs, IInv, Basis
    <3> QED BY <3>1, KeepsMoves
  <2>3. Lawful(w, r)
    BY <1>1, <1>4, <2>1, <2>2, BasisFacts, QuietLawful DEF IInv, EraseObjects
  <2>4. Undisturbed => Knows(r, Exists, src.cursor, src.resync, mirror, objects', changes, gone)
    BY <1>4, <2>1, <2>2, TaskKnows DEF Knows, EraseObjects, Active
  <2>5. Undisturbed => \A f \in Files : mirror[f].present => mirror[f].body \in objects'
    BY <1>4, TaskKnows DEF Knows, EraseObjects, Active
  <2> QED BY <1>1, <1>4, <2>3, <2>4, <2>5, QuietStep DEF EraseObjects, Active
<1> QED BY <1>3, <1>4

\* The baseline and the enumeration keep it: every file listed was there at the baseline.
LEMMA ListSteps ==
    ASSUME IInv, NEW w \in Workers, Baseline(w) \/ Enumerate(w)
    PROVE  IInv'
<1>1. /\ UNCHANGED <<changes, gone, body, mirror, objects, src, cred, flows, credOf, queue, overlapped,
                     wedged, skipped>>
      /\ Fault \/ faults' = faults
  BY Zenon DEF Baseline, Enumerate, provider, consent, history
<1>2. Log \in Nat
  BY BasisFacts DEF IInv
<1>3. ASSUME Baseline(w) PROVE IInv'
  <2>1. PICK r \in Tasks : /\ Moves(w, r) /\ r.pc = "list" /\ r.cursor = Log
                           /\ r.resync = run[w].resync /\ r.page = run[w].page
    BY <1>3, BaselineMoves DEF IInv, Basis
  <2>2. Lawful(w, r) /\ r.cursor # None
    BY <1>1, <1>2, <2>1, BasisFacts, QuietLawful, FaultType, SyncAssumption DEF IInv
  <2>3. Undisturbed => Knows(r, Exists, src.cursor, src.resync, mirror, objects, changes, gone)
    BY <1>3, <2>1, <2>2, TaskKnows DEF Knows, Baseline, Active
  <2> QED BY <1>1, <1>3, <2>2, <2>3, QuietStep, TaskKnows DEF Baseline, Active
<1>4. ASSUME Enumerate(w) PROVE IInv'
  <2>1. PICK S \in SUBSET (Files \ gone) : Lists(w, S)
    BY <1>4, Zenon DEF Enumerate, Lists
  <2>2. PICK r \in Tasks : /\ Moves(w, r) /\ r.pc = "replace" /\ r.cursor = run[w].cursor
                           /\ r.resync = run[w].resync /\ r.page.next = 0
                           /\ r.page.upserts = S /\ r.page.stale = (Files \ gone) \ S
                           /\ \A f \in S : r.page.version[f] = LastChange(f, Log, changes)
                           /\ \A f \in S : r.page.body[f] \in Bodies
    BY <2>1, EnumerateMoves DEF IInv, Basis
  <2>5. Lawful(w, r)
    BY <1>1, <1>2, <2>2, BasisFacts, QuietLawful, FaultType DEF IInv, BodiesRead
  <2>3. r.cursor # None => \A f \in r.page.upserts : There(f, r.page.version[f], r.cursor, changes, gone)
    BY <1>2, <2>2, BasisFacts, LastChangeIs, LastChangeGrows DEF There, IInv
  <2>4. Undisturbed => Knows(r, Exists, src.cursor, src.resync, mirror, objects, changes, gone)
    BY <1>4, <2>2, <2>3, TaskKnows DEF Knows, Enumerate, Active
  <2> QED BY <1>1, <1>4, <2>4, <2>5, QuietStep, TaskKnows DEF Enumerate, Active
<1> QED BY <1>3, <1>4

-----------------------------------------------------------------------------
(* Steps that write the row or the mirror.                                   *)

\* Writes to the row of a source that may be gone.
LEMMA WriteIs ==
    ASSUME NEW row, Write(row)
    PROVE  (Exists => src' = row) /\ (~Exists => src' = src)
BY DEF Write

\* A task that starts keeps it: if another one runs, they overlap and nothing is promised.
LEMMA StartStep ==
    ASSUME IInv, NEW w \in Workers, Start(w)
    PROVE  IInv'
<1>1. UNCHANGED <<changes, gone, body, mirror, objects, cred, flows, credOf, skipped, faults>>
  BY DEF Start, provider, consent
<1>2. queue' \in 0..MaxQueue
  BY SyncAssumption DEF Start, IInv, Basis, TypeOK
<1>3. CASE ~Exists
  <2>1. UNCHANGED <<run, src, overlapped, wedged>>
    BY <1>3 DEF Start
  <2>2. Basis'
    BY <1>1, <1>2, <2>1 DEF IInv, Basis, TypeOK, WithinFeed, TrashedByOwn, NoneWhenDeleted, Exists, Log
  <2>3. Undisturbed => Undisturbed'
    BY <1>1, <2>1 DEF Undisturbed, Alone, Informed, Mirrored, Vouched, Backed, Exists
  <2> QED BY <2>1, <2>2, <2>3 DEF IInv
<1>4. CASE Exists
  <2>1. PICK r \in Tasks : /\ Moves(w, r) /\ r.pc = "token" /\ r.cursor = src.cursor
                           /\ r.resync = src.resync /\ r.page = NoPage
    BY <1>4, StartMoves DEF IInv, Basis
  <2>2. /\ src' \in Sources /\ src'.status = "syncing" /\ src'.cursor = src.cursor
        /\ src'.resync = src.resync
    BY <1>4 DEF Start, IInv, Basis, TypeOK, Sources, Statuses
  <2>3. overlapped' = (overlapped \/ \E v \in Workers \ {w} : run[v].pc # "idle") /\ wedged' = FALSE
    BY <1>4 DEF Start, Overlaps
  <2>4. r.page.next = 0 /\ BodiesRead(r.page) /\ Log \in Nat
    BY <2>1, BasisFacts DEF NoPage, BodiesRead, IInv
  <2>8. overlapped' \in BOOLEAN /\ wedged' \in BOOLEAN
    BY <2>3, Zenon
  <2>5. Lawful(w, r)
    BY <1>1, <1>2, <2>1, <2>2, <2>4, <2>8, BasisFacts DEF Lawful, IInv
  <2>6. Basis'
    BY <2>5, LawfulBasis DEF IInv
  <2>7. ASSUME ~overlapped' PROVE Undisturbed'
    <3>1. ~overlapped /\ \A v \in Workers \ {w} : run[v].pc = "idle"
      BY <2>3, <2>7
    <3>2. run'[w] = r /\ \A v \in Workers \ {w} : run'[v] = run[v]
      BY <2>1, MovesType DEF IInv, Basis
    <3>3. \A v \in Workers \ {w} : ~Active(run'[v])
      BY <3>1, <3>2 DEF Active
    <3>4. Alone'
      BY <3>3 DEF Alone
    <3>5. Knows(r, TRUE, src.cursor, src.resync, mirror, objects, changes, gone)
      BY <2>1 DEF Knows
    <3>6. Informed'
      <4>1. Exists' <=> TRUE
        BY <2>2 DEF Exists
      <4>2. Knows(r, Exists', src.cursor, src.resync, mirror, objects, changes, gone)
        BY <3>5, <4>1 DEF Knows
      <4> QED BY <1>1, <2>2, <3>2, <3>3, <4>2 DEF Informed
    <3>7. Mirrored' /\ Vouched' /\ Backed'
      BY <1>1, <1>4, <2>2, <3>1 DEF IInv, Undisturbed, Mirrored, Vouched, Backed, Exists
    <3> QED BY <3>4, <3>6, <3>7 DEF Undisturbed
  <2> QED BY <2>6, <2>7 DEF IInv
<1> QED BY <1>3, <1>4

\* A forgotten cursor keeps it: without a cursor the mirror promises nothing.
LEMMA ExpireStep ==
    ASSUME IInv, NEW w \in Workers, CursorExpires(w)
    PROVE  IInv'
<1>1. /\ UNCHANGED <<changes, gone, body, mirror, objects, cred, flows, credOf, queue, overlapped, wedged, skipped>>
      /\ faults' \in 0..MaxFaults
  BY FaultType DEF CursorExpires, provider, consent, history, IInv, Basis
<1>2. PICK r \in Tasks : Moves(w, r) /\ r.pc = "baseline" /\ SameBut(r, run[w])
  BY GotoMoves DEF CursorExpires, Pcs, IInv, Basis
<1>3. /\ src' \in Sources /\ src'.status = src.status /\ src'.resync = src.resync
      /\ src'.health = src.health
      /\ Exists => src'.cursor = None
      /\ ~Exists => src' = src
  BY DEF CursorExpires, Write, IInv, Basis, TypeOK, Sources, Cursors
<1>4. Lawful(w, r)
  BY <1>1, <1>2, <1>3, BasisFacts DEF Lawful, SameBut, IInv, Basis, NoneWhenDeleted, Exists
<1>5. Basis'
  BY <1>4, LawfulBasis DEF IInv
<1>6. ASSUME ~overlapped PROVE Undisturbed'
  <2>1. Undisturbed /\ Active(run[w]) /\ run[w].pc = "fetch"
    BY <1>6 DEF IInv, CursorExpires, Active
  <2>2. /\ Knows(run[w], Exists, src.cursor, src.resync, mirror, objects, changes, gone)
        /\ src.status # "ready"
    BY <2>1, TaskKnows
  <2>3. Exists => run[w].resync = src.resync
    BY <2>1, <2>2 DEF Knows
  <2>4. Knows(r, src'.status # "deleted", src'.cursor, src'.resync, mirror', objects', changes', gone')
    BY <1>2, <1>3, <2>3 DEF Knows, SameBut, Exists
  <2>5. Sound'
    BY <1>1, <1>3, <2>1, <2>2 DEF Sound, Undisturbed, Mirrored, Vouched, Backed, Exists
  <2> QED BY <1>3, <1>4, <2>1, <2>2, <2>4, <2>5, ActiveStep DEF IInv
<1> QED BY <1>1, <1>5, <1>6 DEF IInv

\* _fail keeps it: it only writes the status.
LEMMA FailStep ==
    ASSUME IInv, NEW w \in Workers, Fail(w)
    PROVE  IInv'
<1>1. UNCHANGED <<changes, gone, body, mirror, objects, cred, flows, credOf, queue, overlapped, wedged, skipped, faults>>
  BY DEF Fail, provider, consent, history
<1>2. NoRun \in Tasks /\ Moves(w, NoRun) /\ NoRun.pc = "idle"
  BY FinishMoves DEF Fail, IInv, Basis
<1>3. NoRun.cursor = None /\ NoRun.page.next = 0 /\ BodiesRead(NoRun.page) /\ Log \in Nat
  BY BasisFacts DEF NoRun, NoPage, IInv, BodiesRead
<1>4. /\ src' \in Sources /\ src'.cursor = src.cursor /\ src'.resync = src.resync
      /\ (src'.status = "deleted") <=> (src.status = "deleted")
      /\ src'.status # "ready"
  BY DEF Fail, Write, Exists, IInv, Basis, TypeOK, Sources, Statuses
<1>5. Lawful(w, NoRun)
  BY <1>1, <1>2, <1>3, <1>4, BasisFacts DEF Lawful, IInv, Basis, NoneWhenDeleted, Exists
<1>6. Basis'
  BY <1>5, LawfulBasis DEF IInv
<1>7. \A v \in Workers : Active(run'[v]) => run'[v] = run[v]
  BY <1>2, MovesType DEF Active, IInv, Basis
<1>8. Undisturbed => Undisturbed'
  BY <1>1, <1>4, <1>7, AsideStep DEF IInv
<1> QED BY <1>1, <1>6, <1>8 DEF IInv

\* The row a page leaves of a file.
AppliedRow(p, h) ==
    IF h \in p.deleted THEN NoDoc
    ELSE IF h \in p.upserts
    THEN [present |-> TRUE, version |-> p.version[h], fresh |-> TRUE,
          ready |-> FALSE, body |-> p.body[h]]
    ELSE IF h \in p.stale \/ ~p.complete THEN [mirror[h] EXCEPT !.fresh = FALSE]
    ELSE mirror[h]

\* The rows a page leaves are typed.
LEMMA AppliedType ==
    ASSUME TypeOK, NEW p \in Pages
    PROVE  /\ Applied(p) \in [Files -> Docs]
           /\ \A f \in Files : Applied(p)[f] = AppliedRow(p, f)
<1>1. Applied(p) = [h \in Files |-> AppliedRow(p, h)]
  BY DEF Applied, AppliedRow
<1>2. \A h \in Files : mirror[h] \in Docs
  BY DEF TypeOK
<1>3. \A h \in Files : AppliedRow(p, h) \in Docs
  BY <1>2, EmptyTypes DEF Docs, Pages, AppliedRow
<1> QED BY <1>1, <1>3

\* The rows a page leaves, field by field.
LEMMA AppliedIs ==
    ASSUME TypeOK, NEW p \in Pages, NEW f \in Files
    PROVE  /\ f \in p.deleted => ~Applied(p)[f].present
           /\ f \in p.upserts \ p.deleted =>
                 /\ Applied(p)[f].present /\ Applied(p)[f].version = p.version[f]
                 /\ Applied(p)[f].body = p.body[f]
           /\ f \notin p.deleted \cup p.upserts =>
                 /\ Applied(p)[f].present = mirror[f].present
                 /\ Applied(p)[f].version = mirror[f].version
                 /\ Applied(p)[f].body = mirror[f].body
                 /\ Applied(p)[f].fresh => mirror[f].fresh /\ f \notin p.stale
<1>1. Applied(p)[f] = AppliedRow(p, f) /\ mirror[f] \in Docs
  BY AppliedType DEF TypeOK
<1>2. CASE f \in p.deleted
  <2>1. Applied(p)[f] = NoDoc
    BY <1>1, <1>2 DEF AppliedRow
  <2>2. NoDoc.present = FALSE
    BY DEF NoDoc
  <2> QED BY <1>2, <2>1, <2>2
<1>3. CASE f \in p.upserts \ p.deleted
  <2>1. PICK row : row = [present |-> TRUE, version |-> p.version[f], fresh |-> TRUE,
                          ready |-> FALSE, body |-> p.body[f]]
    OBVIOUS
  <2>2. Applied(p)[f] = row
    BY <1>1, <1>3, <2>1 DEF AppliedRow
  <2>3. row.present = TRUE /\ row.version = p.version[f] /\ row.body = p.body[f]
    BY <2>1
  <2> QED BY <1>3, <2>2, <2>3
<1>4. CASE f \notin p.deleted \cup p.upserts
  BY <1>1, <1>4 DEF AppliedRow, Docs
<1> QED BY <1>2, <1>3, <1>4

\* The commit of a page keeps it: what was true of the mirror up to the old cursor is
\* true up to the page's end.
LEMMA ApplyStep ==
    ASSUME IInv, NEW w \in Workers, ApplyPage(w)
    PROVE  IInv'
<1> DEFINE page == run[w].page
           written == {page.body[f] : f \in page.upserts}
           dropped == {mirror[f].body : f \in page.deleted \cup page.upserts} \ {None}
<1>1. /\ UNCHANGED <<changes, gone, body, objects, cred, flows, credOf, queue, overlapped, wedged, skipped, faults>>
      /\ run[w].pc = "apply" /\ Exists /\ mirror' = Applied(page) /\ src' = Advance(page)
      /\ Keeps(w, "check", dropped \ written)
  BY DEF ApplyPage, provider, consent, history, Keeps
<1>2. page \in Pages /\ page.next \in 0..Log /\ BodiesRead(page) /\ TypeOK /\ src \in Sources
      /\ Log \in Nat /\ Log <= MaxLog
  BY BasisFacts DEF IInv
<1>3. dropped \ written \in SUBSET Bodies
  BY <1>2 DEF TypeOK, Docs, Pages
<1>4. PICK r \in Tasks : /\ Moves(w, r) /\ r.pc = "check" /\ r.cursor = run[w].cursor
                         /\ r.resync = run[w].resync /\ r.page = page /\ r.failed = run[w].failed
  BY <1>1, <1>2, <1>3, KeepsMoves DEF Pcs
<1> HIDE DEF page, written, dropped
<1>5. /\ src' \in Sources /\ src'.status = src.status /\ src'.health = src.health
      /\ page.complete => src'.cursor = page.next /\ src'.resync = src.resync
      /\ ~page.complete => src'.cursor = src.cursor /\ src'.resync
  BY <1>1, <1>2, SyncAssumption DEF Advance, Sources, Cursors, Pages
<1>6. mirror' \in [Files -> Docs]
  BY <1>1, <1>2, AppliedType
<1>7. Lawful(w, r)
  BY <1>1, <1>2, <1>4, <1>5, <1>6, BasisFacts DEF Lawful, IInv, Exists
<1>8. Basis'
  BY <1>7, LawfulBasis DEF IInv
<1>9. ASSUME ~overlapped PROVE Undisturbed'
  <2>1. Undisturbed /\ Active(run[w])
    BY <1>1, <1>9 DEF IInv, Active
  <2>2. /\ Knows(run[w], Exists, src.cursor, src.resync, mirror, objects, changes, gone)
        /\ src.status # "ready" /\ \A f \in Files : mirror[f].present => mirror[f].body \in objects
    BY <2>1, TaskKnows
  <2>3. /\ run[w].cursor # None /\ PageIsRead(page, run[w].cursor, changes, gone)
        /\ src.cursor = run[w].cursor /\ ~src.resync /\ ~run[w].resync
        /\ \A f \in page.upserts : page.body[f] \in objects
    BY <1>1, <2>2 DEF Knows, page
  <2>4. Knows(r, src'.status # "deleted", src'.cursor, src'.resync, mirror', objects', changes', gone')
    BY <1>4, <1>5, <2>3 DEF Knows
  <2>5. Backed'
    <3> SUFFICES ASSUME NEW f \in Files, mirror'[f].present PROVE mirror'[f].body \in objects
      BY <1>1 DEF Backed
    <3> QED BY <1>1, <1>2, <2>2, <2>3, AppliedIs
  <2>6. Mirrored'
    <3>1. CASE ~page.complete
      BY <1>5, <3>1 DEF Mirrored
    <3>2. CASE page.complete
      <4>1. Follows(src.cursor, mirror, skipped, changes, gone)
        BY <1>1, <2>1, <2>3 DEF Undisturbed, Mirrored
      <4> SUFFICES ASSUME NEW f \in Files
                   PROVE  IF mirror'[f].present
                          THEN /\ mirror'[f].fresh => mirror'[f].version >= LastChange(f, page.next, changes)
                               /\ f \in gone => LastChange(f, Len(changes), changes) > page.next
                          ELSE \/ f \in gone
                               \/ skipped[f] # None /\ ~OwnIn(f, skipped[f], page.next, changes)
        BY <1>1, <1>5, <3>2 DEF Mirrored, Follows
      <4>2. page.next \in Nat /\ src.cursor \in Nat /\ src.cursor <= page.next /\ Len(changes) \in Nat
        BY <1>2, <2>3, BasisFacts DEF PageIsRead, IInv, Log
      <4>3. /\ LastChange(f, page.next, changes) \in Nat /\ LastChange(f, src.cursor, changes) \in Nat
            /\ LastChange(f, Len(changes), changes) \in Nat
        BY <4>2, LastChangeIs
      <4>4. CASE f \in page.deleted
        BY <1>1, <1>2, <2>3, <4>4, AppliedIs DEF PageIsRead
      <4>5. CASE f \in page.upserts \ page.deleted
        BY <1>1, <1>2, <2>3, <4>5, AppliedIs DEF PageIsRead, There
      <4>6. CASE f \notin page.upserts \cup page.deleted
        <5>1. /\ mirror'[f].present = mirror[f].present /\ mirror'[f].version = mirror[f].version
              /\ mirror'[f].fresh => mirror[f].fresh /\ f \notin page.stale
          BY <1>1, <1>2, <4>6, AppliedIs
        <5>2. /\ f \in gone => \/ LastChange(f, Len(changes), changes) <= src.cursor
                               \/ LastChange(f, Len(changes), changes) > page.next
              /\ f \notin page.stale => LastChange(f, page.next, changes) <= LastChange(f, src.cursor, changes)
          BY <2>3, <3>2, <4>6 DEF PageIsRead
        <5>3. mirror[f].version \in Nat /\ (skipped[f] # None => skipped[f] \in Nat)
          BY <1>2 DEF TypeOK, Docs, Cursors
        <5>4. ~OwnIn(f, src.cursor, page.next, changes)
          BY <2>3, <3>2, <4>6 DEF PageIsRead
        <5>5. skipped[f] # None /\ ~OwnIn(f, skipped[f], src.cursor, changes)
                 => ~OwnIn(f, skipped[f], page.next, changes)
          BY <4>2, <5>3, <5>4 DEF OwnIn
        <5> QED BY <4>1, <4>2, <4>3, <5>1, <5>2, <5>3, <5>5 DEF Follows
      <4> QED BY <4>4, <4>5, <4>6
    <3> QED BY <3>1, <3>2
  <2>7. Vouched'
    BY <1>5, <2>2 DEF Vouched
  <2> QED BY <1>5, <1>7, <2>1, <2>2, <2>4, <2>5, <2>6, <2>7, ActiveStep DEF IInv, Sound
<1> QED BY <1>1, <1>8, <1>9 DEF IInv

\* The ingestion of a page keeps it: only readiness changes.
LEMMA IngestStep ==
    ASSUME IInv, NEW w \in Workers, IngestPage(w)
    PROVE  IInv'
<1>1. /\ UNCHANGED <<changes, gone, body, objects, src, cred, flows, credOf, queue, overlapped, wedged, skipped>>
      /\ run[w].pc = "ingest"
  BY DEF IngestPage, provider, consent, history
<1>2. PICK bad : /\ Fault \/ faults' = faults
                 /\ mirror' = [f \in Files |-> IF f \in run[w].page.upserts \ bad /\ mirror[f].present
                                               THEN [mirror[f] EXCEPT !.ready = TRUE] ELSE mirror[f]]
  BY Zenon DEF IngestPage
<1>3. \A f \in Files : mirror[f] \in Docs
  BY DEF IInv, Basis, TypeOK
<1>4. \A f \in Files :
         /\ mirror'[f] \in Docs /\ mirror'[f].present = mirror[f].present
         /\ mirror'[f].fresh = mirror[f].fresh /\ mirror'[f].version = mirror[f].version
         /\ mirror'[f].body = mirror[f].body
  BY <1>2, <1>3 DEF Docs
<1>5. mirror' \in [Files -> Docs]
  BY <1>2, <1>4
<1>6. PICK r \in Tasks : /\ Moves(w, r) /\ r.cursor = run[w].page.next /\ r.resync = run[w].resync
                         /\ r.page.complete = run[w].page.complete /\ r.page.next = 0
                         /\ r.page.upserts = {}
                         /\ r.pc = IF ~run[w].page.complete \/ run[w].page.next = Log
                                   THEN "finalize" ELSE "fetch"
  BY IngestMoves DEF IInv, Basis
<1>7. /\ r.cursor \in 0..Log /\ r.cursor # None /\ Log \in Nat
  BY <1>6, BasisFacts, SyncAssumption DEF IInv
<1>8. Lawful(w, r)
  BY <1>1, <1>2, <1>4, <1>5, <1>6, <1>7, BasisFacts, FaultType
     DEF Lawful, IInv, Basis, NoneWhenDeleted, Exists, BodiesRead
<1>9. Basis'
  BY <1>8, LawfulBasis DEF IInv
<1>10. ASSUME ~overlapped PROVE Undisturbed'
  <2>1. Undisturbed /\ Active(run[w])
    BY <1>1, <1>10 DEF IInv, Active
  <2>2. /\ Knows(run[w], Exists, src.cursor, src.resync, mirror, objects, changes, gone)
        /\ src.status # "ready"
    BY <2>1, TaskKnows
  <2>3. /\ ~run[w].resync
        /\ Exists /\ run[w].page.complete => src.cursor = run[w].page.next /\ ~src.resync
    BY <1>1, <2>2 DEF Knows
  <2>4. r.resync \in BOOLEAN /\ src.resync \in BOOLEAN
    BY BasisFacts DEF IInv, Tasks, Sources
  <2>5. Knows(r, src'.status # "deleted", src'.cursor, src'.resync, mirror', objects', changes', gone')
    BY <1>1, <1>6, <1>7, <2>2, <2>3, <2>4 DEF Knows, Exists
  <2>6. Sound'
    BY <1>1, <1>4, <2>1, <2>2 DEF Sound, Undisturbed, Mirrored, Follows, Vouched, Backed, Exists
  <2> QED BY <1>1, <1>8, <2>1, <2>2, <2>5, <2>6, ActiveStep DEF IInv
<1> QED BY <1>1, <1>9, <1>10 DEF IInv

\* The last transaction of an incremental sync keeps it: READY only if all is vouched for.
LEMMA FinalizeStep ==
    ASSUME IInv, NEW w \in Workers, FinalizeIncremental(w)
    PROVE  IInv'
<1>1. /\ UNCHANGED <<changes, gone, body, mirror, objects, cred, flows, credOf, queue, overlapped, wedged, skipped, faults>>
      /\ run[w].pc = "finalize" /\ Finish(w)
  BY DEF FinalizeIncremental, provider, consent, history
<1>2. NoRun \in Tasks /\ Moves(w, NoRun) /\ NoRun.pc = "idle"
  BY <1>1, FinishMoves DEF IInv, Basis
<1>3. NoRun.cursor = None /\ NoRun.page.next = 0 /\ BodiesRead(NoRun.page) /\ Log \in Nat
  BY BasisFacts DEF NoRun, NoPage, IInv, BodiesRead
<1>4. /\ src' \in Sources /\ src'.cursor = src.cursor
      /\ (src'.status = "deleted") <=> (src.status = "deleted")
      /\ src'.resync = FALSE => src.resync = FALSE
      /\ src'.status = "ready" =>
            /\ src'.health /\ src'.resync = src.resync /\ run[w].page.complete /\ Exists
            /\ \A f \in Files : mirror[f].present => mirror[f].fresh /\ mirror[f].ready
  <2>1. src \in Sources
    BY BasisFacts DEF IInv
  <2>2. CASE ~Exists
    BY <2>1, <2>2 DEF FinalizeIncremental, Write, Exists
  <2>3. CASE Exists /\ \E f \in Present : ~mirror[f].ready
    BY <2>1, <2>3 DEF FinalizeIncremental, Write, Exists, Sources, Statuses
  <2>4. CASE Exists /\ ~(\E f \in Present : ~mirror[f].ready) /\ Recovered(w)
    <3>1. src' = [src EXCEPT !.status = "ready", !.health = TRUE]
      BY <2>4 DEF FinalizeIncremental, Write
    <3>2. run[w].page.complete /\ \A f \in Files : mirror[f].present => mirror[f].fresh /\ mirror[f].ready
      BY <2>4 DEF Recovered, Present
    <3> QED BY <2>1, <2>4, <3>1, <3>2 DEF Exists, Sources, Statuses
  <2>5. CASE Exists /\ ~(\E f \in Present : ~mirror[f].ready) /\ ~Recovered(w)
    BY <2>1, <2>5 DEF FinalizeIncremental, Write, Exists, Sources, Statuses
  <2> QED BY <2>2, <2>3, <2>4, <2>5
<1>5. Lawful(w, NoRun)
  BY <1>1, <1>2, <1>3, <1>4, BasisFacts DEF Lawful, IInv, Basis, NoneWhenDeleted, Exists
<1>6. Basis'
  BY <1>5, LawfulBasis DEF IInv
<1>7. ASSUME ~overlapped PROVE Undisturbed'
  <2>1. Undisturbed /\ Active(run[w])
    BY <1>1, <1>7 DEF IInv, Active
  <2>2. Exists /\ run[w].page.complete => ~src.resync
    BY <1>1, <2>1, TaskKnows DEF Knows
  <2>3. src.resync \in BOOLEAN /\ src'.resync \in BOOLEAN
    BY <1>4, BasisFacts DEF IInv, Sources
  <2>4. Mirrored' /\ Backed'
    BY <1>1, <1>4, <2>1, <2>3 DEF Undisturbed, Mirrored, Backed, Exists
  <2>5. Vouched'
    BY <1>1, <1>4, <2>2, <2>3 DEF Vouched
  <2> QED BY <1>2, <1>5, <2>1, <2>4, <2>5, ActiveStep DEF IInv, Sound, Active
<1> QED BY <1>1, <1>6, <1>7 DEF IInv

\* The deletion of the old documents keeps it: the row demands a full sync meanwhile.
LEMMA DeletePriorStep ==
    ASSUME IInv, NEW w \in Workers, DeletePrior(w)
    PROVE  IInv'
<1> DEFINE k == {mirror[f].body : f \in Files} \ {None}
<1>1. /\ UNCHANGED <<changes, gone, body, objects, src, cred, flows, credOf, queue, overlapped, wedged, skipped, faults>>
      /\ run[w].pc = "replace" /\ mirror' = [f \in Files |-> NoDoc] /\ Keeps(w, "clear", k)
  BY DEF DeletePrior, provider, consent, history, Keeps
<1>2. k \in SUBSET Bodies
  BY DEF IInv, Basis, TypeOK, Docs
<1>3. PICK r \in Tasks : /\ Moves(w, r) /\ r.pc = "clear" /\ r.cursor = run[w].cursor
                         /\ r.resync = run[w].resync /\ r.page = run[w].page /\ r.failed = run[w].failed
  BY <1>1, <1>2, KeepsMoves DEF Pcs, IInv, Basis
<1> HIDE DEF k
<1>4. mirror' \in [Files -> Docs] /\ \A f \in Files : ~mirror'[f].present
  BY <1>1, EmptyTypes DEF NoDoc
<1>5. Lawful(w, r)
  BY <1>1, <1>3, <1>4, BasisFacts DEF Lawful, IInv
<1>6. Basis'
  BY <1>5, LawfulBasis DEF IInv
<1>7. ASSUME ~overlapped PROVE Undisturbed'
  <2>1. Undisturbed /\ Active(run[w])
    BY <1>1, <1>7 DEF IInv, Active
  <2>2. /\ Knows(run[w], Exists, src.cursor, src.resync, mirror, objects, changes, gone)
        /\ src.status # "ready"
    BY <2>1, TaskKnows
  <2>3. Knows(r, Exists, src.cursor, src.resync, mirror', objects, changes, gone)
    BY <1>1, <1>3, <1>4, <2>2 DEF Knows
  <2>4. Knows(r, src'.status # "deleted", src'.cursor, src'.resync, mirror', objects', changes', gone')
    BY <1>1, <2>3 DEF Exists
  <2>5. Exists => src.cursor = None \/ src.resync
    BY <1>1, <2>2 DEF Knows
  <2>6. Sound'
    BY <1>1, <1>4, <2>2, <2>5 DEF Sound, Mirrored, Vouched, Backed, Exists
  <2> QED BY <1>1, <1>5, <2>1, <2>2, <2>4, <2>6, ActiveStep DEF IInv
<1> QED BY <1>1, <1>6, <1>7 DEF IInv

\* _ingest_one keeps it: a file is on the list, trashed or mirrored.
LEMMA LoadStep ==
    ASSUME IInv, NEW w \in Workers, NEW f \in Files, IngestOne(w, f)
    PROVE  IInv'
<1>1. /\ UNCHANGED <<changes, gone, body, src, cred, flows, credOf, queue, overlapped, wedged, skipped>>
      /\ run[w].pc = "load" /\ f \in run[w].page.upserts
      /\ objects' = objects \cup {run[w].page.body[f]}
  BY DEF IngestOne, provider, consent, history
<1>2. PICK ready \in BOOLEAN :
         /\ Fault \/ faults' = faults
         /\ mirror' = IF Exists
                      THEN [mirror EXCEPT ![f] = [present |-> TRUE, version |-> run[w].page.version[f],
                                                  fresh |-> TRUE, ready |-> ready,
                                                  body |-> run[w].page.body[f]]]
                      ELSE mirror
         /\ Loads(w, f, ready)
  BY Zenon DEF IngestOne, Loads
<1>3. PICK r \in Tasks : /\ Moves(w, r) /\ r.pc = "load" /\ r.cursor = run[w].cursor
                         /\ r.resync = run[w].resync /\ r.page.next = run[w].page.next
                         /\ r.page.upserts = run[w].page.upserts \ {f}
                         /\ r.page.stale = run[w].page.stale
                         /\ \A h \in Files \ {f} : /\ r.page.version[h] = run[w].page.version[h]
                                                   /\ r.page.body[h] = run[w].page.body[h]
                         /\ r.failed = (run[w].failed \/ ~ready \/ ~Exists)
  BY <1>1, <1>2, LoadMoves DEF IInv, Basis
<1>4. /\ run[w].page \in Pages /\ run[w].page.body[f] \in Bodies /\ run[w].page.upserts \in SUBSET Files
  BY <1>1, BasisFacts DEF IInv, BodiesRead, Pages
<1>5. PICK d : d = [present |-> TRUE, version |-> run[w].page.version[f], fresh |-> TRUE,
                    ready |-> ready, body |-> run[w].page.body[f]]
  OBVIOUS
<1>6. /\ d \in Docs /\ d.present = TRUE /\ d.version = run[w].page.version[f] /\ d.fresh = TRUE
      /\ d.ready = ready /\ d.body = run[w].page.body[f]
  BY <1>4, <1>5 DEF Docs, Pages
<1>7. /\ mirror' \in [Files -> Docs] /\ \A h \in Files \ {f} : mirror'[h] = mirror[h]
      /\ mirror'[f] = IF Exists THEN d ELSE mirror[f]
  BY <1>2, <1>5, <1>6 DEF IInv, Basis, TypeOK
<1>8. BodiesRead(r.page)
  BY <1>3, <1>4, BasisFacts DEF BodiesRead, IInv
<1>9. Lawful(w, r)
  BY <1>1, <1>2, <1>3, <1>4, <1>7, <1>8, BasisFacts, FaultType
     DEF Lawful, IInv, Basis, NoneWhenDeleted, Exists
<1>10. Basis'
  BY <1>9, LawfulBasis DEF IInv
<1>11. ASSUME ~overlapped PROVE Undisturbed'
  <2>1. Undisturbed /\ Active(run[w])
    BY <1>1, <1>11 DEF IInv, Active
  <2>2. /\ Knows(run[w], Exists, src.cursor, src.resync, mirror, objects, changes, gone)
        /\ src.status # "ready" /\ \A h \in Files : mirror[h].present => mirror[h].body \in objects
    BY <2>1, TaskKnows
  <2>3. Knows(r, Exists, src.cursor, src.resync, mirror', objects', changes, gone)
    <3>1. /\ Exists => (src.cursor = None \/ src.resync) /\ r.resync = src.resync
          /\ r.cursor # None
      BY <1>1, <1>3, <2>2 DEF Knows
    <3>2. \A h \in r.page.upserts : There(h, r.page.version[h], r.cursor, changes, gone)
      BY <1>1, <1>3, <1>4, <2>2 DEF Knows
    <3>3. ASSUME NEW h \in Files
          PROVE  /\ Exists => \/ h \in r.page.upserts \/ h \in gone
                              \/ h \in r.page.stale \/ mirror'[h].present
                 /\ mirror'[h].present => /\ mirror'[h].fresh /\ (mirror'[h].ready \/ r.failed)
                                          /\ There(h, mirror'[h].version, r.cursor, changes, gone)
      <4>1. CASE h # f
        BY <1>1, <1>3, <1>7, <2>2, <4>1 DEF Knows
      <4>2. CASE h = f /\ Exists
        BY <1>1, <1>3, <1>6, <1>7, <2>2, <4>2 DEF Knows
      <4>3. CASE h = f /\ ~Exists
        BY <1>1, <1>3, <1>7, <2>2, <4>3 DEF Knows
      <4> QED BY <4>1, <4>2, <4>3
    <3> QED BY <1>3, <3>1, <3>2, <3>3 DEF Knows
  <2>4. Knows(r, src'.status # "deleted", src'.cursor, src'.resync, mirror', objects', changes', gone')
    BY <1>1, <2>3 DEF Exists
  <2>5. Exists => src.cursor = None \/ src.resync
    BY <1>1, <2>2 DEF Knows
  <2>6. Backed'
    BY <1>1, <1>6, <1>7, <2>2 DEF Backed
  <2>7. Sound'
    BY <1>1, <2>2, <2>5, <2>6 DEF Sound, Mirrored, Vouched, Exists
  <2> QED BY <1>1, <1>9, <2>1, <2>2, <2>4, <2>7, ActiveStep DEF IInv
<1> QED BY <1>1, <1>10, <1>11 DEF IInv

\* The end of a full sync keeps it: with the list empty, the mirror is that of the baseline.
LEMMA FinishFullStep ==
    ASSUME IInv, NEW w \in Workers, FinishFull(w)
    PROVE  IInv'
<1>1. /\ UNCHANGED <<changes, gone, body, mirror, objects, cred, flows, credOf, queue, overlapped, wedged, faults>>
      /\ run[w].pc = "load" /\ run[w].page.upserts = {}
  BY DEF FinishFull, provider, consent
<1>2. CASE run[w].failed
  <2>1. PICK r \in Tasks : Moves(w, r) /\ r.pc = "fail" /\ SameBut(r, run[w])
    BY <1>2, GotoMoves DEF FinishFull, Pcs, IInv, Basis
  <2>2. src' = src /\ skipped' = skipped
    BY <1>2 DEF FinishFull
  <2>3. Lawful(w, r)
    BY <1>1, <2>1, <2>2, BasisFacts, QuietLawful DEF IInv, SameBut
  <2> QED BY <1>1, <2>1, <2>2, <2>3, EndingStep DEF Active
<1>3. CASE ~run[w].failed
  <2>1. NoRun \in Tasks /\ Moves(w, NoRun) /\ NoRun.pc = "idle"
    BY <1>3, FinishMoves DEF FinishFull, IInv, Basis
  <2>2. NoRun.cursor = None /\ NoRun.page.next = 0 /\ BodiesRead(NoRun.page) /\ Log \in Nat
    BY BasisFacts DEF NoRun, NoPage, IInv, BodiesRead
  <2>3. src \in Sources /\ run[w].cursor \in Cursors /\ run[w].resync \in BOOLEAN
    BY BasisFacts DEF IInv, Tasks
  <2>4. PICK q : q = (src.resync /\ ~run[w].resync)
    OBVIOUS
  <2>5. q \in BOOLEAN
    BY <2>4
  <2>6. Write([src EXCEPT !.status = "ready", !.cursor = run[w].cursor, !.health = TRUE, !.resync = q])
    <3>1. Write([src EXCEPT !.status = "ready", !.cursor = run[w].cursor, !.health = TRUE,
                            !.resync = src.resync /\ ~run[w].resync])
      BY <1>3, <2>3 DEF FinishFull, Write, Sources
    <3> QED BY <2>4, <3>1, Zenon
  <2>7. /\ src' \in Sources
        /\ Exists => /\ src'.status = "ready" /\ src'.cursor = run[w].cursor /\ src'.health = TRUE
                     /\ src'.resync = q
        /\ ~Exists => src' = src
    BY <2>3, <2>5, <2>6 DEF Write, Sources, Statuses
  <2>11. /\ skipped' \in [Files -> Cursors]
         /\ Exists => \A f \in run[w].page.stale \cap Files : skipped'[f] = run[w].cursor
    BY <1>3, <2>3, BasisFacts DEF FinishFull, SkippedBy, Cursors, IInv
  <2>8. Lawful(w, NoRun)
    BY <1>1, <2>1, <2>2, <2>7, <2>11, BasisFacts DEF Lawful, IInv, Basis, NoneWhenDeleted, Exists
  <2>9. Basis'
    BY <2>8, LawfulBasis DEF IInv
  <2>10. ASSUME ~overlapped PROVE Undisturbed'
    <3>1. Undisturbed /\ Active(run[w])
      BY <1>1, <2>10 DEF IInv, Active
    <3>2. Knows(run[w], Exists, src.cursor, src.resync, mirror, objects, changes, gone)
      BY <3>1, TaskKnows
    <3>3. /\ Exists => run[w].resync = src.resync
          /\ run[w].cursor # None
          /\ \A f \in Files : /\ Exists => f \in gone \/ f \in run[w].page.stale \/ mirror[f].present
                              /\ mirror[f].present => /\ mirror[f].fresh /\ mirror[f].ready
                                                      /\ There(f, mirror[f].version, run[w].cursor, changes, gone)
      BY <1>1, <1>3, <3>2 DEF Knows
    <3>8. \A f : ~OwnIn(f, run[w].cursor, run[w].cursor, changes)
      <4>1. run[w].cursor \in Nat
        BY <3>3, BasisFacts DEF IInv
      <4> QED BY <4>1 DEF OwnIn
    <3>4. Exists => Follows(run[w].cursor, mirror, skipped', changes, gone)
      BY <2>11, <3>3, <3>8 DEF Follows, There
    <3>5. Exists => ~q
      BY <2>4, <3>3
    <3>6. Mirrored' /\ Backed'
      BY <1>1, <2>7, <3>1, <3>4 DEF Undisturbed, Mirrored, Backed, Exists
    <3>7. Vouched'
      BY <1>1, <2>7, <3>3, <3>5 DEF Vouched, Exists
    <3> QED BY <2>1, <2>8, <3>1, <3>6, <3>7, ActiveStep DEF IInv, Sound, Active
  <2> QED BY <1>1, <2>9, <2>10 DEF IInv
<1> QED BY <1>2, <1>3

-----------------------------------------------------------------------------
(* The provider, the requests and the poll.                                  *)

\* What a task knows, and what the mirror owes, outlives a change at the provider.
LEMMA ChangeStep ==
    ASSUME IInv, Change
    PROVE  IInv'
<1>1. UNCHANGED <<mirror, objects, src, cred, flows, credOf, queue, run, overlapped, wedged, skipped, faults>>
  BY DEF Change, consent, history
<1>2. TypeOK' /\ TypeOK
  BY RequestType DEF IInv, Basis
<1>3. Follow(changes, gone, changes', gone')
  <2>1. \A f \in Files : LET e == [files |-> {f}, folder |-> FALSE]
                         IN  e \in ChangeRecords /\ e.files = {f} /\ ~e.folder
    BY DEF ChangeRecords
  <2>2. LET e == [files |-> Folder \ gone, folder |-> TRUE]
        IN  e \in ChangeRecords /\ e.files = Folder \ gone
    BY SyncAssumption DEF ChangeRecords
  <2>3. PICK e \in ChangeRecords :
           /\ changes' = Append(changes, e) /\ e.files \cap gone = {}
           /\ \/ gone' = gone
              \/ \E f \in Files : gone' = gone \cup {f} /\ e.files = {f} /\ ~e.folder
    <3>1. CASE \E f \in Files \ gone : changes' = Append(changes, [files |-> {f}, folder |-> FALSE]) /\ gone' = gone
      BY <2>1, <3>1
    <3>2. CASE changes' = Append(changes, [files |-> Folder \ gone, folder |-> TRUE]) /\ gone' = gone
      BY <2>2, <3>2
    <3>3. CASE \E f \in Files \ gone : /\ changes' = Append(changes, [files |-> {f}, folder |-> FALSE])
                                       /\ gone' = gone \cup {f}
      BY <2>1, <3>3
    <3> QED BY <3>1, <3>2, <3>3, Zenon DEF Change
  <2>4. changes \in Seq(ChangeRecords) /\ gone \in SUBSET Files
    BY <1>2 DEF TypeOK
  <2> QED BY <2>3, <2>4, AppendFollows
<1>4. Len(changes) \in Nat /\ Len(changes') = Len(changes) + 1 /\ gone \subseteq gone' /\ gone' \subseteq Files
  BY <1>2, <1>3 DEF Follow, TypeOK
<1>5. \A f \in Files, n \in 0..Len(changes) : LastChange(f, n, changes') = LastChange(f, n, changes)
  BY <1>3 DEF Follow
<1>6. \A f \in gone' : \/ f \in gone /\ LastChange(f, Len(changes'), changes') = LastChange(f, Len(changes), changes)
                       \/ f \notin gone /\ LastChange(f, Len(changes'), changes') = Len(changes')
  BY <1>3 DEF Follow
<1>7. WithinFeed'
  <2>1. src.cursor # None => src.cursor \in 0..Len(changes)
    BY <1>2, <1>4, SyncAssumption DEF IInv, Basis, WithinFeed, Log, TypeOK, Sources, Cursors
  <2>2. ASSUME NEW w \in Workers
        PROVE  /\ run[w].cursor # None => run[w].cursor \in 0..Len(changes)
               /\ run[w].page.next \in 0..Len(changes) /\ BodiesRead(run[w].page)
               /\ run[w].pc = "fetch" => run[w].cursor # None
    BY BasisFacts DEF IInv, Log
  <2> QED BY <1>1, <1>4, <2>1, <2>2 DEF WithinFeed, Log
<1>8. TrashedByOwn(changes', gone')
  <2> SUFFICES ASSUME NEW f \in gone'
               PROVE  /\ LastChange(f, Len(changes'), changes') > 0
                      /\ ~changes'[LastChange(f, Len(changes'), changes')].folder
    BY DEF TrashedByOwn
  <2>1. CASE f \in gone
    <3>1. PICK i : i = LastChange(f, Len(changes), changes)
      OBVIOUS
    <3>2. i \in 1..Len(changes) /\ ~changes[i].folder
      BY <1>4, <2>1, <3>1, LastChangeIs DEF IInv, Basis, TrashedByOwn
    <3>3. changes'[i] = changes[i] /\ LastChange(f, Len(changes'), changes') = i
      BY <1>3, <2>1, <3>1, <3>2 DEF Follow
    <3> QED BY <1>4, <3>2, <3>3
  <2>2. CASE f \notin gone
    BY <1>3, <1>4, <2>2 DEF Follow
  <2> QED BY <2>1, <2>2
<1>9. NoneWhenDeleted'
  BY <1>1 DEF IInv, Basis, NoneWhenDeleted, Exists
<1>10. ASSUME NEW f \in Files, NEW v, NEW c \in 0..Len(changes), There(f, v, c, changes, gone)
       PROVE  There(f, v, c, changes', gone')
  BY <1>4, <1>5, <1>6, <1>10 DEF There
<1>13. ASSUME NEW f \in Files, NEW c \in Nat, NEW n \in 0..Len(changes), ~OwnIn(f, c, n, changes)
       PROVE  ~OwnIn(f, c, n, changes')
  <2>1. \A i \in 1..Len(changes) : changes'[i] = changes[i]
    BY <1>3 DEF Follow
  <2>2. \A i \in c + 1..n : i \in 1..Len(changes)
    BY <1>4
  <2> QED BY <1>13, <2>1, <2>2 DEF OwnIn
<1>11. ASSUME NEW p \in Pages, NEW c \in 0..Len(changes), p.next \in 0..Len(changes),
              PageIsRead(p, c, changes, gone)
       PROVE  PageIsRead(p, c, changes', gone')
  <2>1. c <= p.next /\ p.deleted \subseteq gone' /\ p.upserts \subseteq Files
    BY <1>4, <1>11 DEF PageIsRead, Pages
  <2>2. \A f \in p.upserts : There(f, p.version[f], p.next, changes', gone')
    BY <1>10, <1>11, <2>1 DEF PageIsRead
  <2>3. ASSUME p.complete, NEW f \in Files \ (p.upserts \cup p.deleted)
        PROVE  /\ f \in gone' => \/ LastChange(f, Len(changes'), changes') <= c
                                 \/ LastChange(f, Len(changes'), changes') > p.next
               /\ f \notin p.stale => LastChange(f, p.next, changes') <= LastChange(f, c, changes')
               /\ ~OwnIn(f, c, p.next, changes')
    <3>1. ~OwnIn(f, c, p.next, changes')
      BY <1>11, <1>13, <2>3 DEF PageIsRead
    <3> QED BY <1>4, <1>5, <1>6, <1>11, <2>3, <3>1 DEF PageIsRead
  <2> QED BY <2>1, <2>2, <2>3 DEF PageIsRead
<1>12. ASSUME Undisturbed PROVE Undisturbed'
  <2>1. Alone' /\ Vouched' /\ Backed'
    BY <1>1, <1>12 DEF Undisturbed, Alone, Vouched, Backed
  <2>2. Mirrored'
    <3>1. src.cursor # None => src.cursor \in 0..Len(changes)
      BY <1>2, SyncAssumption DEF IInv, Basis, WithinFeed, Log, TypeOK, Sources, Cursors
    <3>2. \A f \in Files : skipped[f] # None => skipped[f] \in Nat
      BY <1>2 DEF TypeOK, Cursors
    <3>3. ASSUME NEW f \in Files, src.cursor # None, skipped[f] # None, ~OwnIn(f, skipped[f], src.cursor, changes)
          PROVE  ~OwnIn(f, skipped[f], src.cursor, changes')
      BY <1>13, <3>1, <3>2, <3>3
    <3> SUFFICES ASSUME Exists, src.cursor # None, ~src.resync
                 PROVE  Follows(src.cursor, mirror, skipped, changes', gone')
      BY <1>1 DEF Mirrored, Exists
    <3>4. Follows(src.cursor, mirror, skipped, changes, gone)
      BY <1>12 DEF Undisturbed, Mirrored
    <3> QED BY <1>4, <1>5, <1>6, <3>1, <3>3, <3>4 DEF Follows
  <2>3. ASSUME NEW w \in Workers, Active(run[w])
        PROVE  Knows(run[w], Exists, src.cursor, src.resync, mirror, objects, changes', gone')
    <3>1. /\ run[w].page \in Pages /\ run[w].page.next \in 0..Len(changes)
          /\ run[w].cursor # None => run[w].cursor \in 0..Len(changes)
          /\ run[w].page.upserts \subseteq Files
      BY BasisFacts DEF IInv, Log, Pages
    <3>2. Knows(run[w], Exists, src.cursor, src.resync, mirror, objects, changes, gone)
      BY <1>12, <2>3, TaskKnows
    <3>3. run[w].pc \in {"put", "apply"} => PageIsRead(run[w].page, run[w].cursor, changes', gone')
      BY <1>11, <3>1, <3>2 DEF Knows
    <3>4. run[w].pc \in {"replace", "clear", "load"} =>
             \A f \in run[w].page.upserts : There(f, run[w].page.version[f], run[w].cursor, changes', gone')
      BY <1>10, <3>1, <3>2 DEF Knows
    <3>5. run[w].pc \in {"clear", "load"} =>
             \A f \in Files : mirror[f].present => There(f, mirror[f].version, run[w].cursor, changes', gone')
      BY <1>10, <3>1, <3>2 DEF Knows
    <3> QED BY <1>4, <3>2, <3>3, <3>4, <3>5 DEF Knows
  <2>4. Informed'
    BY <1>1, <1>12, <2>3 DEF Undisturbed, Informed, Exists
  <2> QED BY <2>1, <2>2, <2>4 DEF Undisturbed
<1> QED BY <1>1, <1>2, <1>7, <1>8, <1>9, <1>12 DEF IInv, Basis

\* Deleting the source keeps it, whatever a task is doing.
LEMMA DeleteStep ==
    ASSUME IInv, DeleteSource
    PROVE  IInv'
<1>1. UNCHANGED <<changes, gone, body, flows, credOf, queue, run, overlapped, wedged, faults>>
  BY DEF DeleteSource, provider, consent
<1>2. TypeOK'
  BY RequestType DEF IInv, Basis
<1>3. \A f \in Files : ~mirror'[f].present
  BY DEF DeleteSource, NoDoc
<1>4. src'.status = "deleted" /\ src'.cursor = None /\ ~src'.resync
  BY DEF DeleteSource, IInv, Basis, TypeOK, Sources
<1>5. Basis'
  BY <1>1, <1>2, <1>3, <1>4 DEF IInv, Basis, WithinFeed, TrashedByOwn, NoneWhenDeleted, Log
<1>6. ASSUME Undisturbed PROVE Undisturbed'
  <2>1. Alone' /\ Mirrored' /\ Vouched' /\ Backed'
    BY <1>1, <1>3, <1>4, <1>6 DEF Undisturbed, Alone, Mirrored, Vouched, Backed, Exists
  <2>2. ASSUME NEW w \in Workers, Active(run[w])
        PROVE  Knows(run[w], Exists', src'.cursor, src'.resync, mirror', objects', changes, gone)
    <3>1. Knows(run[w], Exists, src.cursor, src.resync, mirror, objects, changes, gone)
      BY <1>6, <2>2, TaskKnows
    <3>2. Exists' <=> FALSE
      BY <1>4 DEF Exists
    <3> QED BY <1>3, <3>1, <3>2 DEF Knows
  <2>3. Informed'
    BY <1>1, <1>4, <2>2 DEF Informed
  <2> QED BY <2>1, <2>3 DEF Undisturbed
<1> QED BY <1>1, <1>5, <1>6 DEF IInv

\* The requests and the poll keep it: they write neither cursor nor mirror.
LEMMA RequestSteps ==
    ASSUME IInv, \/ Revoke \/ StartConnect \/ Poll \/ Resync
                 \/ \E g \in 1..MaxConnects : Callback(g)
    PROVE  IInv'
<1>1. UNCHANGED <<changes, gone, body, mirror, objects, run, overlapped, skipped>>
  BY DEF Revoke, StartConnect, Poll, Resync, Callback, provider, history
<1>2. TypeOK'
  BY RequestType DEF IInv, Basis
<1>3. /\ src'.cursor = src.cursor /\ src'.resync = src.resync
      /\ (src'.status = "deleted") <=> (src.status = "deleted")
      /\ src'.status = "ready" => src.status = "ready" /\ src'.health = src.health
  <2>1. src \in Sources
    BY DEF IInv, Basis, TypeOK
  <2>2. CASE Revoke \/ Poll
    BY <2>2 DEF Revoke, Poll
  <2>3. CASE StartConnect
    BY <2>1, <2>3 DEF StartConnect, Sources
  <2>4. CASE Resync
    BY <2>1, <2>4 DEF Resync, Sources
  <2>5. ASSUME NEW g \in 1..MaxConnects, Callback(g)
        PROVE  src' = src \/ (Exists /\ src' = [src EXCEPT !.status = "pending"])
    BY <2>5 DEF Callback, Connected, CallbackFails
  <2>6. CASE src' = src \/ (Exists /\ src' = [src EXCEPT !.status = "pending"])
    BY <2>1, <2>6 DEF Sources, Exists
  <2> QED BY <2>2, <2>3, <2>4, <2>5, <2>6
<1>4. Basis'
  BY <1>1, <1>2, <1>3 DEF IInv, Basis, WithinFeed, TrashedByOwn, NoneWhenDeleted, Log, Exists
<1>5. ASSUME Undisturbed PROVE Undisturbed'
  <2>1. Alone' /\ Mirrored' /\ Vouched' /\ Backed'
    BY <1>1, <1>3, <1>5 DEF Undisturbed, Alone, Mirrored, Vouched, Backed, Exists
  <2>2. ASSUME NEW w \in Workers, Active(run[w])
        PROVE  Knows(run[w], Exists', src.cursor, src.resync, mirror, objects, changes, gone)
    <3>1. Knows(run[w], Exists, src.cursor, src.resync, mirror, objects, changes, gone)
      BY <1>5, <2>2, TaskKnows
    <3>2. Exists' <=> Exists
      BY <1>3 DEF Exists
    <3> QED BY <3>1, <3>2 DEF Knows
  <2>3. Informed'
    BY <1>1, <1>3, <1>5, <2>2, TaskKnows DEF Informed
  <2> QED BY <2>1, <2>3 DEF Undisturbed
<1> QED BY <1>1, <1>4, <1>5 DEF IInv

-----------------------------------------------------------------------------
(* The theorems.                                                             *)

\* Every step keeps the invariant.
LEMMA StepHolds == IInv /\ [Next]_vars => IInv'
<1> SUFFICES ASSUME IInv, [Next]_vars PROVE IInv'
  OBVIOUS
<1>1. CASE UNCHANGED vars
  BY <1>1 DEF vars, IInv, Basis, TypeOK, WithinFeed, TrashedByOwn, NoneWhenDeleted, Log, Exists,
              Undisturbed, Alone, Informed, Mirrored, Vouched, Backed
<1>2. CASE Change
  BY <1>2, ChangeStep
<1>3. CASE DeleteSource
  BY <1>3, DeleteStep
<1>4. CASE Revoke \/ StartConnect \/ Poll \/ Resync \/ \E g \in 1..MaxConnects : Callback(g)
  BY <1>4, RequestSteps
<1>5. ASSUME NEW w \in Workers, TaskStep(w) PROVE IInv'
  BY <1>5, TokenStep, FetchStep, PutStep, ApplyStep, PageFailsStep, ReclaimSteps, IngestStep,
     FinalizeStep, ListSteps, DeletePriorStep, FinishFullStep, FailStep, LoadStep DEF TaskStep
<1>6. ASSUME NEW w \in Workers, Start(w) \/ ContractFails(w) \/ Crash(w) \/ CursorExpires(w)
                                   \/ FetchFails(w) \/ TaskRaises(w)
      PROVE  IInv'
  BY <1>6, StartStep, FetchFailsStep, ContractFailsStep, LossSteps, ExpireStep
<1> QED BY <1>1, <1>2, <1>3, <1>4, <1>5, <1>6 DEF Next

\* The invariant holds in every reachable state.
LEMMA InvariantHolds == Spec => []IInv
<1> QED BY InitHolds, StepHolds, PTL DEF Spec

\* Between any two steps of a sync, and whatever the provider, the requests, faults and
\* crashes do meanwhile, the mirror follows the cursor, a READY source vouches for all
\* of it, and its rows have their bytes, unless two tasks of the source overlapped:
\* for any files, feed and number of faults.
THEOREM MirrorSound == Spec => []MirrorIsSound
<1>1. IInv => MirrorIsSound
  <2> SUFFICES ASSUME IInv PROVE MirrorIsSound
    OBVIOUS
  <2>1. TypeOK
    BY DEF IInv, Basis
  <2>2. MirrorFollowsCursor
    <3>1. \A f, c, n : OwnChange(f, c, n) <=> OwnIn(f, c, n, changes)
      BY DEF OwnChange, OwnIn
    <3> QED BY <3>1, VersionIs DEF IInv, Undisturbed, Mirrored, Follows, MirrorFollowsCursor, Log
  <2>3. ReadyIsFresh
    BY DEF IInv, Undisturbed, Vouched, ReadyIsFresh, Present
  <2>4. RowsHaveBytes
    BY DEF IInv, Undisturbed, Backed, RowsHaveBytes, Present
  <2> QED BY <2>1, <2>2, <2>3, <2>4 DEF MirrorIsSound
<1> QED BY <1>1, InvariantHolds, PTL

\* Unless two tasks of the source overlapped there is one task at most, and its row says
\* SYNCING until it is about to fail.
Solitary == \A v, w \in Workers : run[v].pc # "idle" /\ run[w].pc # "idle" => v = w
Announced == \A w \in Workers : Active(run[w]) /\ Exists => src.status = "syncing"
\* The grant is of a flow begun no later than the last, and the flow that stored it is used up.
Ordered == credOf <= src.gen /\ (credOf = src.gen /\ credOf # 0 => ~flows[src.gen])
GrantInv == Ordered /\ (~overlapped => Solitary /\ Announced)

\* What a step of a task leaves alone.
TaskKeeps(w) ==
    /\ run[w].pc # "idle" /\ \A v \in Workers \ {w} : run'[v] = run[v]
    /\ UNCHANGED <<overlapped, flows, credOf>> /\ src'.gen = src.gen
    /\ Active(run'[w]) => Active(run[w]) /\ src'.status = src.status

\* A step that rewrites one task keeps the others.
LEMMA OthersStay ==
    ASSUME TypeOK, NEW w \in Workers, Finish(w) \/ \E p : Goto(w, p)
    PROVE  /\ \A v \in Workers \ {w} : run'[v] = run[v]
           /\ Finish(w) => run'[w].pc = "idle"
           /\ \A p : Goto(w, p) => run'[w].pc = p
BY DEF Finish, Goto, TypeOK, Tasks, NoRun

\* Writing the row of a source keeps its generation if the new row does.
LEMMA WriteKeeps ==
    ASSUME TypeOK, NEW row, Write(row), row.gen = src.gen
    PROVE  src'.gen = src.gen
BY DEF Write

\* The steps of a task that end in READY or ERROR.
LEMMA EndsKeep ==
    ASSUME TypeOK, NEW w \in Workers, FinalizeIncremental(w) \/ FinishFull(w) \/ Fail(w)
    PROVE  TaskKeeps(w)
<1>1. src \in Sources /\ src.gen = src.gen
  BY DEF TypeOK
<1>2. CASE Fail(w)
  <2>1. src'.gen = src.gen
    BY <1>1, <1>2 DEF Fail, Write, Sources
  <2> QED BY <1>2, <2>1, OthersStay DEF Fail, TaskKeeps, Active, consent, history
<1>3. CASE FinalizeIncremental(w)
  <2>1. src'.gen = src.gen
    BY <1>1, <1>3 DEF FinalizeIncremental, Write, Sources
  <2> QED BY <1>3, <2>1, OthersStay DEF FinalizeIncremental, TaskKeeps, Active, consent, history
<1>4. CASE FinishFull(w)
  <2>1. src'.gen = src.gen
    BY <1>1, <1>4 DEF FinishFull, Write, Sources
  <2> QED BY <1>4, <2>1, OthersStay DEF FinishFull, TaskKeeps, Active, consent
<1> QED BY <1>2, <1>3, <1>4

\* Every other step of a task.
LEMMA StepsKeep ==
    ASSUME TypeOK, NEW w \in Workers, TaskStep(w) \/ CursorExpires(w) \/ FetchFails(w)
    PROVE  TaskKeeps(w)
<1>1. ASSUME Token(w) \/ FetchFails(w) \/ Put(w) PROVE TaskKeeps(w)
  <2>1. PICK p : Goto(w, p) /\ (run[w].pc = "put" => p = "apply")
    BY <1>1, Zenon DEF Token, FetchFails, Put
  <2>2. /\ src' = src /\ UNCHANGED <<overlapped, flows, credOf>>
        /\ run[w].pc \in {"token", "fetch", "baseline", "list", "put"}
    BY <1>1 DEF Token, FetchFails, Put, consent, history
  <2> QED BY <2>1, <2>2, OthersStay DEF TaskKeeps, Active
<1>2. CASE CursorExpires(w)
  <2>1. src'.gen = src.gen /\ src'.status = src.status
    BY <1>2 DEF CursorExpires, Write, TypeOK, Sources
  <2> QED BY <1>2, <2>1, OthersStay DEF CursorExpires, TaskKeeps, Active, consent, history
<1>3. ASSUME FetchPage(w) \/ CheckReferences(w) \/ EraseObjects(w) \/ IngestPage(w) \/ Baseline(w)
             \/ Enumerate(w) \/ DeletePrior(w)
      PROVE  TaskKeeps(w)
  <2>1. /\ src' = src /\ UNCHANGED <<overlapped, flows, credOf>> /\ Active(run[w]) /\ run[w].pc # "idle"
    BY <1>3 DEF FetchPage, CheckReferences, EraseObjects, IngestPage, Baseline, Enumerate, DeletePrior,
                consent, history, Active
  <2>2. \E r : run' = [run EXCEPT ![w] = r]
    BY <1>3 DEF FetchPage, CheckReferences, EraseObjects, IngestPage, Baseline, Enumerate, DeletePrior
  <2>3. \A v \in Workers \ {w} : run'[v] = run[v]
    BY <2>2 DEF TypeOK
  <2> QED BY <2>1, <2>3 DEF TaskKeeps
<1>4. CASE ApplyPage(w)
  <2>1. src'.gen = src.gen /\ src'.status = src.status
    BY <1>4 DEF ApplyPage, Advance, TypeOK, Sources
  <2>2. \A v \in Workers \ {w} : run'[v] = run[v]
    BY <1>4 DEF ApplyPage, TypeOK
  <2> QED BY <1>4, <2>1, <2>2 DEF ApplyPage, TaskKeeps, Active, consent, history
<1>5. CASE PageFails(w)
  BY <1>5, OthersStay DEF PageFails, TaskKeeps, Active, consent
<1>6. ASSUME NEW f \in Files, IngestOne(w, f) PROVE TaskKeeps(w)
  <2>1. \A v \in Workers \ {w} : run'[v] = run[v]
    <3>1. \E r : run' = [run EXCEPT ![w] = r]
      BY <1>6 DEF IngestOne
    <3> QED BY <3>1 DEF TypeOK
  <2> QED BY <1>6, <2>1 DEF IngestOne, TaskKeeps, Active, consent, history
<1> QED BY <1>1, <1>2, <1>3, <1>4, <1>5, <1>6, EndsKeep DEF TaskStep

\* A step of a task keeps the order of the grants and the one task's status.
LEMMA TaskGrant ==
    ASSUME TypeOK, GrantInv, NEW w \in Workers, TaskKeeps(w)
    PROVE  GrantInv'
<1>1. Ordered'
  BY DEF GrantInv, Ordered, TaskKeeps
<1>2. ASSUME ~overlapped PROVE Solitary' /\ Announced'
  <2>1. \A v \in Workers \ {w} : run'[v].pc = "idle"
    BY <1>2 DEF GrantInv, Solitary, TaskKeeps
  <2> QED BY <1>2, <2>1 DEF GrantInv, Solitary, Announced, Active, TaskKeeps, Exists
<1> QED BY <1>1, <1>2 DEF GrantInv, TaskKeeps

\* Every step keeps the order of the grants and the one task's status.
LEMMA GrantStep == TypeOK /\ TypeOK' /\ GrantInv /\ [Next]_vars => GrantInv'
<1> SUFFICES ASSUME TypeOK, TypeOK', GrantInv, [Next]_vars PROVE GrantInv'
  OBVIOUS
<1>1. CASE UNCHANGED vars \/ Change \/ Revoke \/ Poll
  BY <1>1 DEF vars, Change, Revoke, Poll, consent, history, GrantInv, Ordered, Solitary, Announced, Active, Exists
<1>2. CASE StartConnect
  <2>1. src.gen \in Nat /\ src'.gen = src.gen + 1 /\ src'.status = src.status /\ credOf \in Nat
    BY <1>2 DEF StartConnect, TypeOK, Sources
  <2>2. Ordered'
    BY <1>2, <2>1 DEF StartConnect, GrantInv, Ordered
  <2> QED BY <1>2, <2>1, <2>2 DEF StartConnect, history, GrantInv, Solitary, Announced, Active, Exists
<1>3. CASE Resync
  <2>1. src'.gen = src.gen /\ src'.status = "syncing"
    BY <1>3 DEF Resync, TypeOK, Sources
  <2> QED BY <1>3, <2>1 DEF Resync, consent, GrantInv, Ordered, Solitary, Announced
<1>4. CASE DeleteSource
  <2>1. src'.gen = src.gen /\ src'.status = "deleted"
    BY <1>4 DEF DeleteSource, TypeOK, Sources
  <2> QED BY <1>4, <2>1 DEF DeleteSource, consent, GrantInv, Ordered, Solitary, Announced, Exists
<1>5. ASSUME NEW g \in 1..MaxConnects, Callback(g) PROVE GrantInv'
  <2>1. flows' = [flows EXCEPT ![g] = FALSE] /\ run' = run /\ overlapped' = overlapped
    BY <1>5 DEF Callback
  <2>2. CASE CallbackFails
    <3>1. Ordered'
      BY <2>1, <2>2 DEF CallbackFails, GrantInv, Ordered, TypeOK
    <3> QED BY <2>1, <2>2, <3>1 DEF CallbackFails, GrantInv, Solitary, Announced, Exists
  <2>3. CASE Connected(g)
    <3>1. src'.gen = src.gen /\ src.gen = g /\ credOf' = g /\ src.status # "syncing" /\ Exists /\ g \in Nat
      BY <2>3, SyncAssumption DEF Connected, TypeOK, Sources
    <3>2. ~flows'[g]
      BY <2>1 DEF TypeOK
    <3>3. Ordered'
      BY <3>1, <3>2 DEF Ordered
    <3>4. ~overlapped => Solitary' /\ Announced'
      BY <2>1, <3>1 DEF GrantInv, Solitary, Announced
    <3> QED BY <2>1, <3>3, <3>4 DEF GrantInv
  <2> QED BY <1>5, <2>2, <2>3 DEF Callback
<1>6. ASSUME NEW w \in Workers, Start(w) \/ ContractFails(w) PROVE GrantInv'
  <2>1. Ordered'
    BY <1>6 DEF Start, ContractFails, consent, GrantInv, Ordered, TypeOK, Sources
  <2>2. CASE Start(w) /\ ~Exists
    BY <2>1, <2>2 DEF Start, GrantInv, Solitary, Announced, Exists
  <2>3. CASE (Start(w) /\ Exists) \/ ContractFails(w)
    <3>1. overlapped' = (overlapped \/ \E v \in Workers \ {w} : run[v].pc # "idle")
      BY <2>3, Zenon DEF Start, ContractFails, Overlaps
    <3>2. /\ \A v \in Workers \ {w} : run'[v] = run[v]
          /\ run'[w].pc = "fail" \/ src'.status = "syncing"
      BY <2>3, OthersStay DEF Start, ContractFails, TypeOK, Sources
    <3>3. ASSUME ~overlapped' PROVE Solitary' /\ Announced'
      <4>1. \A v \in Workers \ {w} : run'[v].pc = "idle"
        BY <3>1, <3>2, <3>3
      <4> QED BY <3>2, <4>1 DEF Solitary, Announced, Active
    <3> QED BY <2>1, <3>3 DEF GrantInv
  <2> QED BY <1>6, <2>2, <2>3
<1>7. ASSUME NEW w \in Workers, Crash(w) \/ TaskRaises(w) PROVE GrantInv'
  <2>1. UNCHANGED <<src, flows, credOf, overlapped>> /\ (Finish(w) \/ run' = run)
    BY <1>7 DEF Crash, TaskRaises, consent, history
  <2>2. \A v \in Workers : run'[v] = run[v] \/ run'[v].pc = "idle"
    BY <2>1, OthersStay
  <2> QED BY <2>1, <2>2 DEF GrantInv, Ordered, Solitary, Announced, Active, Exists
<1>8. ASSUME NEW w \in Workers, TaskStep(w) \/ CursorExpires(w) \/ FetchFails(w) PROVE GrantInv'
  BY <1>8, StepsKeep, TaskGrant
<1> QED BY <1>1, <1>2, <1>3, <1>4, <1>5, <1>6, <1>7, <1>8 DEF Next

\* A consent flow never stores its grant under a task that may read it, nor over the grant
\* of a flow begun later, however late its callback comes.
THEOREM GrantsAreOrdered == Spec => GrantChangesAtRest
<1>1. Init => GrantInv
  BY DEF Init, GrantInv, Ordered, Solitary, Announced, Active, NoRun
<1>2. IInv => TypeOK
  BY DEF IInv, Basis
<1>3. IInv /\ IInv' /\ GrantInv /\ [Next]_vars => GrantInv'
  BY <1>2, GrantStep DEF IInv, Basis
<1>4. TypeOK /\ GrantInv /\ [Next]_vars =>
         [credOf' # credOf => /\ credOf' > credOf
                              /\ overlapped \/ \A w \in Workers : run[w].pc \in {"idle", "fail"}]_vars
  <2> SUFFICES ASSUME TypeOK, GrantInv, Next, credOf' # credOf
               PROVE  /\ credOf' > credOf
                      /\ overlapped \/ \A w \in Workers : run[w].pc \in {"idle", "fail"}
    BY DEF vars
  <2>1. PICK g \in 1..MaxConnects : Callback(g)
    <3>1. ~(Change \/ Revoke \/ StartConnect \/ Poll \/ Resync \/ DeleteSource)
      BY DEF Change, Revoke, StartConnect, Poll, Resync, DeleteSource, consent
    <3>2. \A w \in Workers : ~(TaskStep(w) \/ CursorExpires(w) \/ FetchFails(w))
      BY StepsKeep DEF TaskKeeps
    <3>3. \A w \in Workers : ~(Start(w) \/ ContractFails(w) \/ Crash(w) \/ TaskRaises(w))
      BY DEF Start, ContractFails, Crash, TaskRaises, consent
    <3> QED BY <3>1, <3>2, <3>3, Zenon DEF Next
  <2>2. /\ flows[g] /\ src.gen = g /\ credOf' = g /\ src.status # "syncing" /\ Exists
    BY <2>1 DEF Callback, Connected, CallbackFails
  <2>3. credOf < g
    <3>1. credOf \in Nat /\ g \in Nat /\ g # 0
      BY SyncAssumption DEF TypeOK
    <3> QED BY <2>2, <3>1 DEF GrantInv, Ordered
  <2>4. credOf \in Nat /\ g \in Nat
    BY SyncAssumption DEF TypeOK
  <2>5. overlapped \/ \A w \in Workers : run[w].pc \in {"idle", "fail"}
    BY <2>2 DEF GrantInv, Announced, Active
  <2> QED BY <2>2, <2>3, <2>4, <2>5
<1> QED BY <1>1, <1>2, <1>3, <1>4, InvariantHolds, PTL DEF Spec, GrantChangesAtRest

-----------------------------------------------------------------------------
(* The stream of a model call.  The filter's stack names every tag that is    *)
(* open at the end of the text (TagsHeld), what it holds back is a marker that *)
(* may still become one (PendingForm), and ordinary text is published or held  *)
(* (TextHeld).                                                                *)

\* The words of ReasoningNeverShown about any text.
SecondIn(txt, a) ==
    \E r \in 1..a - 1 :
        /\ r % 2 = 1 /\ \A n \in a - r..a : txt[n].kind = "start"
        /\ a - r > 1 => txt[a - r - 1].kind # "start"
MarkerIn(txt, a, b, kind) ==
    /\ txt[a].kind = "start" /\ txt[b].kind = kind /\ ~SecondIn(txt, a)
    /\ \A n \in a + 1..b - 1 : txt[n].kind = "part"
OpenAt(txt, b) == \E a \in 1..b - 1 : MarkerIn(txt, a, b, "open")
Unclosed(txt, b, n) == \A c \in b + 1..n : ~(txt[c].kind = "close" /\ txt[c].tag = txt[b].tag)
InsideIn(txt, n) == \E b \in 1..n - 1 : OpenAt(txt, b) /\ Unclosed(txt, b, n - 1)
MayShow(txt, n) == ~InsideIn(txt, n) /\ ~(txt[n].kind = "rest" /\ n > 1 /\ txt[n - 1].kind = "half")
OrdinaryIn(txt) == \A n \in 1..Len(txt) : txt[n].kind \in {"word", "start", "half"}

Guards == [pending : Seq(Nat), stack : Seq(Tags), sentinel : Nat, discard : BOOLEAN]

PendingForm(g, txt) ==
    LET s == Len(g.pending) n == Len(txt) IN
    /\ s <= n /\ \A i \in 1..s : g.pending[i] = n - s + i
    /\ s > 0 => txt[g.pending[1]].kind = "start" /\ ~SecondIn(txt, g.pending[1])
    /\ \A i \in 2..s : txt[g.pending[i]].kind = "part" \/ (i = 2 /\ txt[g.pending[i]].kind = "start")
    /\ s = 0 => n = 0 \/ txt[n].kind \notin {"start", "part"}
TagsHeld(g, txt) ==
    \A b \in 1..Len(txt) :
        OpenAt(txt, b) /\ Unclosed(txt, b, Len(txt)) => \E k \in 1..Len(g.stack) : g.stack[k] = txt[b].tag
HalfHeld(g, txt) ==
    g.stack = <<>> /\ Len(txt) > 0 /\ txt[Len(txt)].kind = "half" => g.sentinel = Len(txt)
SentinelForm(g, txt) ==
    g.sentinel # 0 => g.sentinel <= Len(txt) /\ txt[g.sentinel].kind = "half" /\ ~InsideIn(txt, g.sentinel)
GuardForm(g, txt) ==
    /\ g \in Guards /\ Len(g.stack) <= MaxNesting
    /\ \A i \in 1..Len(g.pending) : g.pending[i] \in 1..Len(txt)
    /\ SentinelForm(g, txt)
    /\ g.discard \/ (PendingForm(g, txt) /\ TagsHeld(g, txt) /\ HalfHeld(g, txt))

\* What is published may be.
Shown(txt, out) == \A k \in 1..Len(out) : out[k] \in 1..Len(txt) /\ MayShow(txt, out[k])
\* What is held back of ordinary text.
Hold(n) == IF n = 0 THEN <<>> ELSE <<n>>
Held(g) == Hold(g.sentinel) \o g.pending
Whole(n) == [i \in 1..n |-> i]
TextHeld(g, txt, out) == OrdinaryIn(txt) => ~g.discard /\ g.stack = <<>> /\ out \o Held(g) = Whole(Len(txt))

CallTypes ==
    /\ call \in {"idle", "requested", "streaming", "closing", "done", "failed"}
    /\ reason \in Reasons \cup {"none", "cut"} /\ response \in {"none", "open", "closed", "lost"} /\ torn \in BOOLEAN
    /\ text \in Seq(TextPieces) /\ Len(text) <= MaxPieces /\ published \in Seq(Nat)
FilterInv ==
    /\ GuardForm(guard, text) /\ Shown(text, published)
    /\ call = "idle" => ContinuationSafe(guard)
    /\ call \in {"idle", "requested", "streaming"} => TextHeld(guard, text, published)
    /\ call \in {"closing", "done"} =>
          /\ OrdinaryIn(text) /\ reason # "cut" /\ Len(guard.pending) <= 1 => published = Whole(Len(text))
          /\ reason = "length" => ContinuationSafe(guard)
ToolsInv ==
    /\ fragments \in [ToolIndexes -> 0..2] /\ signals \in 0..1
    /\ acc = [i \in ToolIndexes |-> [k \in 1..fragments[i] |-> i]]
    /\ IsFiniteSet({i \in ToolIndexes : fragments[i] > 0})
    /\ (\E i \in ToolIndexes : fragments[i] > 0) => signals = 1
    /\ builtCalls = IF call = "done" THEN Built ELSE <<>>
SpansInv ==
    /\ spans \in Seq({"open", "ok", "failed", "abandoned"}) /\ Len(spans) <= MaxModelCalls
    /\ torn => call = "failed"
    /\ call \in {"requested", "streaming", "closing"} => Len(spans) > 0
    /\ \A k \in 1..Len(spans) : spans[k] = "open" =>
          torn \/ (k = Len(spans) /\ call \in {"requested", "streaming", "closing"})
    /\ call \in {"idle", "requested"} => response = "none"
    /\ call \in {"done", "failed"} /\ ~torn => response # "open"
GatewayInv == CallTypes /\ FilterInv /\ ToolsInv /\ SpansInv

-----------------------------------------------------------------------------
\* What is said of a text up to a place is said of every text that begins so.
LEMMA TextsAgree ==
    ASSUME NEW txt, NEW new, NEW n \in Nat, \A i \in 1..n : new[i] = txt[i]
    PROVE  /\ \A a \in 1..n : SecondIn(new, a) <=> SecondIn(txt, a)
           /\ \A b \in 1..n : OpenAt(new, b) <=> OpenAt(txt, b)
           /\ \A b \in 1..n, m \in 0..n : Unclosed(new, b, m) <=> Unclosed(txt, b, m)
           /\ \A m \in 1..n + 1 : InsideIn(new, m) <=> InsideIn(txt, m)
           /\ \A m \in 1..n : MayShow(new, m) <=> MayShow(txt, m)
<1>1. ASSUME NEW a \in 1..n PROVE SecondIn(new, a) <=> SecondIn(txt, a)
  <2>1. \A r \in 1..a - 1 : /\ \A k \in a - r..a : new[k] = txt[k]
                            /\ a - r > 1 => new[a - r - 1] = txt[a - r - 1]
    <3> TAKE r \in 1..a - 1
    <3>1. \A k \in a - r..a : k \in 1..n
      OBVIOUS
    <3>2. a - r > 1 => a - r - 1 \in 1..n
      OBVIOUS
    <3> QED BY <3>1, <3>2
  <2> QED BY <2>1 DEF SecondIn
<1>2. ASSUME NEW b \in 1..n PROVE OpenAt(new, b) <=> OpenAt(txt, b)
  <2>1. \A a \in 1..b - 1 : a \in 1..n /\ \A k \in a + 1..b - 1 : k \in 1..n
    OBVIOUS
  <2>2. \A a \in 1..b - 1 : MarkerIn(new, a, b, "open") <=> MarkerIn(txt, a, b, "open")
    BY <1>1, <2>1 DEF MarkerIn
  <2> QED BY <2>2 DEF OpenAt
<1>3. ASSUME NEW b \in 1..n, NEW m \in 0..n PROVE Unclosed(new, b, m) <=> Unclosed(txt, b, m)
  <2>1. \A c \in b + 1..m : c \in 1..n
    OBVIOUS
  <2> QED BY <2>1 DEF Unclosed
<1>4. ASSUME NEW m \in 1..n + 1 PROVE InsideIn(new, m) <=> InsideIn(txt, m)
  <2>1. m - 1 \in 0..n /\ \A b \in 1..m - 1 : b \in 1..n
    OBVIOUS
  <2> QED BY <1>2, <1>3, <2>1 DEF InsideIn
<1>5. ASSUME NEW m \in 1..n PROVE MayShow(new, m) <=> MayShow(txt, m)
  <2>1. m \in 1..n + 1 /\ (m > 1 => m - 1 \in 1..n)
    OBVIOUS
  <2> QED BY <1>4, <2>1 DEF MayShow
<1> QED BY <1>1, <1>2, <1>3, <1>4, <1>5

\* Of a run of starts every second one is a second: the one after one that is not,
\* and not the one after that.
LEMMA AfterFirst ==
    ASSUME NEW txt, NEW s \in Nat \ {0}, txt[s].kind = "start", ~SecondIn(txt, s), txt[s + 1].kind = "start"
    PROVE  SecondIn(txt, s + 1)
<1> DEFINE T == {m \in Nat : m \in 1..s /\ \A k \in m..s : txt[k].kind = "start"}
<1>1. s \in T
  OBVIOUS
<1>2. T \in SUBSET Nat /\ T # {}
  BY <1>1
<1>3. PICK m \in T : \A y \in T : m <= y
  <2> HIDE DEF T
  <2> QED BY <1>2, LeastOfSet
<1>4. m \in 1..s /\ m \in Nat /\ \A k \in m..s : txt[k].kind = "start"
  BY <1>3
<1>5. m > 1 => txt[m - 1].kind # "start"
  <2> SUFFICES ASSUME m > 1, txt[m - 1].kind = "start" PROVE FALSE
    OBVIOUS
  <2>1. m - 1 \in 1..s /\ m - 1 \in Nat /\ ~(m <= m - 1)
    BY <1>4
  <2>2. \A k \in m - 1..s : k = m - 1 \/ k \in m..s
    BY <1>4
  <2>3. m - 1 \in T
    BY <1>4, <2>1, <2>2
  <2> QED BY <1>3, <2>1, <2>3
<1>6. PICK r \in Nat : r = s - m
  <2>1. s - m \in Nat
    BY <1>4
  <2> QED BY <2>1
<1>7. r % 2 # 1
  <2> SUFFICES ASSUME r % 2 = 1 PROVE FALSE
    OBVIOUS
  <2>1. r # 0
    OBVIOUS
  <2>2. r \in 1..s - 1 /\ s - r = m
    BY <1>4, <1>6, <2>1
  <2> QED BY <1>4, <1>5, <2>2 DEF SecondIn
<1>8. (r + 1) % 2 = 1
  BY <1>7
<1>9. r + 1 \in 1..(s + 1) - 1 /\ (s + 1) - (r + 1) = m
  BY <1>4, <1>6
<1>10. \A k \in m..s + 1 : txt[k].kind = "start"
  <2>1. \A k \in m..s + 1 : k \in m..s \/ k = s + 1
    BY <1>4
  <2> QED BY <1>4, <2>1
<1> QED BY <1>5, <1>8, <1>9, <1>10 DEF SecondIn

\* Nothing that follows a piece that is no start, or a second one, is a second.
LEMMA FirstAgain ==
    ASSUME NEW txt, NEW n \in Nat, n > 0,
           \/ txt[n].kind # "start"
           \/ n > 1 /\ txt[n - 1].kind = "start" /\ ~SecondIn(txt, n - 1)
    PROVE  ~SecondIn(txt, n + 1)
<1> SUFFICES ASSUME NEW r \in 1..(n + 1) - 1, r % 2 = 1, \A k \in (n + 1) - r..n + 1 : txt[k].kind = "start",
                    (n + 1) - r > 1 => txt[(n + 1) - r - 1].kind # "start"
             PROVE  FALSE
  BY DEF SecondIn
<1>1. n \in (n + 1) - r..n + 1
  OBVIOUS
<1>2. n > 1 /\ txt[n - 1].kind = "start" /\ ~SecondIn(txt, n - 1)
  BY <1>1
<1>3. CASE r = 1
  <2>1. (n + 1) - r > 1 /\ (n + 1) - r - 1 = n - 1
    BY <1>2, <1>3
  <2> QED BY <1>2, <2>1
<1>4. CASE r = 2
  BY <1>4
<1>5. CASE r > 2
  <2>1. r - 2 \in Nat /\ r - 2 \in 1..(n - 1) - 1 /\ (n - 1) - (r - 2) = (n + 1) - r
    BY <1>5
  <2>2. (r - 2) % 2 = 1
    BY <1>5
  <2>3. \A k \in (n + 1) - r..n - 1 : k \in (n + 1) - r..n + 1
    OBVIOUS
  <2>4. SecondIn(txt, n - 1)
    BY <2>1, <2>2, <2>3 DEF SecondIn
  <2> QED BY <1>2, <2>4
<1> QED BY <1>3, <1>4, <1>5

-----------------------------------------------------------------------------
\* What the filter does with one piece of ordinary text (VisibleOne).
Streams == [guard : Guards, out : Seq(Nat)]

\* What is held back of a control sentence is at most one piece.
LEMMA HoldIs == ASSUME NEW n \in Nat PROVE Hold(n) \in Seq(Nat) /\ Len(Hold(n)) \in 0..1 /\ (n = 0 => Hold(n) = <<>>)
BY DEF Hold

\* v is what the filter makes of st with the piece n of that kind.
VisibleStep(st, n, kind, v) ==
    /\ v \in Streams /\ v.guard.pending = st.guard.pending /\ v.guard.stack = st.guard.stack
    /\ st.guard.discard => v = st
    /\ ~st.guard.discard /\ kind = "half" =>
          v.guard.sentinel = n /\ ~v.guard.discard /\ v.out = st.out \o Hold(st.guard.sentinel)
    /\ ~st.guard.discard /\ kind = "rest" /\ st.guard.sentinel # 0 =>
          v.guard.sentinel = 0 /\ v.guard.discard /\ v.out = st.out
    /\ ~st.guard.discard /\ kind # "half" /\ ~(kind = "rest" /\ st.guard.sentinel # 0) =>
          v.guard.sentinel = 0 /\ ~v.guard.discard /\ v.out = Append(st.out \o Hold(st.guard.sentinel), n)

\* That is what VisibleOne computes.
LEMMA VisibleIs ==
    ASSUME NEW st \in Streams, NEW n \in Nat, NEW kind
    PROVE  VisibleStep(st, n, kind, VisibleOne(st, n, kind))
<1>0. PICK v : v = VisibleOne(st, n, kind)
  OBVIOUS
<1> SUFFICES VisibleStep(st, n, kind, v)
  BY <1>0
<1>1. st.guard \in Guards /\ st.out \in Seq(Nat) /\ st.guard.sentinel \in Nat /\ st.guard.discard \in BOOLEAN
  BY DEF Streams, Guards
<1>2. PICK g \in Guards : g = st.guard
  BY <1>1
<1>3. PICK held : held = IF g.sentinel = 0 THEN st.out ELSE Append(st.out, g.sentinel)
  OBVIOUS
<1>4. held \in Seq(Nat) /\ held = st.out \o Hold(g.sentinel)
  <2>1. CASE g.sentinel = 0
    BY <1>1, <1>2, <1>3, <2>1 DEF Hold
  <2>2. CASE g.sentinel # 0
    <3>1. held = Append(st.out, g.sentinel) /\ Hold(g.sentinel) = <<g.sentinel>>
      BY <1>3, <2>2 DEF Hold
    <3>2. g.sentinel \in Nat /\ st.out \in Seq(Nat)
      BY <1>1, <1>2
    <3>3. Append(st.out, g.sentinel) = st.out \o <<g.sentinel>>
      BY <3>2, OneJoined
    <3> QED BY <3>1, <3>2, <3>3
  <2> QED BY <2>1, <2>2
<1>5. Append(held, n) \in Seq(Nat)
  BY <1>4
<1>6. CASE g.discard
  <2>1. v = st
    BY <1>0, <1>2, <1>6 DEF VisibleOne
  <2> QED BY <1>2, <1>6, <2>1 DEF VisibleStep
<1>7. CASE ~g.discard /\ kind = "half"
  <2>1. v = [guard |-> [g EXCEPT !.sentinel = n], out |-> held]
    BY <1>0, <1>2, <1>3, <1>7 DEF VisibleOne
  <2>2. /\ v.guard \in Guards /\ v.guard.pending = g.pending /\ v.guard.stack = g.stack
        /\ v.guard.sentinel = n /\ v.guard.discard = g.discard /\ v.out = held
    BY <2>1 DEF Guards
  <2>3. v \in Streams
    BY <1>4, <2>1, <2>2 DEF Streams
  <2> QED BY <1>2, <1>4, <1>7, <2>2, <2>3 DEF VisibleStep
<1>8. CASE ~g.discard /\ kind = "rest" /\ g.sentinel # 0
  <2>1. v = [guard |-> [g EXCEPT !.sentinel = 0, !.discard = TRUE], out |-> st.out]
    <3>1. kind # "half"
      BY <1>8
    <3> QED BY <1>2, <1>3, <1>8, <3>1, <1>0, Zenon DEF VisibleOne
  <2>2. /\ v.guard \in Guards /\ v.guard.pending = g.pending /\ v.guard.stack = g.stack
        /\ v.guard.sentinel = 0 /\ v.guard.discard = TRUE /\ v.out = st.out
    <3>1. PICK h : h = [g EXCEPT !.sentinel = 0, !.discard = TRUE]
      OBVIOUS
    <3>2. /\ h \in Guards /\ h.pending = g.pending /\ h.stack = g.stack
          /\ h.sentinel = 0 /\ h.discard = TRUE
      BY <3>1 DEF Guards
    <3>3. v.guard = h /\ v.out = st.out
      BY <2>1, <3>1
    <3> QED BY <3>2, <3>3
  <2>3. v \in Streams
    BY <1>1, <2>1, <2>2 DEF Streams
  <2> QED BY <1>2, <1>8, <2>2, <2>3 DEF VisibleStep
<1>9. CASE ~g.discard /\ kind # "half" /\ ~(kind = "rest" /\ g.sentinel # 0)
  <2>1. v = [guard |-> [g EXCEPT !.sentinel = 0], out |-> Append(held, n)]
    BY <1>2, <1>3, <1>9, <1>0, Zenon DEF VisibleOne
  <2>2. /\ v.guard \in Guards /\ v.guard.pending = g.pending /\ v.guard.stack = g.stack
        /\ v.guard.sentinel = 0 /\ v.guard.discard = g.discard /\ v.out = Append(held, n)
    <3>1. PICK h : h = [g EXCEPT !.sentinel = 0]
      OBVIOUS
    <3>2. /\ h \in Guards /\ h.pending = g.pending /\ h.stack = g.stack
          /\ h.sentinel = 0 /\ h.discard = g.discard
      BY <3>1 DEF Guards
    <3>3. v.guard = h /\ v.out = Append(held, n)
      BY <2>1, <3>1
    <3> QED BY <3>2, <3>3
  <2>3. v \in Streams
    BY <1>5, <2>1, <2>2 DEF Streams
  <2> QED BY <1>2, <1>4, <1>9, <2>2, <2>3 DEF VisibleStep
<1> QED BY <1>6, <1>7, <1>8, <1>9

\* One piece after the other: k says what the stream is after each of the first n.
Passing(k, g, places, txt, n) ==
    \A i \in 0..n : k[i] = IF i = 0 THEN [guard |-> g, out |-> <<>>]
                           ELSE VisibleOne(k[i - 1], places[i], txt[places[i]].kind)

\* There is such a function, by induction on the pieces.
LEMMA PassingExists ==
    ASSUME NEW g \in Guards, NEW places \in Seq(Nat), NEW txt
    PROVE  \E k \in [0..Len(places) -> Streams] : Passing(k, g, places, txt, Len(places))
<1> DEFINE T == {n \in Nat : n <= Len(places) => \E k \in [0..n -> Streams] : Passing(k, g, places, txt, n)}
<1>0. Len(places) \in Nat
  OBVIOUS
<1>1. 0 \in T
  <2>1. PICK st : st = [guard |-> g, out |-> <<>>]
    OBVIOUS
  <2>2. st \in Streams
    BY <2>1 DEF Streams
  <2>3. PICK k : k = [i \in 0..0 |-> st]
    OBVIOUS
  <2>4. k \in [0..0 -> Streams] /\ Passing(k, g, places, txt, 0)
    BY <2>1, <2>2, <2>3 DEF Passing
  <2> QED BY <2>4
<1>2. ASSUME NEW n \in T PROVE n + 1 \in T
  <2>0. n \in Nat /\ n + 1 \in Nat
    OBVIOUS
  <2> SUFFICES ASSUME n + 1 <= Len(places) PROVE \E k \in [0..n + 1 -> Streams] : Passing(k, g, places, txt, n + 1)
    BY <2>0
  <2>1. PICK k \in [0..n -> Streams] : Passing(k, g, places, txt, n)
    BY <1>0, <1>2, <2>0
  <2>2. PICK t : t = VisibleOne(k[n], places[n + 1], txt[places[n + 1]].kind)
    OBVIOUS
  <2>3. PICK h : h = [i \in 0..n + 1 |-> IF i = n + 1 THEN t ELSE k[i]]
    OBVIOUS
  <2>4. t \in Streams
    <3>1. k[n] \in Streams /\ places[n + 1] \in Nat
      BY <1>0, <2>0
    <3> QED BY <2>2, <3>1, VisibleIs DEF VisibleStep
  <2>5. h \in [0..n + 1 -> Streams]
    BY <2>0, <2>3, <2>4
  <2>6. h[n + 1] = t /\ \A i \in 0..n : h[i] = k[i]
    BY <2>0, <2>3
  <2>7. ASSUME NEW i \in 0..n + 1
        PROVE  h[i] = IF i = 0 THEN [guard |-> g, out |-> <<>>]
                      ELSE VisibleOne(h[i - 1], places[i], txt[places[i]].kind)
    <3>1. CASE i = n + 1
      <4>1. i # 0 /\ i - 1 = n /\ n \in 0..n
        BY <2>0, <3>1
      <4> QED BY <2>2, <2>6, <3>1, <4>1
    <3>2. CASE i # n + 1
      <4>1. i \in 0..n /\ (i # 0 => i - 1 \in 0..n)
        BY <2>0, <3>2
      <4> QED BY <2>1, <2>6, <4>1 DEF Passing
    <3> QED BY <3>1, <3>2
  <2> QED BY <2>5, <2>7 DEF Passing
<1>3. T = Nat
  <2> HIDE DEF T
  <2>1. T \in SUBSET Nat
    BY DEF T
  <2> QED BY <1>1, <1>2, <2>1, AllNaturals
<1> QED BY <1>0, <1>3

\* Released is the last of them outside of a block, and publishes nothing inside one.
LEMMA ReleasedPasses ==
    ASSUME NEW g \in Guards, NEW places \in Seq(Nat), NEW txt, g.stack = <<>>
    PROVE  \E k \in [0..Len(places) -> Streams] :
              Passing(k, g, places, txt, Len(places)) /\ Released(g, places, txt) = k[Len(places)]
<1> DEFINE Def(u) == u = [i \in 0..Len(places) |->
                            IF i = 0 THEN {[guard |-> g, out |-> <<>>]}
                            ELSE {VisibleOne(state, places[i], txt[places[i]].kind) : state \in u[i - 1]}]
<1>0. Len(places) \in Nat
  OBVIOUS
<1>1. PICK k \in [0..Len(places) -> Streams] : Passing(k, g, places, txt, Len(places))
  BY PassingExists
<1>2. PICK u : u = [i \in 0..Len(places) |-> {k[i]}]
  OBVIOUS
<1>3. Def(u)
  <2>1. ASSUME NEW i \in 0..Len(places)
        PROVE  {k[i]} = IF i = 0 THEN {[guard |-> g, out |-> <<>>]}
                        ELSE {VisibleOne(state, places[i], txt[places[i]].kind) : state \in u[i - 1]}
    <3>1. CASE i = 0
      BY <1>1, <3>1 DEF Passing
    <3>2. CASE i # 0
      <4>1. i - 1 \in 0..Len(places) /\ u[i - 1] = {k[i - 1]}
        BY <1>0, <1>2, <3>2
      <4>2. k[i] = VisibleOne(k[i - 1], places[i], txt[places[i]].kind)
        BY <1>1, <3>2 DEF Passing
      <4> QED BY <3>2, <4>1, <4>2
    <3> QED BY <3>1, <3>2
  <2> QED BY <1>2, <2>1
<1>4. PICK c : c = (CHOOSE v : Def(v))
  OBVIOUS
<1>5. Def(c)
  <2> HIDE DEF Def
  <2> QED BY <1>3, <1>4
<1>6. \A i \in 0..Len(places) : c[i] = {k[i]}
  <2> DEFINE T == {n \in Nat : n <= Len(places) => c[n] = {k[n]}}
  <2>1. 0 \in T
    BY <1>0, <1>1, <1>5 DEF Passing
  <2>2. ASSUME NEW n \in T PROVE n + 1 \in T
    <3>1. CASE n + 1 <= Len(places)
      <4>1. n \in Nat /\ c[n] = {k[n]} /\ n + 1 \in 0..Len(places) /\ n + 1 # 0 /\ (n + 1) - 1 = n
        BY <1>0, <2>2, <3>1
      <4>2. c[n + 1] = {VisibleOne(state, places[n + 1], txt[places[n + 1]].kind) : state \in c[n]}
        BY <1>5, <4>1
      <4>3. k[n + 1] = VisibleOne(k[n], places[n + 1], txt[places[n + 1]].kind)
        BY <1>1, <4>1 DEF Passing
      <4> QED BY <4>1, <4>2, <4>3
    <3> QED BY <3>1
  <2>3. T = Nat
    <3> HIDE DEF T
    <3>1. T \in SUBSET Nat
      BY DEF T
    <3> QED BY <2>1, <2>2, <3>1, AllNaturals
  <2> QED BY <2>3
<1>7. Released(g, places, txt) = CHOOSE t \in c[Len(places)] : TRUE
  BY <1>4 DEF Released
<1>8. Released(g, places, txt) = k[Len(places)]
  BY <1>0, <1>6, <1>7
<1> QED BY <1>1, <1>8

\* Inside of a block nothing is published.
LEMMA ReleasedInside ==
    ASSUME NEW g, NEW places, NEW txt, g.stack # <<>>
    PROVE  Released(g, places, txt) = [guard |-> g, out |-> <<>>]
BY DEF Released

\* What may be among the published ones, and what is published of ordinary text
\* (Joins): what was held back and then the pieces, but for what is held back now.
Among(g, places, txt, i, x) ==
    \/ x = g.sentinel /\ x # 0
    \/ \E j \in 1..i : /\ x = places[j]
                       /\ txt[x].kind = "rest" => \/ j = 1 /\ g.sentinel = 0
                                                  \/ j > 1 /\ txt[places[j - 1]].kind # "half"
Freed(g, places, txt, i, st) ==
    /\ st \in Streams /\ st.guard.pending = g.pending /\ st.guard.stack = g.stack
    /\ st.guard.discard => st.guard.sentinel = 0 /\ \E j \in 1..i : txt[places[j]].kind = "rest"
    /\ ~st.guard.discard => st.out \o Hold(st.guard.sentinel) = Hold(g.sentinel) \o SubSeq(places, 1, i)
    /\ i = 0 => st.guard.sentinel = g.sentinel
    /\ i > 0 /\ st.guard.sentinel # 0 => txt[places[i]].kind = "half" /\ st.guard.sentinel = places[i]
    /\ i > 0 /\ ~st.guard.discard /\ txt[places[i]].kind = "half" => st.guard.sentinel = places[i]
    /\ \A x \in 1..Len(st.out) : Among(g, places, txt, i, st.out[x])

\* A piece appended to the second of two sequences is appended to both.
LEMMA JoinedAppend ==
    ASSUME NEW a \in Seq(Nat), NEW b \in Seq(Nat), NEW e \in Nat
    PROVE  a \o Append(b, e) = Append(a \o b, e)
OBVIOUS

\* One piece more keeps what Freed says.
LEMMA FreedStep ==
    ASSUME NEW g \in Guards, NEW places \in Seq(Nat \ {0}), NEW txt, NEW i \in Nat, i < Len(places),
           NEW st, Freed(g, places, txt, i, st), NEW v, v = VisibleOne(st, places[i + 1], txt[places[i + 1]].kind)
    PROVE  Freed(g, places, txt, i + 1, v)
<1>1. PICK n \in Nat \ {0} : n = places[i + 1]
  OBVIOUS
<1>2. PICK kind : kind = txt[n].kind
  OBVIOUS
<1>3. st \in Streams /\ v = VisibleOne(st, n, kind)
  BY <1>1, <1>2 DEF Freed
<1>4. PICK s \in Nat : s = st.guard.sentinel
  BY <1>3 DEF Streams, Guards
<1>5. PICK out \in Seq(Nat) : out = st.out
  BY <1>3 DEF Streams
<1>6. PICK front \in Seq(Nat) : front = Hold(g.sentinel) \o SubSeq(places, 1, i)
  <2>1. g.sentinel \in Nat /\ Hold(g.sentinel) \in Seq(Nat)
    BY HoldIs DEF Guards
  <2>2. SubSeq(places, 1, i) \in Seq(Nat)
    OBVIOUS
  <2>3. Hold(g.sentinel) \o SubSeq(places, 1, i) \in Seq(Nat)
    BY <2>1, <2>2, SeqsJoined
  <2> QED BY <2>3
<1>7. Append(front, n) = Hold(g.sentinel) \o SubSeq(places, 1, i + 1)
  <2>1. PICK hs \in Seq(Nat) : hs = Hold(g.sentinel)
    BY HoldIs DEF Guards
  <2>2. PICK head \in Seq(Nat) : head = SubSeq(places, 1, i)
    <3>1. SubSeq(places, 1, i) \in Seq(Nat)
      OBVIOUS
    <3> QED BY <3>1
  <2>3. SubSeq(places, 1, i + 1) = Append(head, n)
    BY <1>1, <2>2
  <2>4. hs \o Append(head, n) = Append(hs \o head, n)
    <3>1. n \in Nat
      OBVIOUS
    <3> QED BY <3>1, JoinedAppend
  <2> QED BY <1>6, <2>1, <2>2, <2>3, <2>4
<1>8. \A j \in 1..i : j \in 1..i + 1
  OBVIOUS
<1>9. \A x : Among(g, places, txt, i, x) => Among(g, places, txt, i + 1, x)
  BY <1>8 DEF Among
<1>a. i + 1 # 0 /\ i + 1 > 0 /\ i + 1 \in 1..i + 1
  OBVIOUS
<1>b. \A x \in 1..Len(out \o Hold(s)) : Among(g, places, txt, i, (out \o Hold(s))[x])
  <2>1. \A x \in 1..Len(out) : Among(g, places, txt, i, out[x])
    BY <1>5 DEF Freed
  <2>2. CASE s = 0
    <3>1. Hold(s) = <<>>
      BY <2>2 DEF Hold
    <3>2. out \o <<>> = out
      OBVIOUS
    <3>3. out \o Hold(s) = out
      BY <3>1, <3>2
    <3> QED BY <2>1, <3>3
  <2>3. CASE s # 0
    <3>1. Among(g, places, txt, i, s)
      <4>1. CASE i = 0
        BY <1>4, <2>3, <4>1 DEF Freed, Among
      <4>2. CASE i > 0
        <5>1. s = places[i] /\ txt[s].kind = "half" /\ i \in 1..i
          BY <1>4, <2>3, <4>2 DEF Freed
        <5> QED BY <5>1 DEF Among
      <4> QED BY <4>1, <4>2
    <3>2. Hold(s) = <<s>>
      BY <2>3 DEF Hold
    <3>3. /\ Len(out \o <<s>>) = Len(out) + 1 /\ (out \o <<s>>)[Len(out) + 1] = s
          /\ \A x \in 1..Len(out) : (out \o <<s>>)[x] = out[x]
      OBVIOUS
    <3>4. \A x \in 1..Len(out) + 1 : x \in 1..Len(out) \/ x = Len(out) + 1
      OBVIOUS
    <3> QED BY <2>1, <3>1, <3>2, <3>3, <3>4
  <2> QED BY <2>2, <2>3
<1>w. VisibleStep(st, n, kind, v)
  BY <1>3, VisibleIs
<1>c. CASE st.guard.discard
  <2>1. v = st
    BY <1>c, <1>w DEF VisibleStep
  <2>2. st.guard.sentinel = 0 /\ \E j \in 1..i : txt[places[j]].kind = "rest"
    BY <1>c DEF Freed
  <2> QED BY <1>3, <1>8, <1>9, <1>a, <1>c, <2>1, <2>2 DEF Freed
<1>d. CASE ~st.guard.discard
  <2>0. out \o Hold(s) = front
    BY <1>4, <1>5, <1>6, <1>d DEF Freed
  <2>v. v \in Streams /\ v.guard.pending = g.pending /\ v.guard.stack = g.stack
    <3>1. v \in Streams /\ v.guard.pending = st.guard.pending /\ v.guard.stack = st.guard.stack
      BY <1>w DEF VisibleStep
    <3> QED BY <3>1 DEF Freed
  <2>1. CASE kind = "half"
    <3>1. v.guard.sentinel = n /\ ~v.guard.discard /\ v.out = front
      BY <1>4, <1>5, <1>d, <2>0, <2>1, <1>w DEF VisibleStep
    <3>2. front \o Hold(n) = Append(front, n)
      <4>1. Hold(n) = <<n>>
        BY <1>1 DEF Hold
      <4> QED BY <4>1, OneJoined
    <3>3. \A x \in 1..Len(v.out) : Among(g, places, txt, i + 1, v.out[x])
      BY <1>9, <1>b, <2>0, <3>1
    <3> QED BY <1>1, <1>2, <1>7, <1>a, <2>1, <2>v, <3>1, <3>2, <3>3 DEF Freed
  <2>2. CASE kind = "rest" /\ s # 0
    <3>1. v.guard.sentinel = 0 /\ v.guard.discard /\ v.out = out
      BY <1>4, <1>5, <1>d, <2>2, <1>w DEF VisibleStep
    <3>2. \E j \in 1..i + 1 : txt[places[j]].kind = "rest"
      BY <1>1, <1>2, <1>a, <2>2
    <3>3. \A x \in 1..Len(v.out) : Among(g, places, txt, i + 1, v.out[x])
      BY <1>5, <1>9, <3>1 DEF Freed
    <3> QED BY <1>a, <2>v, <3>1, <3>2, <3>3 DEF Freed
  <2>3. CASE kind # "half" /\ ~(kind = "rest" /\ s # 0)
    <3>1. v.guard.sentinel = 0 /\ ~v.guard.discard /\ v.out = Append(front, n)
      BY <1>4, <1>5, <1>d, <2>0, <2>3, <1>w DEF VisibleStep
    <3>2. v.out \o Hold(v.guard.sentinel) = Append(front, n)
      BY <3>1 DEF Hold
    <3>3. Among(g, places, txt, i + 1, n)
      <4>1. kind = "rest" => s = 0
        BY <2>3
      <4>2. CASE i = 0
        BY <1>1, <1>2, <1>4, <1>a, <4>1, <4>2 DEF Among, Freed
      <4>3. CASE i > 0
        <5>1. i + 1 > 1 /\ (i + 1) - 1 = i
          BY <4>3
        <5>2. kind = "rest" => txt[places[i]].kind # "half"
          <6> SUFFICES ASSUME kind = "rest", txt[places[i]].kind = "half" PROVE FALSE
            OBVIOUS
          <6>1. s = places[i]
            BY <1>4, <1>d, <4>3 DEF Freed
          <6>2. places[i] \in Nat \ {0}
            BY <4>3
          <6> QED BY <4>1, <6>1, <6>2
        <5> QED BY <1>1, <1>2, <1>a, <5>1, <5>2 DEF Among
      <4> QED BY <4>2, <4>3
    <3>4. \A x \in 1..Len(front) : Among(g, places, txt, i + 1, front[x])
      BY <1>9, <1>b, <2>0
    <3>5. \A x \in 1..Len(Append(front, n)) : Among(g, places, txt, i + 1, Append(front, n)[x])
      <4>1. /\ Len(Append(front, n)) = Len(front) + 1 /\ Append(front, n)[Len(front) + 1] = n
            /\ \A x \in 1..Len(front) : Append(front, n)[x] = front[x]
        OBVIOUS
      <4>2. \A x \in 1..Len(front) + 1 : x \in 1..Len(front) \/ x = Len(front) + 1
        OBVIOUS
      <4> QED BY <3>3, <3>4, <4>1, <4>2
    <3> QED BY <1>1, <1>2, <1>7, <1>a, <2>3, <2>v, <3>1, <3>2, <3>5 DEF Freed
  <2> QED BY <2>1, <2>2, <2>3
<1> QED BY <1>3, <1>c, <1>d DEF Streams, Guards

\* So Freed says what Released computes, by induction on the pieces.
LEMMA ReleasedIs ==
    ASSUME NEW g \in Guards, g.stack = <<>>, ~g.discard, NEW places \in Seq(Nat \ {0}), NEW txt
    PROVE  Freed(g, places, txt, Len(places), Released(g, places, txt))
<1>1. places \in Seq(Nat) /\ Len(places) \in Nat
  OBVIOUS
<1>2. PICK k \in [0..Len(places) -> Streams] :
          Passing(k, g, places, txt, Len(places)) /\ Released(g, places, txt) = k[Len(places)]
  BY <1>1, ReleasedPasses
<1> DEFINE T == {n \in Nat : n <= Len(places) => Freed(g, places, txt, n, k[n])}
<1>3. 0 \in T
  <2>1. k[0] = [guard |-> g, out |-> <<>>]
    BY <1>1, <1>2 DEF Passing
  <2>2. k[0] \in Streams /\ k[0].guard = g /\ k[0].out = <<>>
    BY <1>1, <2>1
  <2>3. <<>> \o Hold(g.sentinel) = Hold(g.sentinel) \o SubSeq(places, 1, 0)
    <3>1. PICK hs \in Seq(Nat) : hs = Hold(g.sentinel)
      BY HoldIs DEF Guards
    <3>2. SubSeq(places, 1, 0) = <<>>
      OBVIOUS
    <3> QED BY <3>1, <3>2
  <2>4. Freed(g, places, txt, 0, k[0])
    BY <2>2, <2>3 DEF Freed
  <2> QED BY <2>4
<1>4. ASSUME NEW n \in T PROVE n + 1 \in T
  <2>1. CASE n + 1 <= Len(places)
    <3>1. n \in Nat /\ n < Len(places) /\ n + 1 \in 0..Len(places) /\ n + 1 # 0 /\ (n + 1) - 1 = n
      BY <1>1, <1>4, <2>1
    <3>2. Freed(g, places, txt, n, k[n])
      BY <1>1, <1>4, <3>1
    <3>3. k[n + 1] = VisibleOne(k[n], places[n + 1], txt[places[n + 1]].kind)
      BY <1>2, <3>1 DEF Passing
    <3>4. Freed(g, places, txt, n + 1, k[n + 1])
      BY <3>1, <3>2, <3>3, FreedStep
    <3> QED BY <3>1, <3>4
  <2> QED BY <2>1
<1>5. T = Nat
  <2> HIDE DEF T
  <2>1. T \in SUBSET Nat
    BY DEF T
  <2> QED BY <1>3, <1>4, <2>1, AllNaturals
<1> QED BY <1>1, <1>2, <1>5

-----------------------------------------------------------------------------
\* A piece more.
Grows(txt, p, new) ==
    /\ txt \in Seq(TextPieces) /\ p \in TextPieces /\ new \in Seq(TextPieces)
    /\ Len(txt) \in Nat /\ Len(new) = Len(txt) + 1
    /\ \A i \in 1..Len(txt) : new[i] = txt[i]
    /\ new[Len(txt) + 1] = p
\* Where it is (InPlace).
Placed(txt, p) ==
    /\ p.kind \in {"part", "open", "close", "control", "long"} =>
          Len(txt) > 0 /\ txt[Len(txt)].kind \in {"start", "part"}
    /\ p.kind = "rest" => Len(txt) > 0 /\ txt[Len(txt)].kind = "half"

\* A text grows by what is appended to it.
LEMMA GrowsBy == ASSUME NEW txt \in Seq(TextPieces), NEW p \in TextPieces PROVE Grows(txt, p, Append(txt, p))
BY DEF Grows

\* Only the end of an opening tag opens a block.
LEMMA NotOpen == ASSUME NEW txt, NEW p, NEW new, Grows(txt, p, new), p.kind # "open" PROVE ~OpenAt(new, Len(new))
BY DEF Grows, OpenAt, MarkerIn

\* A block that is open after the new piece, and not opened by it, was open before it.
LEMMA OpenBefore ==
    ASSUME NEW txt, NEW p, NEW new, Grows(txt, p, new), NEW b \in 1..Len(txt),
           OpenAt(new, b), NEW m \in Len(txt)..Len(new), Unclosed(new, b, m)
    PROVE  OpenAt(txt, b) /\ Unclosed(txt, b, Len(txt))
<1>1. PICK n \in Nat : n = Len(txt)
  BY DEF Grows
<1>2. \A i \in 1..n : new[i] = txt[i]
  BY <1>1 DEF Grows
<1>3. b \in 1..n /\ n \in 0..n /\ m \in Nat /\ m >= n
  BY <1>1 DEF Grows
<1>4. Unclosed(new, b, n)
  <2>1. \A c \in b + 1..n : c \in b + 1..m
    BY <1>3
  <2> QED BY <1>1, <2>1 DEF Unclosed
<1>5. (OpenAt(new, b) <=> OpenAt(txt, b)) /\ (Unclosed(new, b, n) <=> Unclosed(txt, b, n))
  BY <1>2, <1>3, TextsAgree
<1> QED BY <1>1, <1>4, <1>5

\* A piece that opens no block leaves the stack naming every open tag.
LEMMA TagsGrow ==
    ASSUME NEW txt, NEW p, NEW new, Grows(txt, p, new), NEW g, TagsHeld(g, txt), ~OpenAt(new, Len(new)),
           NEW h, h.stack = g.stack
    PROVE  TagsHeld(h, new)
<1> SUFFICES ASSUME NEW b \in 1..Len(new), OpenAt(new, b), Unclosed(new, b, Len(new))
             PROVE  \E k \in 1..Len(h.stack) : h.stack[k] = new[b].tag
  BY DEF TagsHeld
<1>1. b \in 1..Len(txt) /\ Len(new) \in Len(txt)..Len(new)
  BY DEF Grows
<1>2. OpenAt(txt, b) /\ Unclosed(txt, b, Len(txt))
  BY <1>1, OpenBefore
<1>3. new[b] = txt[b]
  BY <1>1 DEF Grows
<1> QED BY <1>1, <1>2, <1>3 DEF TagsHeld

\* What is held back of a control sentence is so in the longer text.
LEMMA SentinelGrows ==
    ASSUME NEW txt, NEW p, NEW new, Grows(txt, p, new), NEW g \in Guards, SentinelForm(g, txt),
           NEW h, h.sentinel = g.sentinel
    PROVE  SentinelForm(h, new)
<1>1. PICK n \in Nat : n = Len(txt) /\ Len(new) = n + 1
  BY DEF Grows
<1>2. PICK s \in Nat : s = g.sentinel
  BY DEF Guards
<1> SUFFICES ASSUME s # 0 PROVE s <= n + 1 /\ new[s].kind = "half" /\ ~InsideIn(new, s)
  BY <1>1, <1>2 DEF SentinelForm
<1>3. s <= n /\ txt[s].kind = "half" /\ ~InsideIn(txt, s)
  BY <1>1, <1>2 DEF SentinelForm
<1>4. s \in 1..n /\ s \in 1..n + 1
  BY <1>3
<1>5. \A i \in 1..n : new[i] = txt[i]
  BY <1>1 DEF Grows
<1>6. InsideIn(new, s) <=> InsideIn(txt, s)
  BY <1>4, <1>5, TextsAgree
<1> QED BY <1>3, <1>4, <1>5, <1>6

\* What may be shown of a text may be shown of every longer one.
LEMMA ShownGrows ==
    ASSUME NEW txt, NEW p, NEW new, Grows(txt, p, new), NEW out, Shown(txt, out)
    PROVE  Shown(new, out)
<1>1. PICK n \in Nat : n = Len(txt) /\ Len(new) = n + 1 /\ \A i \in 1..n : new[i] = txt[i]
  BY DEF Grows
<1>2. \A m \in 1..n : m \in 1..n + 1 /\ (MayShow(new, m) <=> MayShow(txt, m))
  BY <1>1, TextsAgree
<1> QED BY <1>1, <1>2 DEF Shown

\* Outside of every block, what no closing tag follows is in none.
LEMMA Outside ==
    ASSUME NEW txt, NEW p, NEW new, Grows(txt, p, new), NEW g, TagsHeld(g, txt), g.stack = <<>>,
           NEW m \in 1..Len(new), \A i \in m..Len(txt) : txt[i].kind # "close"
    PROVE  ~InsideIn(new, m)
<1> SUFFICES ASSUME NEW b \in 1..m - 1, OpenAt(new, b), Unclosed(new, b, m - 1) PROVE FALSE
  BY DEF InsideIn
<1>1. PICK n \in Nat : n = Len(txt) /\ Len(new) = n + 1 /\ \A i \in 1..n : new[i] = txt[i]
  BY DEF Grows
<1>2. b \in 1..n /\ m \in 1..n + 1 /\ n \in n..n + 1
  BY <1>1
<1>3. Unclosed(new, b, n)
  <2>1. ASSUME NEW c \in b + 1..n PROVE ~(new[c].kind = "close" /\ new[c].tag = new[b].tag)
    <3>1. CASE c \in b + 1..m - 1
      BY <3>1 DEF Unclosed
    <3>2. CASE c \in m..n
      <4>1. c \in 1..n
        BY <1>2
      <4> QED BY <1>1, <3>2, <4>1
    <3> QED BY <1>2, <3>1, <3>2
  <2> QED BY <2>1 DEF Unclosed
<1>4. OpenAt(txt, b) /\ Unclosed(txt, b, n)
  BY <1>1, <1>2, <1>3, OpenBefore
<1>5. Len(g.stack) = 0
  OBVIOUS
<1> QED BY <1>1, <1>2, <1>4, <1>5 DEF TagsHeld

\* The marker that is held back: its last piece is the last of the text.
LEMMA PendingLast ==
    ASSUME NEW g \in Guards, NEW txt, PendingForm(g, txt), Len(txt) \in Nat
    PROVE  /\ Len(g.pending) \in Nat /\ Len(g.pending) <= Len(txt)
           /\ \A i \in Len(txt) - Len(g.pending) + 1..Len(txt) : txt[i].kind \in {"start", "part"}
           /\ (Len(txt) > 0 /\ txt[Len(txt)].kind \in {"start", "part"}) <=> g.pending # <<>>
<1>1. g.pending \in Seq(Nat)
  BY DEF Guards
<1>2. PICK s \in Nat, n \in Nat : s = Len(g.pending) /\ n = Len(txt)
  BY <1>1
<1>3. s <= n /\ \A i \in 1..s : g.pending[i] = n - s + i
  BY <1>2 DEF PendingForm
<1>4. ASSUME NEW i \in n - s + 1..n PROVE txt[i].kind \in {"start", "part"}
  <2>1. i - (n - s) \in 1..s /\ n - s + (i - (n - s)) = i
    BY <1>3
  <2>2. g.pending[i - (n - s)] = i
    BY <1>3, <2>1
  <2>3. CASE i - (n - s) = 1
    BY <1>2, <2>1, <2>2, <2>3 DEF PendingForm
  <2>4. CASE i - (n - s) # 1
    <3>1. i - (n - s) \in 2..s
      BY <2>1, <2>4
    <3> QED BY <1>2, <2>2, <3>1 DEF PendingForm
  <2> QED BY <2>3, <2>4
<1>5. g.pending = <<>> <=> s = 0
  BY <1>1, <1>2
<1>6. s > 0 => n > 0 /\ n \in n - s + 1..n
  BY <1>3
<1>7. s = 0 => n = 0 \/ txt[n].kind \notin {"start", "part"}
  BY <1>2 DEF PendingForm
<1>8. (n > 0 /\ txt[n].kind \in {"start", "part"}) <=> g.pending # <<>>
  <2>1. CASE s = 0
    BY <1>5, <1>7, <2>1
  <2>2. CASE s # 0
    BY <1>4, <1>5, <1>6, <2>2
  <2> QED BY <2>1, <2>2
<1>9. s = Len(g.pending) /\ n = Len(txt) /\ s <= n
  BY <1>2, <1>3
<1> QED BY <1>4, <1>8, <1>9

-----------------------------------------------------------------------------
\* The cases of feed.
Quiet(h) == [guard |-> h, out |-> <<>>]
Unmarked(g) == [g EXCEPT !.pending = <<>>]

FeedCases(g, new, n, p) ==
    /\ g.discard => Feed(g, new) = Quiet(g)
    /\ ~g.discard /\ g.pending = <<>> /\ p.kind = "start" => Feed(g, new) = Quiet([g EXCEPT !.pending = <<n>>])
    /\ ~g.discard /\ g.pending = <<>> /\ p.kind # "start" => Feed(g, new) = Released(g, <<n>>, new)
    /\ ~g.discard /\ g.pending # <<>> /\ (p.kind = "part" \/ (p.kind = "start" /\ Len(g.pending) = 1)) =>
             Feed(g, new) = Quiet([g EXCEPT !.pending = Append(@, n)])
    /\ ~g.discard /\ g.pending # <<>> /\ p.kind = "start" /\ Len(g.pending) > 1 /\ Len(g.pending) # 1 =>
             Feed(g, new) = [Released(Unmarked(g), g.pending, new) EXCEPT !.guard.pending = <<n>>]
    /\ ~g.discard /\ g.pending # <<>> /\ p.kind = "long" =>
             Feed(g, new) = Quiet([Unmarked(g) EXCEPT !.discard = TRUE])
    /\ ~g.discard /\ g.pending # <<>> /\ p.kind = "control" => Feed(g, new) = Quiet(Unmarked(g))
    /\ ~g.discard /\ g.pending # <<>> /\ p.kind = "open" /\ ~Doubled(g, new) =>
             Feed(g, new) = Quiet(Deeper(Unmarked(g), p.tag))
    /\ ~g.discard /\ g.pending # <<>> /\ p.kind = "close" /\ ~Doubled(g, new) =>
             Feed(g, new) = Quiet(Shallower(Unmarked(g), p.tag))
    /\ ~g.discard /\ g.pending # <<>> /\ p.kind \notin {"part", "start", "long", "control"}
          /\ (p.kind \in {"open", "close"} => Doubled(g, new)) =>
             Feed(g, new) = Released(Unmarked(g), Append(g.pending, n), new)

\* These are the cases of Feed.
LEMMA FeedIs == ASSUME NEW g, NEW new PROVE FeedCases(g, new, Len(new), new[Len(new)])
<1>0. PICK n, p : n = Len(new) /\ p = new[n]
  OBVIOUS
<1> SUFFICES FeedCases(g, new, n, p)
  BY <1>0
<1>1. g.discard => Feed(g, new) = Quiet(g)
  BY <1>0 DEF Feed, Quiet
<1>2. ~g.discard /\ g.pending = <<>> /\ p.kind = "start" => Feed(g, new) = Quiet([g EXCEPT !.pending = <<n>>])
  BY <1>0 DEF Feed, Quiet
<1>3. ~g.discard /\ g.pending = <<>> /\ p.kind # "start" => Feed(g, new) = Released(g, <<n>>, new)
  BY <1>0 DEF Feed, Quiet
<1>4. ~g.discard /\ g.pending # <<>> /\ (p.kind = "part" \/ (p.kind = "start" /\ Len(g.pending) = 1)) =>
         Feed(g, new) = Quiet([g EXCEPT !.pending = Append(@, n)])
  <2>1. ~g.discard /\ g.pending # <<>> /\ p.kind = "part" => Feed(g, new) = Quiet([g EXCEPT !.pending = Append(@, n)])
    BY <1>0, Zenon DEF Feed, Quiet
  <2>2. ~g.discard /\ g.pending # <<>> /\ p.kind = "start" /\ Len(g.pending) = 1 =>
           Feed(g, new) = Quiet([g EXCEPT !.pending = Append(@, n)])
    <3>1. Len(g.pending) = 1 => ~(Len(g.pending) > 1)
      OBVIOUS
    <3>2. "start" # "part" /\ "start" # "long" /\ "start" # "control" /\ "start" # "open" /\ "start" # "close"
      OBVIOUS
    <3> QED BY <3>1, <3>2, <1>0, Zenon DEF Feed, Quiet
  <2> QED BY <2>1, <2>2
<1>5. ~g.discard /\ g.pending # <<>> /\ p.kind = "start" /\ Len(g.pending) > 1 /\ Len(g.pending) # 1 =>
         Feed(g, new) = [Released(Unmarked(g), g.pending, new) EXCEPT !.guard.pending = <<n>>]
  <2>1. "start" # "part"
    OBVIOUS
  <2> QED BY <2>1, <1>0, Zenon DEF Feed, Quiet, Unmarked
<1>6. ~g.discard /\ g.pending # <<>> /\ p.kind = "long" =>
         Feed(g, new) = Quiet([Unmarked(g) EXCEPT !.discard = TRUE])
  <2>1. "long" # "part" /\ "long" # "start"
    OBVIOUS
  <2> QED BY <2>1, <1>0, Zenon DEF Feed, Quiet, Unmarked
<1>7. ~g.discard /\ g.pending # <<>> /\ p.kind = "control" => Feed(g, new) = Quiet(Unmarked(g))
  <2>1. "control" # "part" /\ "control" # "start" /\ "control" # "long"
    OBVIOUS
  <2> QED BY <2>1, <1>0, Zenon DEF Feed, Quiet, Unmarked
<1>8. ~g.discard /\ g.pending # <<>> /\ p.kind = "open" /\ ~Doubled(g, new) =>
         Feed(g, new) = Quiet(Deeper(Unmarked(g), p.tag))
  <2>1. "open" # "part" /\ "open" # "start" /\ "open" # "long" /\ "open" # "control"
    OBVIOUS
  <2> QED BY <2>1, <1>0, Zenon DEF Feed, Quiet, Unmarked
<1>9. ~g.discard /\ g.pending # <<>> /\ p.kind = "close" /\ ~Doubled(g, new) =>
         Feed(g, new) = Quiet(Shallower(Unmarked(g), p.tag))
  <2>1. "close" # "part" /\ "close" # "start" /\ "close" # "long" /\ "close" # "control" /\ "close" # "open"
    OBVIOUS
  <2> QED BY <2>1, <1>0, Zenon DEF Feed, Quiet, Unmarked
<1>a. ~g.discard /\ g.pending # <<>> /\ p.kind \notin {"part", "start", "long", "control"}
      /\ (p.kind \in {"open", "close"} => Doubled(g, new)) =>
         Feed(g, new) = Released(Unmarked(g), Append(g.pending, n), new)
  <2> SUFFICES ASSUME ~g.discard, g.pending # <<>>, p.kind \notin {"part", "start", "long", "control"},
                      p.kind \in {"open", "close"} => Doubled(g, new)
               PROVE  Feed(g, new) = Released(Unmarked(g), Append(g.pending, n), new)
    OBVIOUS
  <2>1. p.kind # "part" /\ p.kind # "start" /\ p.kind # "long" /\ p.kind # "control"
    OBVIOUS
  <2>2. ~(p.kind = "open" /\ ~Doubled(g, new)) /\ ~(p.kind = "close" /\ ~Doubled(g, new))
    OBVIOUS
  <2> QED BY <2>1, <2>2, <1>0, Zenon DEF Feed, Quiet, Unmarked
<1> QED BY <1>1, <1>2, <1>3, <1>4, <1>5, <1>6, <1>7, <1>8, <1>9, <1>a, Zenon DEF FeedCases

\* A piece is fed well: the filter stays what it is about the text, publishes what
\* may be shown, and of ordinary text holds back or publishes what it held and the piece.
FedWell(g, new, fed) ==
    /\ fed.out \in Seq(Nat) /\ GuardForm(fed.guard, new) /\ Shown(new, fed.out)
    /\ OrdinaryIn(new) /\ ~g.discard /\ g.stack = <<>> =>
          ~fed.guard.discard /\ fed.guard.stack = <<>> /\ fed.out \o Held(fed.guard) = Append(Held(g), Len(new))

\* A filter that holds the same half of a sentence and keeps its other parts has the form.
LEMMA Reformed ==
    ASSUME NEW txt, NEW p, NEW new, Grows(txt, p, new), NEW g, GuardForm(g, txt),
           NEW h \in Guards, Len(h.stack) <= MaxNesting, h.sentinel = g.sentinel,
           \A i \in 1..Len(h.pending) : h.pending[i] \in 1..Len(new),
           h.discard \/ (PendingForm(h, new) /\ TagsHeld(h, new) /\ HalfHeld(h, new))
    PROVE  GuardForm(h, new)
BY SentinelGrows DEF GuardForm

\* A quiet step publishes nothing.
LEMMA QuietIs ==
    ASSUME NEW h PROVE /\ Quiet(h).guard = h /\ Quiet(h).out = <<>> /\ Quiet(h).out \in Seq(Nat)
                       /\ \A new : Shown(new, Quiet(h).out)
BY DEF Quiet, Shown

\* The filter with other pieces held back.
LEMMA GuardPending ==
    ASSUME NEW g \in Guards, NEW q \in Seq(Nat)
    PROVE  /\ [g EXCEPT !.pending = q] \in Guards /\ [g EXCEPT !.pending = q].pending = q
           /\ [g EXCEPT !.pending = q].stack = g.stack /\ [g EXCEPT !.pending = q].sentinel = g.sentinel
           /\ [g EXCEPT !.pending = q].discard = g.discard
BY DEF Guards

\* The filter with none held back.
LEMMA UnmarkedIs ==
    ASSUME NEW g \in Guards
    PROVE  /\ Unmarked(g) \in Guards /\ Unmarked(g).pending = <<>> /\ Unmarked(g).stack = g.stack
           /\ Unmarked(g).sentinel = g.sentinel /\ Unmarked(g).discard = g.discard
<1>1. <<>> \in Seq(Nat)
  OBVIOUS
<1> QED BY <1>1, GuardPending DEF Unmarked

\* What is held back is a sequence of positions.
LEMMA HeldIs == ASSUME NEW g \in Guards PROVE Held(g) \in Seq(Nat) /\ Hold(g.sentinel) \in Seq(Nat) /\ g.pending \in Seq(Nat)
<1>1. Hold(g.sentinel) \in Seq(Nat) /\ g.pending \in Seq(Nat)
  BY HoldIs DEF Guards
<1> QED BY <1>1, SeqsJoined DEF Held

\* Text that is dropped, and a piece that is never ordinary.
LEMMA FedDropped ==
    ASSUME NEW txt, NEW p, NEW new, Grows(txt, p, new), NEW g, GuardForm(g, txt), g.discard
    PROVE  FedWell(g, new, Feed(g, new))
<1>1. Feed(g, new) = Quiet(g)
  BY FeedIs DEF FeedCases
<1>2. g \in Guards /\ Len(g.stack) <= MaxNesting /\ \A i \in 1..Len(g.pending) : g.pending[i] \in 1..Len(txt)
  BY DEF GuardForm
<1>3. \A i \in 1..Len(txt) : i \in 1..Len(new)
  BY DEF Grows
<1>4. GuardForm(g, new)
  BY <1>2, <1>3, Reformed
<1> QED BY <1>1, <1>4, QuietIs DEF FedWell

\* The beginning of a marker.
LEMMA FedBegins ==
    ASSUME NEW txt, NEW p, NEW new, Grows(txt, p, new), NEW g, GuardForm(g, txt), ~g.discard,
           g.pending = <<>>, p.kind = "start"
    PROVE  FedWell(g, new, Feed(g, new))
<1>1. PICK n \in Nat : n = Len(txt) /\ Len(new) = n + 1 /\ new[n + 1] = p /\ \A i \in 1..n : new[i] = txt[i]
  BY DEF Grows
<1>2. PICK h : h = [g EXCEPT !.pending = <<n + 1>>]
  OBVIOUS
<1>3. g \in Guards /\ Len(g.stack) <= MaxNesting /\ PendingForm(g, txt) /\ TagsHeld(g, txt)
  BY DEF GuardForm
<1>4. /\ h \in Guards /\ h.pending = <<n + 1>> /\ h.stack = g.stack /\ h.sentinel = g.sentinel /\ h.discard = g.discard
  <2>1. <<n + 1>> \in Seq(Nat)
    OBVIOUS
  <2> QED BY <1>2, <1>3, <2>1, GuardPending
<1>5. Feed(g, new) = Quiet(h)
  <2>1. FeedCases(g, new, n + 1, p)
    BY <1>1, FeedIs
  <2> QED BY <1>2, <2>1 DEF FeedCases
<1>6. ~SecondIn(new, n + 1)
  <2>1. CASE n = 0
    BY <2>1 DEF SecondIn
  <2>2. CASE n > 0
    <3>1. Len(g.pending) = 0
      OBVIOUS
    <3>2. new[n].kind # "start"
      <4>1. txt[n].kind # "start"
        BY <1>1, <1>3, <2>2, <3>1 DEF PendingForm
      <4>2. n \in 1..n
        BY <2>2
      <4> QED BY <1>1, <4>1, <4>2
    <3> QED BY <2>2, <3>2, FirstAgain
  <2> QED BY <2>1, <2>2
<1>7. PendingForm(h, new)
  <2>1. Len(h.pending) = 1 /\ h.pending[1] = n + 1
    BY <1>4
  <2>2. \A i \in 1..1 : i = 1
    OBVIOUS
  <2>3. ~(1 = 0) /\ 1 <= n + 1 /\ n + 1 = (n + 1) - 1 + 1 /\ \A i \in 2..1 : FALSE
    OBVIOUS
  <2> QED BY <1>1, <1>6, <2>1, <2>2, <2>3 DEF PendingForm
<1>8. TagsHeld(h, new)
  <2>1. ~OpenAt(new, Len(new))
    BY NotOpen
  <2> QED BY <1>3, <1>4, <2>1, TagsGrow
<1>9. HalfHeld(h, new)
  BY <1>1 DEF HalfHeld
<1>10. GuardForm(h, new)
  <2>1. \A i \in 1..Len(h.pending) : h.pending[i] \in 1..Len(new)
    BY <1>1, <1>4
  <2> QED BY <1>3, <1>4, <1>7, <1>8, <1>9, <2>1, Reformed
<1>11. <<>> \o Held(h) = Append(Held(g), n + 1)
  <2>1. PICK hs \in Seq(Nat) : hs = Hold(g.sentinel)
    BY <1>3, HeldIs
  <2>2. Held(h) = hs \o <<n + 1>> /\ Held(g) = hs \o <<>>
    BY <1>4, <2>1 DEF Held
  <2>3. hs \o <<>> = hs /\ Append(hs, n + 1) = hs \o <<n + 1>> /\ <<>> \o (hs \o <<n + 1>>) = hs \o <<n + 1>>
    OBVIOUS
  <2> QED BY <2>2, <2>3
<1> QED BY <1>1, <1>4, <1>5, <1>10, <1>11, QuietIs DEF FedWell

\* A marker goes on.
LEMMA FedHolds ==
    ASSUME NEW txt, NEW p, NEW new, Grows(txt, p, new), NEW g, GuardForm(g, txt), ~g.discard,
           g.pending # <<>>, p.kind = "part" \/ (p.kind = "start" /\ Len(g.pending) = 1)
    PROVE  FedWell(g, new, Feed(g, new))
<1>1. PICK n \in Nat : n = Len(txt) /\ Len(new) = n + 1 /\ new[n + 1] = p /\ \A i \in 1..n : new[i] = txt[i]
  BY DEF Grows
<1>2. PICK h : h = [g EXCEPT !.pending = Append(@, n + 1)]
  OBVIOUS
<1>3. g \in Guards /\ Len(g.stack) <= MaxNesting /\ PendingForm(g, txt) /\ TagsHeld(g, txt)
  BY DEF GuardForm
<1>p. PICK held \in Seq(Nat), s \in Nat : held = g.pending /\ s = Len(held)
  BY <1>3 DEF Guards
<1>4. h \in Guards /\ h.pending = Append(held, n + 1) /\ h.stack = g.stack /\ h.sentinel = g.sentinel /\ h.discard = g.discard
  <2>1. Append(held, n + 1) \in Seq(Nat)
    OBVIOUS
  <2>2. h = [g EXCEPT !.pending = Append(held, n + 1)]
    BY <1>2, <1>p
  <2> QED BY <1>3, <2>1, <2>2, GuardPending
<1>5. Feed(g, new) = Quiet(h)
  <2>1. FeedCases(g, new, n + 1, p)
    BY <1>1, FeedIs
  <2> QED BY <1>2, <2>1 DEF FeedCases
<1>6. s > 0 /\ s <= n /\ \A i \in 1..s : held[i] = n - s + i
  <2>1. s # 0
    BY <1>p
  <2>2. s <= n /\ \A i \in 1..s : held[i] = n - s + i
    BY <1>1, <1>3, <1>p DEF PendingForm
  <2> QED BY <2>1, <2>2
<1>q. p.kind = "start" => s = 1
  BY <1>p
<1>7. /\ Len(Append(held, n + 1)) = s + 1 /\ Append(held, n + 1)[s + 1] = n + 1
      /\ \A i \in 1..s : Append(held, n + 1)[i] = held[i]
  BY <1>p
<1>8. PendingForm(h, new)
  <2>1. Len(h.pending) = s + 1 /\ s + 1 <= n + 1 /\ s + 1 # 0
    BY <1>4, <1>6, <1>7
  <2>2. \A i \in 1..s + 1 : h.pending[i] = (n + 1) - (s + 1) + i
    <3> TAKE i \in 1..s + 1
    <3>1. CASE i = s + 1
      BY <1>4, <1>7, <3>1
    <3>2. CASE i # s + 1
      <4>1. i \in 1..s
        BY <3>2
      <4>2. h.pending[i] = n - s + i
        BY <1>4, <1>6, <1>7, <4>1
      <4> QED BY <4>2
    <3> QED BY <3>1, <3>2
  <2>3. new[h.pending[1]].kind = "start" /\ ~SecondIn(new, h.pending[1])
    <3>1. 1 \in 1..s /\ held[1] \in 1..n
      BY <1>6
    <3>2. h.pending[1] = held[1]
      BY <1>4, <1>7, <3>1
    <3>3. txt[held[1]].kind = "start" /\ ~SecondIn(txt, held[1])
      BY <1>6, <1>3, <1>p DEF PendingForm
    <3>4. SecondIn(new, held[1]) <=> SecondIn(txt, held[1])
      BY <1>1, <3>1, TextsAgree
    <3> QED BY <1>1, <3>1, <3>2, <3>3, <3>4
  <2>4. \A i \in 2..s + 1 : new[h.pending[i]].kind = "part" \/ (i = 2 /\ new[h.pending[i]].kind = "start")
    <3> TAKE i \in 2..s + 1
    <3>1. CASE i = s + 1
      <4>1. h.pending[i] = n + 1
        BY <1>4, <1>7, <3>1
      <4>2. p.kind = "start" => i = 2
        BY <1>q, <3>1
      <4> QED BY <1>1, <4>1, <4>2
    <3>2. CASE i # s + 1
      <4>1. i \in 2..s /\ i \in 1..s
        BY <3>2
      <4>2. h.pending[i] = held[i] /\ held[i] \in 1..n
        BY <1>4, <1>6, <1>7, <4>1
      <4>3. txt[held[i]].kind = "part" \/ (i = 2 /\ txt[held[i]].kind = "start")
        BY <1>3, <1>p, <4>1 DEF PendingForm
      <4> QED BY <1>1, <4>2, <4>3
    <3> QED BY <3>1, <3>2
  <2> QED BY <1>1, <2>1, <2>2, <2>3, <2>4 DEF PendingForm
<1>9. TagsHeld(h, new)
  <2>1. ~OpenAt(new, Len(new))
    BY NotOpen
  <2> QED BY <1>3, <1>4, <2>1, TagsGrow
<1>10. HalfHeld(h, new)
  BY <1>1 DEF HalfHeld
<1>11. GuardForm(h, new)
  <2>1. \A i \in 1..Len(h.pending) : h.pending[i] \in 1..Len(new)
    <3>1. \A i \in 1..s : held[i] \in 1..n + 1
      BY <1>6
    <3>2. \A i \in 1..s + 1 : i \in 1..s \/ i = s + 1
      OBVIOUS
    <3>3. n + 1 \in 1..n + 1
      OBVIOUS
    <3> QED BY <1>1, <1>4, <1>7, <3>1, <3>2, <3>3
  <2> QED BY <1>3, <1>4, <1>8, <1>9, <1>10, <2>1, Reformed
<1>12. <<>> \o Held(h) = Append(Held(g), n + 1)
  <2>1. PICK hs \in Seq(Nat) : hs = Hold(g.sentinel)
    BY <1>3, HeldIs
  <2>2. Held(h) = hs \o Append(held, n + 1) /\ Held(g) = hs \o held
    BY <1>4, <1>p, <2>1 DEF Held
  <2>3. hs \o Append(held, n + 1) = Append(hs \o held, n + 1)
    <3>1. n + 1 \in Nat
      OBVIOUS
    <3> QED BY <3>1, JoinedAppend
  <2>4. <<>> \o Held(h) = Held(h)
    <3>1. Held(h) \in Seq(Nat)
      BY <1>4, HeldIs
    <3> QED BY <3>1
  <2> QED BY <2>2, <2>3, <2>4
<1>13. Feed(g, new).guard = h /\ Feed(g, new).out = <<>> /\ <<>> \in Seq(Nat) /\ Shown(new, <<>>)
  BY <1>5, QuietIs
<1> QED BY <1>1, <1>4, <1>11, <1>12, <1>13 DEF FedWell

\* A marker is whole, or too long.
LEMMA FedEnds ==
    ASSUME NEW txt, NEW p, NEW new, Grows(txt, p, new), NEW g, GuardForm(g, txt),
           NEW h \in Guards, Len(h.stack) <= MaxNesting, h.sentinel = g.sentinel, h.pending = <<>>,
           h.discard \/ TagsHeld(h, new), p.kind \in {"long", "control", "open", "close"}, NEW fed, fed = Quiet(h)
    PROVE  FedWell(g, new, fed)
<1>1. PICK n \in Nat : n = Len(txt) /\ Len(new) = n + 1 /\ new[n + 1] = p
  BY DEF Grows
<1>2. PendingForm(h, new)
  <2>1. Len(h.pending) = 0
    OBVIOUS
  <2> QED BY <1>1, <2>1 DEF PendingForm
<1>3. HalfHeld(h, new)
  BY <1>1 DEF HalfHeld
<1>4. GuardForm(h, new)
  <2>1. \A i \in 1..Len(h.pending) : h.pending[i] \in 1..Len(new)
    OBVIOUS
  <2> QED BY <1>2, <1>3, <2>1, Reformed
<1>5. ~OrdinaryIn(new)
  <2>1. n + 1 \in 1..Len(new) /\ p.kind \notin {"word", "start", "half"}
    BY <1>1
  <2> QED BY <1>1, <2>1 DEF OrdinaryIn
<1>6. fed.guard = h /\ fed.out = <<>> /\ <<>> \in Seq(Nat) /\ Shown(new, <<>>)
  BY QuietIs
<1> QED BY <1>4, <1>5, <1>6 DEF FedWell

\* The filter that drops the rest.
LEMMA GuardDiscard ==
    ASSUME NEW g \in Guards
    PROVE  /\ [g EXCEPT !.discard = TRUE] \in Guards /\ [g EXCEPT !.discard = TRUE].discard
           /\ [g EXCEPT !.discard = TRUE].stack = g.stack /\ [g EXCEPT !.discard = TRUE].sentinel = g.sentinel
           /\ [g EXCEPT !.discard = TRUE].pending = g.pending
BY DEF Guards

\* The filter with another stack.
LEMMA GuardStack ==
    ASSUME NEW g \in Guards, NEW q \in Seq(Tags)
    PROVE  /\ [g EXCEPT !.stack = q] \in Guards /\ [g EXCEPT !.stack = q].stack = q
           /\ [g EXCEPT !.stack = q].pending = g.pending /\ [g EXCEPT !.stack = q].sentinel = g.sentinel
           /\ [g EXCEPT !.stack = q].discard = g.discard
BY DEF Guards

\* The front of a sequence.
LEMMA FrontIs ==
    ASSUME NEW S, NEW s \in Seq(S), Len(s) # 0
    PROVE  /\ Front(s) \in Seq(S) /\ Len(Front(s)) = Len(s) - 1
           /\ \A k \in 1..Len(s) - 1 : Front(s)[k] = s[k]
<1>1. PICK n \in Nat : n = Len(s) - 1 /\ Len(s) = n + 1
  OBVIOUS
<1>2. SubSeq(s, 1, n) \in Seq(S) /\ Len(SubSeq(s, 1, n)) = n
  BY <1>1
<1>3. \A k \in 1..n : SubSeq(s, 1, n)[k] = s[k]
  BY <1>1
<1> QED BY <1>1, <1>2, <1>3 DEF Front

\* The four ways a marker ends.
LEMMA FedMarker ==
    ASSUME NEW txt, NEW p, NEW new, Grows(txt, p, new), NEW g, GuardForm(g, txt), ~g.discard, g.pending # <<>>,
           p.kind \in {"long", "control"} \/ (p.kind \in {"open", "close"} /\ ~Doubled(g, new))
    PROVE  FedWell(g, new, Feed(g, new))
<1>1. PICK n \in Nat : n = Len(txt) /\ Len(new) = n + 1 /\ new[n + 1] = p /\ \A i \in 1..n : new[i] = txt[i]
  BY DEF Grows
<1>2. g \in Guards /\ Len(g.stack) <= MaxNesting /\ TagsHeld(g, txt)
  BY DEF GuardForm
<1>3. PICK u \in Guards : /\ u = Unmarked(g) /\ u.pending = <<>> /\ u.stack = g.stack
                          /\ u.sentinel = g.sentinel /\ u.discard = g.discard
  BY <1>2, UnmarkedIs
<1>4. FeedCases(g, new, n + 1, p)
  BY <1>1, FeedIs
<1>5. PICK stack \in Seq(Tags) : stack = g.stack
  BY <1>2 DEF Guards
<1>6. CASE p.kind = "long"
  <2>1. Feed(g, new) = Quiet([u EXCEPT !.discard = TRUE])
    BY <1>3, <1>4, <1>6 DEF FeedCases
  <2>2. PICK h : h = [u EXCEPT !.discard = TRUE]
    OBVIOUS
  <2>3. h \in Guards /\ h.discard /\ h.stack = g.stack /\ h.sentinel = g.sentinel /\ h.pending = <<>>
    BY <1>3, <2>2, GuardDiscard
  <2> QED BY <1>2, <1>6, <2>1, <2>2, <2>3, FedEnds
<1>7. CASE p.kind = "control"
  <2>1. Feed(g, new) = Quiet(u)
    BY <1>3, <1>4, <1>7 DEF FeedCases
  <2>2. ~OpenAt(new, Len(new))
    BY <1>7, NotOpen
  <2>3. TagsHeld(u, new)
    BY <1>2, <1>3, <2>2, TagsGrow
  <2> QED BY <1>2, <1>3, <1>7, <2>1, <2>3, FedEnds
<1>8. CASE p.kind = "open" /\ ~Doubled(g, new)
  <2>1. Feed(g, new) = Quiet(Deeper(u, p.tag))
    BY <1>3, <1>4, <1>8 DEF FeedCases
  <2>2. CASE Len(g.stack) >= MaxNesting
    <3>1. PICK h : h = [u EXCEPT !.discard = TRUE]
      OBVIOUS
    <3>2. h \in Guards /\ h.discard /\ h.stack = g.stack /\ h.sentinel = g.sentinel /\ h.pending = <<>>
      BY <1>3, <3>1, GuardDiscard
    <3>3. Deeper(u, p.tag) = h
      BY <1>3, <2>2, <3>1 DEF Deeper
    <3> QED BY <1>2, <1>8, <2>1, <3>2, <3>3, FedEnds
  <2>3. CASE ~(Len(g.stack) >= MaxNesting)
    <3>0. PICK tag \in Tags : tag = p.tag
      <4>1. p \in TextPieces
        BY DEF Grows
      <4>2. p.tag \in Tags
        BY <1>8, <4>1 DEF TextPieces, PlainPieces
      <4> QED BY <4>2
    <3>1. PICK more \in Seq(Tags) : more = Append(stack, tag)
      <4>1. Append(stack, tag) \in Seq(Tags)
        OBVIOUS
      <4> QED BY <4>1
    <3>2. /\ Len(more) = Len(stack) + 1 /\ Len(stack) \in Nat /\ more[Len(stack) + 1] = tag
          /\ \A k \in 1..Len(stack) : more[k] = stack[k]
      BY <3>1
    <3>3. PICK h : h = [u EXCEPT !.stack = more]
      OBVIOUS
    <3>4. h \in Guards /\ h.stack = more /\ h.sentinel = g.sentinel /\ h.pending = <<>>
      BY <1>3, <3>3, GuardStack
    <3>5. Deeper(u, p.tag) = h
      <4>1. h = [u EXCEPT !.stack = Append(@, p.tag)]
        BY <1>3, <1>5, <3>0, <3>1, <3>3
      <4> QED BY <1>3, <2>3, <4>1 DEF Deeper
    <3>6. Len(h.stack) <= MaxNesting
      BY <1>5, <2>3, <3>2, <3>4, GatewayAssumption
    <3>7. TagsHeld(h, new)
      <4> SUFFICES ASSUME NEW b \in 1..Len(new), OpenAt(new, b), Unclosed(new, b, Len(new))
                   PROVE  \E k \in 1..Len(more) : more[k] = new[b].tag
        BY <3>4 DEF TagsHeld
      <4>1. CASE b = n + 1
        <5>1. Len(stack) + 1 \in 1..Len(more)
          BY <3>2
        <5> QED BY <1>1, <3>0, <3>2, <4>1, <5>1
      <4>2. CASE b # n + 1
        <5>1. b \in 1..Len(txt) /\ Len(new) \in Len(txt)..Len(new)
          BY <1>1, <4>2
        <5>2. OpenAt(txt, b) /\ Unclosed(txt, b, Len(txt)) /\ new[b] = txt[b]
          BY <1>1, <5>1, OpenBefore
        <5>3. PICK k \in 1..Len(stack) : stack[k] = txt[b].tag
          BY <1>2, <1>5, <5>1, <5>2 DEF TagsHeld
        <5>4. k \in 1..Len(more) /\ more[k] = stack[k]
          BY <3>2
        <5> QED BY <5>2, <5>3, <5>4
      <4> QED BY <4>1, <4>2
    <3> QED BY <1>8, <2>1, <3>4, <3>5, <3>6, <3>7, FedEnds
  <2> QED BY <2>2, <2>3
<1>9. CASE p.kind = "close" /\ ~Doubled(g, new)
  <2>1. Feed(g, new) = Quiet(Shallower(u, p.tag))
    BY <1>3, <1>4, <1>9 DEF FeedCases
  <2>2. CASE ~(u.stack # <<>> /\ Last(u.stack) = p.tag)
    <3>1. Shallower(u, p.tag) = u
      BY <2>2 DEF Shallower
    <3>2. ~OpenAt(new, Len(new))
      BY <1>9, NotOpen
    <3>3. TagsHeld(u, new)
      BY <1>2, <1>3, <3>2, TagsGrow
    <3> QED BY <1>2, <1>3, <1>9, <2>1, <3>1, <3>3, FedEnds
  <2>3. CASE u.stack # <<>> /\ Last(u.stack) = p.tag
    <3>1. stack # <<>> /\ stack[Len(stack)] = p.tag /\ Len(stack) \in Nat /\ Len(stack) # 0
      <4>1. u.stack = stack
        BY <1>3, <1>5
      <4>2. stack # <<>> /\ Last(stack) = p.tag
        BY <2>3, <4>1
      <4> QED BY <4>2 DEF Last
    <3>2. PICK less \in Seq(Tags) : less = Front(stack)
      BY <3>1, FrontIs
    <3>3. Len(less) = Len(stack) - 1 /\ \A k \in 1..Len(stack) - 1 : less[k] = stack[k]
      BY <3>1, <3>2, FrontIs
    <3>4. PICK h : h = [u EXCEPT !.stack = less]
      OBVIOUS
    <3>5. h \in Guards /\ h.stack = less /\ h.sentinel = g.sentinel /\ h.pending = <<>>
      BY <1>3, <3>4, GuardStack
    <3>6. Shallower(u, p.tag) = h
      <4>1. h = [u EXCEPT !.stack = Front(@)]
        BY <1>3, <1>5, <3>2, <3>4
      <4> QED BY <2>3, <4>1 DEF Shallower
    <3>7. Len(h.stack) <= MaxNesting
      <4>1. Len(stack) <= MaxNesting /\ MaxNesting \in Nat
        BY <1>2, <1>5, GatewayAssumption
      <4>2. Len(h.stack) = Len(stack) - 1
        BY <3>3, <3>5
      <4> QED BY <3>1, <4>1, <4>2
    <3>8. TagsHeld(h, new)
      <4> SUFFICES ASSUME NEW b \in 1..Len(new), OpenAt(new, b), Unclosed(new, b, Len(new))
                   PROVE  \E k \in 1..Len(less) : less[k] = new[b].tag
        BY <3>5 DEF TagsHeld
      <4>1. b # n + 1
        <5>1. ~OpenAt(new, n + 1)
          BY <1>1, <1>9, NotOpen
        <5> QED BY <5>1
      <4>2. b \in 1..Len(txt) /\ Len(new) \in Len(txt)..Len(new) /\ n + 1 \in b + 1..Len(new)
        BY <1>1, <4>1
      <4>3. OpenAt(txt, b) /\ Unclosed(txt, b, Len(txt)) /\ new[b] = txt[b]
        BY <1>1, <4>2, OpenBefore
      <4>4. PICK k \in 1..Len(stack) : stack[k] = txt[b].tag
        BY <1>2, <1>5, <4>2, <4>3 DEF TagsHeld
      <4>5. p.tag # new[b].tag
        BY <1>1, <1>9, <4>2 DEF Unclosed
      <4>6. k # Len(stack)
        BY <3>1, <4>3, <4>4, <4>5
      <4>7. k \in 1..Len(less) /\ less[k] = stack[k]
        BY <3>1, <3>3, <4>6
      <4> QED BY <4>3, <4>4, <4>7
    <3> QED BY <1>9, <2>1, <3>5, <3>6, <3>7, <3>8, FedEnds
  <2> QED BY <2>2, <2>3
<1> QED BY <1>6, <1>7, <1>8, <1>9

\* Where the pieces are that are held back: the last ones of the text.
LEMMA PlaceBounds ==
    ASSUME NEW n \in Nat, NEW s \in Nat, s <= n, NEW j \in 1..s + 1
    PROVE  /\ n - s + j \in Int /\ n - s + j \in 1..n + 1
           /\ j # s + 1 => n - s + j \in n - s + 1..n /\ n - s + j \in 1..n
           /\ j = s + 1 => n - s + j = n + 1
           /\ \A i \in n - s + j..n : i \in n - s + 1..n
OBVIOUS

\* Outside of a block: what is held back and turns out to be ordinary may be shown, and
\* all of it is, but for the beginning of a control sentence.
FreedWell(p, new, g, u, places, r) ==
    /\ r \in Streams /\ r.guard.pending = u.pending /\ r.guard.stack = <<>>
    /\ Shown(new, r.out) /\ SentinelForm(r.guard, new)
    /\ p.kind # "rest" \/ Len(places) = Len(g.pending) => ~r.guard.discard
    /\ ~r.guard.discard => r.out \o Hold(r.guard.sentinel) = Hold(g.sentinel) \o places
    /\ Len(places) = Len(g.pending) + 1 /\ ~r.guard.discard /\ p.kind = "half" => r.guard.sentinel = Len(new)
    /\ Len(places) = Len(g.pending) => r.guard.sentinel = 0

\* So it is.
LEMMA FreedOutside ==
    ASSUME NEW txt, NEW p, NEW new, Grows(txt, p, new), Placed(txt, p), NEW g, GuardForm(g, txt), ~g.discard,
           g.stack = <<>>, NEW u \in Guards, u.stack = <<>>, ~u.discard, u.sentinel = g.sentinel,
           NEW places \in Seq(Nat \ {0}), Len(places) # 0, Len(places) \in {Len(g.pending), Len(g.pending) + 1},
           \A j \in 1..Len(places) : places[j] = Len(txt) - Len(g.pending) + j
    PROVE  FreedWell(p, new, g, u, places, Released(u, places, new))
<1> PICK r : r = Released(u, places, new)
  OBVIOUS
<1> PICK s \in Nat, m \in Nat \ {0} : s = Len(g.pending) /\ m = Len(places)
  <2>1. g.pending \in Seq(Nat)
    BY DEF GuardForm, Guards
  <2>2. Len(g.pending) \in Nat /\ Len(places) \in Nat \ {0}
    BY <2>1
  <2> QED BY <2>2
<1> m \in {s, s + 1} /\ \A j \in 1..m : places[j] = Len(txt) - s + j
  OBVIOUS
<1>1. PICK n \in Nat : n = Len(txt) /\ Len(new) = n + 1 /\ new[n + 1] = p /\ \A i \in 1..n : new[i] = txt[i]
  BY DEF Grows
<1>2. /\ g \in Guards /\ PendingForm(g, txt) /\ TagsHeld(g, txt) /\ HalfHeld(g, txt) /\ SentinelForm(g, txt)
  BY DEF GuardForm
<1>3. /\ s <= n /\ \A i \in n - s + 1..n : txt[i].kind \in {"start", "part"}
      /\ (n > 0 /\ txt[n].kind \in {"start", "part"}) <=> g.pending # <<>>
  BY <1>1, <1>2, PendingLast
<1>4. Freed(u, places, new, m, r)
  BY ReleasedIs
<1>5. ASSUME NEW j \in 1..m PROVE /\ places[j] \in 1..n + 1 /\ places[j] = n - s + j /\ j \in 1..s + 1
                                  /\ (j # s + 1 => places[j] \in n - s + 1..n /\ places[j] \in 1..n)
                                  /\ (j = s + 1 => places[j] = n + 1)
  <2>1. places[j] = n - s + j
    BY <1>1
  <2>2. j \in 1..s + 1 /\ s <= n
    BY <1>3
  <2>3. /\ n - s + j \in 1..n + 1 /\ (j # s + 1 => n - s + j \in n - s + 1..n /\ n - s + j \in 1..n)
        /\ (j = s + 1 => n - s + j = n + 1)
    BY <2>2, PlaceBounds
  <2> QED BY <2>1, <2>2, <2>3
<1>6. ASSUME NEW j \in 1..m, j # s + 1 PROVE new[places[j]].kind \in {"start", "part"}
  <2>1. places[j] \in n - s + 1..n /\ places[j] \in 1..n
    BY <1>5, <1>6
  <2> QED BY <1>1, <1>3, <2>1
<1>7. ASSUME NEW j \in 1..m PROVE ~InsideIn(new, places[j])
  <2>1. places[j] \in 1..Len(new)
    BY <1>1, <1>5
  <2>2. \A i \in places[j]..Len(txt) : txt[i].kind # "close"
    <3>1. \A i \in places[j]..n : i \in n - s + 1..n
      <4>1. places[j] = n - s + j /\ j \in 1..s + 1 /\ s <= n
        BY <1>3, <1>5
      <4>2. \A i \in n - s + j..n : i \in n - s + 1..n
        BY <4>1, PlaceBounds
      <4> QED BY <4>1, <4>2
    <3> QED BY <1>1, <1>3, <3>1
  <2> QED BY <1>2, <2>1, <2>2, Outside
<1>8. p.kind = "rest" => n > 0 /\ txt[n].kind = "half" /\ s = 0 /\ g.sentinel = n
  <2> SUFFICES ASSUME p.kind = "rest" PROVE n > 0 /\ txt[n].kind = "half" /\ s = 0 /\ g.sentinel = n
    OBVIOUS
  <2>1. n > 0 /\ txt[n].kind = "half"
    BY <1>1 DEF Placed
  <2>2. g.pending = <<>>
    BY <1>3, <2>1
  <2>3. g.sentinel = n
    BY <1>1, <1>2, <2>1 DEF HalfHeld
  <2> QED BY <2>1, <2>2, <2>3
<1>9. ASSUME NEW x, Among(u, places, new, m, x) PROVE x \in 1..n + 1 /\ MayShow(new, x)
  <2>1. CASE x = u.sentinel /\ x # 0
    <3>1. SentinelForm(u, new)
      BY <1>2, SentinelGrows
    <3>2. x \in Nat /\ x <= n + 1 /\ new[x].kind = "half" /\ ~InsideIn(new, x)
      <4>1. x \in Nat
        BY <2>1 DEF Guards
      <4> QED BY <1>1, <2>1, <3>1, <4>1 DEF SentinelForm
    <3> QED BY <2>1, <3>2 DEF MayShow
  <2>2. ASSUME NEW j \in 1..m, x = places[j],
               new[x].kind = "rest" => \/ j = 1 /\ u.sentinel = 0
                                       \/ j > 1 /\ new[places[j - 1]].kind # "half"
        PROVE  x \in 1..n + 1 /\ MayShow(new, x)
    <3>1. x \in 1..n + 1 /\ ~InsideIn(new, x)
      BY <1>5, <1>7, <2>2
    <3>2. new[x].kind # "rest"
      <4>1. CASE j # s + 1
        BY <1>6, <2>2, <4>1
      <4>2. CASE j = s + 1
        <5>1. new[x] = p
          BY <1>1, <1>5, <2>2, <4>2
        <5>2. p.kind = "rest" => j = 1 /\ u.sentinel # 0
          BY <1>8, <4>2
        <5> QED BY <2>2, <5>1, <5>2
      <4> QED BY <4>1, <4>2
    <3> QED BY <3>1, <3>2 DEF MayShow
  <2> QED BY <1>9, <2>1, <2>2 DEF Among
<1>10. Shown(new, r.out)
  BY <1>1, <1>4, <1>9 DEF Freed, Shown
<1>11. m > 0 /\ m \in 1..m
  OBVIOUS
<1>12. r.guard.sentinel # 0 => m = s + 1 /\ r.guard.sentinel = n + 1 /\ p.kind = "half"
  <2> SUFFICES ASSUME r.guard.sentinel # 0 PROVE m = s + 1 /\ r.guard.sentinel = n + 1 /\ p.kind = "half"
    OBVIOUS
  <2>1. new[places[m]].kind = "half" /\ r.guard.sentinel = places[m]
    BY <1>4, <1>11 DEF Freed
  <2>2. m = s + 1
    BY <1>6, <1>11, <2>1
  <2> QED BY <1>1, <1>5, <1>11, <2>1, <2>2
<1>13. SentinelForm(r.guard, new)
  <2> SUFFICES ASSUME r.guard.sentinel # 0
               PROVE  /\ r.guard.sentinel <= Len(new) /\ new[r.guard.sentinel].kind = "half"
                      /\ ~InsideIn(new, r.guard.sentinel)
    BY DEF SentinelForm
  <2>1. r.guard.sentinel = places[m] /\ r.guard.sentinel = n + 1 /\ p.kind = "half"
    BY <1>5, <1>11, <1>12
  <2>2. ~InsideIn(new, places[m])
    BY <1>7, <1>11
  <2>3. n + 1 <= Len(new) /\ new[n + 1].kind = "half"
    BY <1>1, <2>1
  <2> QED BY <2>1, <2>2, <2>3
<1>14. p.kind # "rest" \/ m = s => ~r.guard.discard
  <2> SUFFICES ASSUME p.kind # "rest" \/ m = s, r.guard.discard PROVE FALSE
    OBVIOUS
  <2>1. PICK j \in 1..m : new[places[j]].kind = "rest"
    BY <1>4 DEF Freed
  <2>2. j = s + 1
    BY <1>6, <2>1
  <2>3. new[places[j]] = p /\ m # s
    <3>1. places[j] = n + 1
      BY <1>5, <2>2
    <3>2. m # s
      BY <2>2
    <3> QED BY <1>1, <3>1, <3>2
  <2> QED BY <2>1, <2>3
<1>15. ~r.guard.discard => r.out \o Hold(r.guard.sentinel) = Hold(g.sentinel) \o places
  <2>1. SubSeq(places, 1, m) = places
    OBVIOUS
  <2> QED BY <1>4, <2>1 DEF Freed
<1>16. m = s + 1 /\ ~r.guard.discard /\ p.kind = "half" => r.guard.sentinel = Len(new)
  <2> SUFFICES ASSUME m = s + 1, ~r.guard.discard, p.kind = "half" PROVE r.guard.sentinel = n + 1
    BY <1>1
  <2>1. places[m] = n + 1
    BY <1>5, <1>11
  <2> QED BY <1>1, <1>4, <1>11, <2>1 DEF Freed
<1>17. m = s => r.guard.sentinel = 0
  BY <1>12
<1>18. r \in Streams /\ r.guard.pending = u.pending /\ r.guard.stack = <<>>
  BY <1>4 DEF Freed
<1> QED BY <1>10, <1>13, <1>14, <1>15, <1>16, <1>17, <1>18 DEF FreedWell

\* What is held back turns out to be ordinary text, with the piece that says so.
LEMMA FedFrees ==
    ASSUME NEW txt, NEW p, NEW new, Grows(txt, p, new), Placed(txt, p), NEW g, GuardForm(g, txt), ~g.discard,
           p.kind \notin {"start", "part"}, ~OpenAt(new, Len(new)),
           NEW u \in Guards, u.pending = <<>>, u.stack = g.stack, u.sentinel = g.sentinel, ~u.discard,
           NEW fed, fed = Released(u, Append(g.pending, Len(new)), new)
    PROVE  FedWell(g, new, fed)
<1>1. PICK n \in Nat : n = Len(txt) /\ Len(new) = n + 1 /\ new[n + 1] = p
  BY DEF Grows
<1>2. g \in Guards /\ Len(g.stack) <= MaxNesting /\ PendingForm(g, txt) /\ TagsHeld(g, txt)
  BY DEF GuardForm
<1>3. PICK held \in Seq(Nat), s \in Nat : held = g.pending /\ s = Len(held)
  BY <1>2 DEF Guards
<1>4. s <= n /\ \A i \in 1..s : held[i] = n - s + i
  BY <1>1, <1>2, <1>3 DEF PendingForm
<1>5. PICK places \in Seq(Nat) : places = Append(held, n + 1)
  <2>1. Append(held, n + 1) \in Seq(Nat)
    OBVIOUS
  <2> QED BY <2>1
<1>6. Len(places) = s + 1 /\ places[s + 1] = n + 1 /\ \A i \in 1..s : places[i] = held[i]
  BY <1>3, <1>5
<1>7. \A j \in 1..s + 1 : places[j] = n - s + j
  <2> TAKE j \in 1..s + 1
  <2>1. CASE j = s + 1
    <3>1. n - s + j = n + 1
      BY <1>4, <2>1, PlaceBounds
    <3> QED BY <1>6, <2>1, <3>1
  <2>2. CASE j # s + 1
    <3>1. j \in 1..s
      BY <2>2
    <3> QED BY <1>4, <1>6, <3>1
  <2> QED BY <2>1, <2>2
<1>8. places \in Seq(Nat \ {0})
  <2>1. \A j \in 1..s + 1 : places[j] \in 1..n + 1
    BY <1>4, <1>7, PlaceBounds
  <2>2. \A x \in 1..n + 1 : x \in Nat \ {0}
    OBVIOUS
  <2>3. \A j \in 1..s + 1 : places[j] \in Nat \ {0}
    BY <2>1, <2>2
  <2>4. places \in [1..s + 1 -> Nat \ {0}]
    BY <1>6, <2>3
  <2>5. s + 1 \in Nat
    OBVIOUS
  <2> QED BY <2>4, <2>5, ListIsSeq
<1>9. fed = Released(u, places, new)
  BY <1>1, <1>3, <1>5
<1>10. u.discard \in BOOLEAN /\ Len(u.stack) <= MaxNesting
  BY <1>2 DEF Guards
<1>11. ASSUME NEW h \in Guards, h.pending = <<>> PROVE PendingForm(h, new)
  <2>1. Len(h.pending) = 0
    BY <1>11
  <2> QED BY <1>1, <2>1 DEF PendingForm
<1>12. ASSUME NEW h, h.stack = g.stack PROVE TagsHeld(h, new)
  BY <1>2, <1>12, TagsGrow
<1>13. CASE g.stack # <<>>
  <2>1. fed = Quiet(u)
    BY <1>9, <1>13, ReleasedInside DEF Quiet
  <2>2. HalfHeld(u, new)
    BY <1>13 DEF HalfHeld
  <2>3. GuardForm(u, new)
    <3>1. \A i \in 1..Len(u.pending) : u.pending[i] \in 1..Len(new)
      OBVIOUS
    <3> QED BY <1>10, <1>11, <1>12, <2>2, <3>1, Reformed
  <2>4. fed.guard = u /\ fed.out = <<>> /\ <<>> \in Seq(Nat) /\ Shown(new, <<>>)
    BY <2>1, QuietIs
  <2> QED BY <1>13, <2>3, <2>4 DEF FedWell
<1>14. CASE g.stack = <<>>
  <2>0. s + 1 \in Nat \ {0} /\ s + 1 \in {s, s + 1} /\ s + 1 # s
    OBVIOUS
  <2>1. /\ fed \in Streams /\ fed.guard.pending = <<>> /\ fed.guard.stack = <<>>
        /\ Shown(new, fed.out) /\ SentinelForm(fed.guard, new)
        /\ p.kind # "rest" => ~fed.guard.discard
        /\ ~fed.guard.discard => fed.out \o Hold(fed.guard.sentinel) = Hold(g.sentinel) \o places
        /\ ~fed.guard.discard /\ p.kind = "half" => fed.guard.sentinel = Len(new)
    <3>1. s = Len(g.pending) /\ \A j \in 1..s + 1 : places[j] = Len(txt) - s + j
      BY <1>1, <1>3, <1>7
    <3>2. Len(places) # 0 /\ Len(places) = Len(g.pending) + 1 /\ Len(places) # Len(g.pending)
      BY <1>6, <2>0, <3>1
    <3>3. \A j \in 1..Len(places) : places[j] = Len(txt) - Len(g.pending) + j
      BY <1>6, <3>1
    <3>4. Len(places) \in {Len(g.pending), Len(g.pending) + 1}
      BY <3>2
    <3>5. FreedWell(p, new, g, u, places, fed)
      <4>1. u.stack = <<>>
        BY <1>14
      <4>2. Len(places) # 0
        BY <3>2
      <4>3. FreedWell(p, new, g, u, places, Released(u, places, new))
        BY <1>8, <1>14, <3>3, <3>4, <4>1, <4>2, FreedOutside
      <4> QED BY <1>9, <4>3
    <3> QED BY <3>2, <3>5 DEF FreedWell
  <2>2. fed.guard \in Guards /\ fed.out \in Seq(Nat) /\ Len(fed.guard.stack) = 0
    BY <2>1 DEF Streams
  <2>3. HalfHeld(fed.guard, new) \/ fed.guard.discard
    <3>1. p.kind = "half" \/ HalfHeld(fed.guard, new)
      BY <1>1 DEF HalfHeld
    <3> QED BY <2>1, <3>1 DEF HalfHeld
  <2>4. GuardForm(fed.guard, new)
    <3>1. \A i \in 1..Len(fed.guard.pending) : fed.guard.pending[i] \in 1..Len(new)
      BY <2>1
    <3>2. Len(fed.guard.stack) <= MaxNesting
      BY <2>2, GatewayAssumption
    <3>3. PendingForm(fed.guard, new) /\ TagsHeld(fed.guard, new)
      BY <1>11, <1>12, <1>14, <2>1, <2>2
    <3> QED BY <2>1, <2>2, <2>3, <3>1, <3>2, <3>3 DEF GuardForm
  <2>5. ASSUME OrdinaryIn(new)
        PROVE  ~fed.guard.discard /\ fed.out \o Held(fed.guard) = Append(Held(g), Len(new))
    <3>1. n + 1 \in 1..Len(new)
      BY <1>1
    <3>2. p.kind # "rest"
      BY <1>1, <2>5, <3>1 DEF OrdinaryIn
    <3>3. ~fed.guard.discard /\ fed.out \o Hold(fed.guard.sentinel) = Hold(g.sentinel) \o places
      BY <2>1, <3>2
    <3>4. Held(fed.guard) = Hold(fed.guard.sentinel)
      <4>1. PICK hs \in Seq(Nat) : hs = Hold(fed.guard.sentinel)
        BY <2>2, HeldIs
      <4>2. hs \o <<>> = hs
        OBVIOUS
      <4> QED BY <2>1, <4>1, <4>2 DEF Held
    <3>5. Hold(g.sentinel) \o places = Append(Held(g), Len(new))
      <4>1. PICK hs \in Seq(Nat) : hs = Hold(g.sentinel)
        BY <1>2, HeldIs
      <4>2. n + 1 \in Nat
        OBVIOUS
      <4>3. hs \o Append(held, n + 1) = Append(hs \o held, n + 1)
        BY <4>2, JoinedAppend
      <4> QED BY <1>1, <1>3, <1>5, <4>1, <4>3 DEF Held
    <3> QED BY <3>3, <3>4, <3>5
  <2> QED BY <2>1, <2>2, <2>4, <2>5 DEF FedWell
<1> QED BY <1>13, <1>14

\* What is held back turns out to be ordinary text, and the piece begins a marker.
LEMMA FedAgain ==
    ASSUME NEW txt, NEW p, NEW new, Grows(txt, p, new), Placed(txt, p), NEW g, GuardForm(g, txt), ~g.discard,
           p.kind = "start", Len(g.pending) > 1, g.pending # <<>>,
           NEW u \in Guards, u.pending = <<>>, u.stack = g.stack, u.sentinel = g.sentinel, ~u.discard,
           NEW fed, fed = [Released(u, g.pending, new) EXCEPT !.guard.pending = <<Len(new)>>]
    PROVE  FedWell(g, new, fed)
<1>1. PICK n \in Nat : n = Len(txt) /\ Len(new) = n + 1 /\ new[n + 1] = p /\ \A i \in 1..n : new[i] = txt[i]
  BY DEF Grows
<1>2. g \in Guards /\ Len(g.stack) <= MaxNesting /\ PendingForm(g, txt) /\ TagsHeld(g, txt)
  BY DEF GuardForm
<1>3. PICK held \in Seq(Nat), s \in Nat : held = g.pending /\ s = Len(held)
  <2>1. g.pending \in Seq(Nat)
    BY <1>2 DEF Guards
  <2>2. Len(g.pending) \in Nat
    BY <2>1
  <2> QED BY <2>1, <2>2
<1>4. s > 1 /\ s <= n /\ \A i \in 1..s : held[i] = n - s + i
  BY <1>1, <1>2, <1>3 DEF PendingForm
<1>5. held \in Seq(Nat \ {0})
  <2>1. \A j \in 1..s : j \in 1..s + 1 /\ j # s + 1
    OBVIOUS
  <2>2. \A j \in 1..s : held[j] \in 1..n
    BY <1>4, <2>1, PlaceBounds
  <2>3. \A x \in 1..n : x \in Nat \ {0}
    OBVIOUS
  <2>4. \A j \in 1..s : held[j] \in Nat \ {0}
    BY <2>2, <2>3
  <2>5. held \in [1..s -> Nat \ {0}]
    BY <1>3, <2>4
  <2> QED BY <2>5
<1>6. PICK r : r = Released(u, held, new)
  OBVIOUS
<1>7. ~SecondIn(new, n + 1)
  <2>1. s \in 2..s /\ held[s] = n /\ 1 \in 1..s /\ held[1] = n - s + 1 /\ n \in 1..n /\ n > 0
    BY <1>4
  <2>2. txt[n].kind = "part" \/ (s = 2 /\ txt[n].kind = "start")
    BY <1>2, <1>3, <2>1 DEF PendingForm
  <2>3. CASE txt[n].kind = "part"
    BY <1>1, <2>1, <2>3, FirstAgain
  <2>4. CASE s = 2
    <3>1. n > 1 /\ n - 1 \in 1..n /\ held[1] = n - 1
      BY <1>4, <2>1, <2>4
    <3>2. txt[n - 1].kind = "start" /\ ~SecondIn(txt, n - 1)
      BY <1>2, <1>3, <1>4, <3>1 DEF PendingForm
    <3>3. new[n - 1].kind = "start" /\ ~SecondIn(new, n - 1)
      BY <1>1, <3>1, <3>2, TextsAgree
    <3> QED BY <2>1, <3>1, <3>3, FirstAgain
  <2> QED BY <2>2, <2>3, <2>4
<1>8. ASSUME NEW h \in Guards, h.pending = <<n + 1>> PROVE PendingForm(h, new)
  <2>1. Len(h.pending) = 1 /\ h.pending[1] = n + 1
    BY <1>8
  <2>2. \A i \in 1..1 : i = 1
    OBVIOUS
  <2>3. ~(1 = 0) /\ 1 <= n + 1 /\ n + 1 = (n + 1) - 1 + 1 /\ \A i \in 2..1 : FALSE
    OBVIOUS
  <2> QED BY <1>1, <1>7, <2>1, <2>2, <2>3 DEF PendingForm
<1>9. ASSUME NEW h, h.stack = g.stack PROVE TagsHeld(h, new)
  <2>1. ~OpenAt(new, Len(new))
    BY NotOpen
  <2> QED BY <1>2, <1>9, <2>1, TagsGrow
<1>10. ASSUME NEW h PROVE HalfHeld(h, new)
  BY <1>1 DEF HalfHeld
<1>11. <<n + 1>> \in Seq(Nat) /\ \A i \in 1..Len(<<n + 1>>) : <<n + 1>>[i] \in 1..Len(new)
  BY <1>1
<1>12. ASSUME r \in Streams
       PROVE  /\ fed.out = r.out /\ fed.guard \in Guards /\ fed.guard.pending = <<n + 1>> /\ fed.guard.stack = r.guard.stack
              /\ fed.guard.sentinel = r.guard.sentinel /\ fed.guard.discard = r.guard.discard
  <2>1. r.guard \in Guards /\ r = [guard |-> r.guard, out |-> r.out]
    BY <1>12 DEF Streams
  <2>2. fed = [guard |-> [r.guard EXCEPT !.pending = <<n + 1>>], out |-> r.out]
    BY <1>1, <1>3, <1>6, <2>1
  <2>3. PICK h : h = [r.guard EXCEPT !.pending = <<n + 1>>]
    OBVIOUS
  <2>4. /\ h \in Guards /\ h.pending = <<n + 1>> /\ h.stack = r.guard.stack
        /\ h.sentinel = r.guard.sentinel /\ h.discard = r.guard.discard
    BY <1>11, <2>1, <2>3, GuardPending
  <2>5. fed.guard = h /\ fed.out = r.out
    BY <2>2, <2>3
  <2> QED BY <2>4, <2>5
<1>13. CASE g.stack # <<>>
  <2>1. r = Quiet(u)
    BY <1>6, <1>13, ReleasedInside DEF Quiet
  <2>2. r.guard = u /\ r.out = <<>> /\ <<>> \in Seq(Nat) /\ Shown(new, <<>>) /\ r \in Streams
    <3>1. <<>> \in Seq(Nat)
      OBVIOUS
    <3> QED BY <2>1, <3>1, QuietIs DEF Quiet, Streams
  <2>3. GuardForm(fed.guard, new)
    BY <1>2, <1>8, <1>9, <1>10, <1>11, <1>12, <2>2, Reformed
  <2> QED BY <1>12, <1>13, <2>2, <2>3 DEF FedWell
<1>14. CASE g.stack = <<>>
  <2>1. /\ r \in Streams /\ r.guard.stack = <<>> /\ Shown(new, r.out) /\ ~r.guard.discard
        /\ r.out \o Hold(r.guard.sentinel) = Hold(g.sentinel) \o held /\ r.guard.sentinel = 0
    <3>1. s = Len(g.pending) /\ s = Len(held) /\ \A j \in 1..s : held[j] = Len(txt) - s + j
      BY <1>1, <1>3, <1>4
    <3>2. s \in Nat \ {0} /\ s \in {s, s + 1}
      BY <1>4
    <3>3. Len(held) # 0 /\ Len(held) = Len(g.pending) /\ Len(held) \in {Len(g.pending), Len(g.pending) + 1}
      BY <3>1, <3>2
    <3>4. \A j \in 1..Len(held) : held[j] = Len(txt) - Len(g.pending) + j
      BY <3>1
    <3>5. FreedWell(p, new, g, u, held, r)
      BY <1>5, <1>6, <1>14, <3>3, <3>4, FreedOutside
    <3> QED BY <3>3, <3>5 DEF FreedWell
  <2>2. fed.guard.sentinel = 0 /\ fed.guard.stack = <<>> /\ ~fed.guard.discard /\ fed.out = r.out
    BY <1>12, <2>1
  <2>3. GuardForm(fed.guard, new)
    <3>1. SentinelForm(fed.guard, new)
      BY <2>2 DEF SentinelForm
    <3>2. Len(fed.guard.stack) <= MaxNesting
      BY <1>2, <1>14, <2>2
    <3>3. fed.guard \in Guards /\ fed.guard.pending = <<n + 1>>
      BY <1>12, <2>1
    <3>4. PendingForm(fed.guard, new) /\ TagsHeld(fed.guard, new) /\ HalfHeld(fed.guard, new)
      BY <1>8, <1>9, <1>10, <1>14, <2>2, <3>3
    <3> QED BY <1>11, <3>1, <3>2, <3>3, <3>4 DEF GuardForm
  <2>4. fed.out \o Held(fed.guard) = Append(Held(g), n + 1)
    <3>1. PICK out \in Seq(Nat) : out = r.out
      BY <2>1 DEF Streams
    <3>2. Held(fed.guard) = <<>> \o <<n + 1>> /\ Hold(r.guard.sentinel) = <<>>
      BY <1>12, <2>1, <2>2 DEF Held, Hold
    <3>3. <<>> \o <<n + 1>> = <<n + 1>> /\ out \o <<>> = out /\ out \o <<n + 1>> = Append(out, n + 1)
      OBVIOUS
    <3>4. Held(g) = out
      BY <1>3, <2>1, <3>1, <3>2, <3>3 DEF Held
    <3> QED BY <2>2, <3>1, <3>2, <3>3, <3>4
  <2>5. fed.out \in Seq(Nat)
    BY <2>1, <2>2 DEF Streams
  <2> QED BY <1>1, <2>1, <2>2, <2>3, <2>4, <2>5 DEF FedWell
<1> QED BY <1>13, <1>14

\* After "<<" nothing opens a block.
LEMMA DoubledOpensNone ==
    ASSUME NEW txt, NEW p, NEW new, Grows(txt, p, new), NEW g \in Guards, PendingForm(g, txt), Doubled(g, new)
    PROVE  ~OpenAt(new, Len(new))
<1>1. PICK n \in Nat : n = Len(txt) /\ Len(new) = n + 1 /\ \A i \in 1..n : new[i] = txt[i]
  BY DEF Grows
<1>2. PICK held \in Seq(Nat), s \in Nat : held = g.pending /\ s = Len(held)
  <2>1. g.pending \in Seq(Nat)
    BY DEF Guards
  <2>2. Len(g.pending) \in Nat
    BY <2>1
  <2> QED BY <2>1, <2>2
<1>3. s > 1 /\ new[held[2]].kind = "start"
  BY <1>2 DEF Doubled
<1>4. s <= n /\ held[1] = n - s + 1 /\ held[2] = n - s + 2
  <2>1. 1 \in 1..s /\ 2 \in 1..s
    BY <1>3
  <2> QED BY <1>1, <1>2, <2>1 DEF PendingForm
<1>5. PICK f \in Nat \ {0} : f = n - s + 1 /\ f + 1 = n - s + 2 /\ f \in 1..n /\ f + 1 \in 1..n
  <2>1. n - s + 1 \in Nat \ {0} /\ (n - s + 1) + 1 = n - s + 2 /\ n - s + 1 \in 1..n /\ n - s + 2 \in 1..n
    BY <1>3, <1>4
  <2> QED BY <2>1
<1>6. new[f].kind = "start" /\ ~SecondIn(new, f) /\ new[f + 1].kind = "start"
  <2>1. held[1] = f /\ held[2] = f + 1
    BY <1>4, <1>5
  <2>2. txt[f].kind = "start" /\ ~SecondIn(txt, f)
    BY <1>2, <1>3, <2>1 DEF PendingForm
  <2>3. SecondIn(new, f) <=> SecondIn(txt, f)
    <3>1. \A a \in 1..n : SecondIn(new, a) <=> SecondIn(txt, a)
      BY <1>1, TextsAgree
    <3> QED BY <1>5, <3>1
  <2> QED BY <1>1, <1>3, <1>5, <2>1, <2>2, <2>3
<1>7. SecondIn(new, f + 1)
  BY <1>6, AfterFirst
<1>8. \A a \in f + 2..n : txt[a].kind = "part"
  <2> TAKE a \in f + 2..n
  <2>1. a - f + 1 \in 3..s /\ a - f + 1 \in 2..s /\ a - f + 1 \in 1..s /\ a - f + 1 # 2 /\ n - s + (a - f + 1) = a
    BY <1>4, <1>5
  <2>2. held[a - f + 1] = a
    BY <1>1, <1>2, <2>1 DEF PendingForm
  <2> QED BY <1>2, <2>1, <2>2 DEF PendingForm
<1>9. SUFFICES ASSUME NEW a \in 1..(n + 1) - 1, MarkerIn(new, a, n + 1, "open") PROVE FALSE
  BY <1>1 DEF OpenAt
<1>10. CASE a <= f
  <2>1. f + 1 \in a + 1..(n + 1) - 1
    BY <1>5, <1>10
  <2> QED BY <1>6, <1>9, <2>1 DEF MarkerIn
<1>11. CASE a = f + 1
  BY <1>7, <1>9, <1>11 DEF MarkerIn
<1>12. CASE a > f + 1
  <2>1. a \in f + 2..n /\ a \in 1..n
    BY <1>5, <1>12
  <2> QED BY <1>1, <1>8, <1>9, <2>1 DEF MarkerIn
<1> QED BY <1>5, <1>10, <1>11, <1>12

\* Every piece is fed well.
LEMMA FeedWell ==
    ASSUME NEW txt, NEW p, NEW new, Grows(txt, p, new), Placed(txt, p), NEW g, GuardForm(g, txt)
    PROVE  FedWell(g, new, Feed(g, new))
<1>1. g \in Guards /\ g.discard \in BOOLEAN
  BY DEF GuardForm, Guards
<1>2. CASE g.discard
  BY <1>2, FedDropped
<1>3. CASE ~g.discard
  <2>1. PICK n \in Nat : n = Len(txt) /\ Len(new) = n + 1 /\ new[n + 1] = p
    BY DEF Grows
  <2>2. FeedCases(g, new, n + 1, p)
    BY <2>1, FeedIs
  <2>3. PendingForm(g, txt)
    BY <1>3 DEF GuardForm
  <2>4. /\ Len(g.pending) \in Nat
        /\ (n > 0 /\ txt[n].kind \in {"start", "part"}) <=> g.pending # <<>>
    BY <1>1, <2>1, <2>3, PendingLast
  <2>5. PICK u \in Guards : /\ u = Unmarked(g) /\ u.pending = <<>> /\ u.stack = g.stack
                            /\ u.sentinel = g.sentinel /\ u.discard = g.discard
    BY <1>1, UnmarkedIs
  <2>6. CASE g.pending = <<>> /\ p.kind = "start"
    BY <1>3, <2>6, FedBegins
  <2>7. CASE g.pending = <<>> /\ p.kind # "start"
    <3>1. p.kind # "part" /\ p.kind # "open"
      BY <2>1, <2>4, <2>7 DEF Placed
    <3>2. ~OpenAt(new, Len(new))
      BY <3>1, NotOpen
    <3>3. Append(g.pending, Len(new)) = <<n + 1>>
      BY <2>1, <2>7
    <3>4. Feed(g, new) = Released(g, Append(g.pending, Len(new)), new)
      BY <1>3, <2>2, <2>7, <3>3 DEF FeedCases
    <3> QED BY <1>1, <1>3, <2>7, <3>1, <3>2, <3>4, FedFrees
  <2>8. CASE g.pending # <<>> /\ (p.kind = "part" \/ (p.kind = "start" /\ Len(g.pending) = 1))
    BY <1>3, <2>8, FedHolds
  <2>9. CASE g.pending # <<>> /\ p.kind = "start" /\ Len(g.pending) # 1
    <3>1. Len(g.pending) # 0
      BY <1>1, <2>9 DEF Guards
    <3>2. Len(g.pending) > 1
      <4>1. PICK k \in Nat : k = Len(g.pending)
        BY <2>4
      <4>2. k # 0 /\ k # 1
        BY <2>9, <3>1, <4>1
      <4>3. k > 1
        BY <4>2
      <4> QED BY <4>1, <4>3
    <3>3. Feed(g, new) = [Released(u, g.pending, new) EXCEPT !.guard.pending = <<n + 1>>]
      BY <1>3, <2>2, <2>5, <2>9, <3>2 DEF FeedCases
    <3>4. Feed(g, new) = [Released(u, g.pending, new) EXCEPT !.guard.pending = <<Len(new)>>]
      BY <2>1, <3>3
    <3> QED BY <1>3, <2>5, <2>9, <3>2, <3>4, FedAgain
  <2>10. CASE g.pending # <<>> /\ (p.kind \in {"long", "control"} \/ (p.kind \in {"open", "close"} /\ ~Doubled(g, new)))
    BY <1>3, <2>10, FedMarker
  <2>11. CASE /\ g.pending # <<>> /\ p.kind \notin {"part", "start", "long", "control"}
              /\ p.kind \in {"open", "close"} => Doubled(g, new)
    <3>1. Feed(g, new) = Released(u, Append(g.pending, Len(new)), new)
      BY <1>3, <2>1, <2>2, <2>5, <2>11 DEF FeedCases
    <3>2. ~OpenAt(new, Len(new))
      <4>1. CASE p.kind = "open"
        BY <1>1, <2>3, <2>11, <4>1, DoubledOpensNone
      <4>2. CASE p.kind # "open"
        BY <4>2, NotOpen
      <4> QED BY <4>1, <4>2
    <3>3. p.kind \notin {"start", "part"} /\ ~u.discard
      BY <1>3, <2>5, <2>11
    <3> QED BY <1>3, <2>5, <3>1, <3>2, <3>3, FedFrees
  <2> QED BY <2>6, <2>7, <2>8, <2>9, <2>10, <2>11
<1> QED BY <1>1, <1>2, <1>3

\* Joining sequences is associative.
LEMMA JoinedJoined ==
    ASSUME NEW a \in Seq(Nat), NEW b \in Seq(Nat), NEW c \in Seq(Nat)
    PROVE  (a \o b) \o c = a \o (b \o c)
OBVIOUS

\* The positions of a text with one piece more.
LEMMA WholeOneMore == ASSUME NEW n \in Nat PROVE /\ Append(Whole(n), n + 1) = Whole(n + 1) /\ Whole(0) = <<>>
                                                 /\ Whole(n) \in Seq(Nat) /\ Len(Whole(n)) = n
BY DEF Whole

\* Ordinary text is published or held back.
LEMMA TextFed ==
    ASSUME NEW txt, NEW p, NEW new, Grows(txt, p, new), NEW g \in Guards, NEW out \in Seq(Nat),
           TextHeld(g, txt, out), NEW fed, FedWell(g, new, fed)
    PROVE  TextHeld(fed.guard, new, out \o fed.out)
<1> SUFFICES ASSUME OrdinaryIn(new)
             PROVE  ~fed.guard.discard /\ fed.guard.stack = <<>> /\ (out \o fed.out) \o Held(fed.guard) = Whole(Len(new))
  BY DEF TextHeld
<1>1. PICK n \in Nat : n = Len(txt) /\ Len(new) = n + 1 /\ \A i \in 1..n : new[i] = txt[i]
  BY DEF Grows
<1>2. OrdinaryIn(txt)
  <2>1. \A i \in 1..n : i \in 1..n + 1
    OBVIOUS
  <2> QED BY <1>1, <2>1 DEF OrdinaryIn
<1>3. ~g.discard /\ g.stack = <<>> /\ out \o Held(g) = Whole(n)
  BY <1>1, <1>2 DEF TextHeld
<1>4. ~fed.guard.discard /\ fed.guard.stack = <<>> /\ fed.out \o Held(fed.guard) = Append(Held(g), n + 1)
  BY <1>1, <1>3 DEF FedWell
<1>5. fed.out \in Seq(Nat) /\ Held(fed.guard) \in Seq(Nat) /\ Held(g) \in Seq(Nat) /\ n + 1 \in Nat
  BY HeldIs DEF FedWell, GuardForm
<1>6. (out \o fed.out) \o Held(fed.guard) = out \o (fed.out \o Held(fed.guard))
  BY <1>5, JoinedJoined
<1>7. out \o Append(Held(g), n + 1) = Append(out \o Held(g), n + 1)
  BY <1>5, JoinedAppend
<1>8. Append(Whole(n), n + 1) = Whole(n + 1)
  BY WholeOneMore
<1> QED BY <1>1, <1>3, <1>4, <1>6, <1>7, <1>8

-----------------------------------------------------------------------------
(* The steps of a call *)

\* Two sequences that may be shown may be shown one after the other.
LEMMA ShownJoined ==
    ASSUME NEW txt, NEW a \in Seq(Nat), NEW b \in Seq(Nat), Shown(txt, a), Shown(txt, b)
    PROVE  a \o b \in Seq(Nat) /\ Shown(txt, a \o b)
<1>1. /\ a \o b \in Seq(Nat) /\ Len(a \o b) = Len(a) + Len(b)
      /\ \A i \in 1..Len(a) : (a \o b)[i] = a[i]
      /\ \A i \in 1..Len(b) : (a \o b)[Len(a) + i] = b[i]
  BY SeqsJoined
<1>2. ASSUME NEW k \in 1..Len(a) + Len(b) PROVE (a \o b)[k] \in 1..Len(txt) /\ MayShow(txt, (a \o b)[k])
  <2>1. CASE k <= Len(a)
    <3>1. k \in 1..Len(a)
      BY <2>1
    <3> QED BY <1>1, <3>1 DEF Shown
  <2>2. CASE k > Len(a)
    <3>1. k - Len(a) \in 1..Len(b) /\ Len(a) + (k - Len(a)) = k
      BY <2>2
    <3> QED BY <1>1, <3>1 DEF Shown
  <2> QED BY <2>1, <2>2
<1> QED BY <1>1, <1>2 DEF Shown

\* Outside of every block at the end of the text, what no closing tag follows is in none.
LEMMA OutsideHere ==
    ASSUME NEW txt, Len(txt) \in Nat, NEW g, TagsHeld(g, txt), g.stack = <<>>,
           NEW m \in 1..Len(txt), \A i \in m..Len(txt) : txt[i].kind # "close"
    PROVE  ~InsideIn(txt, m)
<1> SUFFICES ASSUME NEW b \in 1..m - 1, OpenAt(txt, b), Unclosed(txt, b, m - 1) PROVE FALSE
  BY DEF InsideIn
<1>1. PICK n \in Nat : n = Len(txt)
  OBVIOUS
<1>2. Unclosed(txt, b, n)
  <2>1. ASSUME NEW c \in b + 1..n PROVE ~(txt[c].kind = "close" /\ txt[c].tag = txt[b].tag)
    <3>1. CASE c \in b + 1..m - 1
      BY <3>1 DEF Unclosed
    <3>2. CASE c \in m..n
      BY <1>1, <3>2
    <3> QED BY <1>1, <3>1, <3>2
  <2> QED BY <2>1 DEF Unclosed
<1>3. b \in 1..n /\ Len(g.stack) = 0
  BY <1>1
<1> QED BY <1>1, <1>2, <1>3 DEF TagsHeld

\* What is published at the end of a completion (Flush).
LEMMA FlushWell ==
    ASSUME NEW txt, Len(txt) \in Nat, NEW g, GuardForm(g, txt)
    PROVE  /\ Flush(g) \in Seq(Nat) /\ Shown(txt, Flush(g))
           /\ ~g.discard /\ g.stack = <<>> /\ Len(g.pending) <= 1 => Flush(g) = Held(g)
<1>1. g \in Guards
  BY DEF GuardForm
<1>2. PICK held \in Seq(Nat), hs \in Seq(Nat) : held = g.pending /\ hs = Hold(g.sentinel)
  BY <1>1, HeldIs
<1>3. CASE g.discard \/ g.stack # <<>>
  <2>1. Flush(g) = <<>>
    BY <1>3 DEF Flush
  <2>2. <<>> \in Seq(Nat) /\ Shown(txt, <<>>)
    BY DEF Shown
  <2> QED BY <1>3, <2>1, <2>2
<1>4. CASE ~(g.discard \/ g.stack # <<>>)
  <2>0. PendingForm(g, txt) /\ TagsHeld(g, txt) /\ SentinelForm(g, txt) /\ g.stack = <<>>
    BY <1>4 DEF GuardForm
  <2>1. PICK last : last = IF Len(held) = 1 THEN held ELSE <<>>
    OBVIOUS
  <2>2. last \in Seq(Nat) /\ Flush(g) = hs \o last
    <3>1. last \in Seq(Nat)
      BY <2>1
    <3>2. Flush(g) = hs \o last
      BY <1>2, <1>4, <2>1 DEF Flush, Hold
    <3> QED BY <3>1, <3>2
  <2>3. Shown(txt, hs)
    <3>1. CASE g.sentinel = 0
      <4>1. hs = <<>>
        BY <1>2, <3>1 DEF Hold
      <4> QED BY <4>1 DEF Shown
    <3>2. CASE g.sentinel # 0
      <4>1. PICK s \in Nat : s = g.sentinel
        BY <1>1 DEF Guards
      <4>2. s \in 1..Len(txt) /\ txt[s].kind = "half" /\ ~InsideIn(txt, s)
        BY <2>0, <3>2, <4>1 DEF SentinelForm
      <4>3. MayShow(txt, s)
        BY <4>2 DEF MayShow
      <4>4. Len(hs) = 1 /\ hs[1] = s
        BY <1>2, <3>2, <4>1 DEF Hold
      <4>5. \A k \in 1..1 : k = 1
        OBVIOUS
      <4> QED BY <4>2, <4>3, <4>4, <4>5 DEF Shown
    <3> QED BY <3>1, <3>2
  <2>4. Shown(txt, last)
    <3>1. CASE Len(held) = 1
      <4>1. held[1] = Len(txt) /\ Len(txt) \in 1..Len(txt) /\ txt[Len(txt)].kind = "start"
        <5>1. 1 \in 1..1 /\ Len(g.pending) = 1
          BY <1>2, <3>1
        <5>2. 1 <= Len(txt) /\ g.pending[1] = Len(txt) - 1 + 1 /\ txt[g.pending[1]].kind = "start"
          BY <2>0, <5>1 DEF PendingForm
        <5>3. Len(txt) - 1 + 1 = Len(txt)
          OBVIOUS
        <5> QED BY <1>2, <5>2, <5>3
      <4>2. \A i \in Len(txt)..Len(txt) : txt[i].kind # "close"
        BY <4>1
      <4>3. ~InsideIn(txt, Len(txt))
        BY <2>0, <4>1, <4>2, OutsideHere
      <4>4. MayShow(txt, Len(txt))
        BY <4>1, <4>3 DEF MayShow
      <4>5. \A k \in 1..1 : k = 1
        OBVIOUS
      <4> QED BY <2>1, <3>1, <4>1, <4>4, <4>5 DEF Shown
    <3>2. CASE Len(held) # 1
      <4>1. last = <<>>
        BY <2>1, <3>2
      <4> QED BY <4>1 DEF Shown
    <3> QED BY <3>1, <3>2
  <2>5. Len(held) <= 1 => last = held
    <3>1. Len(held) \in Nat /\ (Len(held) = 0 => held = <<>>)
      OBVIOUS
    <3>2. Len(held) <= 1 => Len(held) = 0 \/ Len(held) = 1
      <4>1. PICK l \in Nat : l = Len(held)
        BY <3>1
      <4>2. l <= 1 => l = 0 \/ l = 1
        OBVIOUS
      <4> QED BY <4>1, <4>2
    <3>3. Len(held) = 0 => last = held
      <4>1. Len(held) = 0 => ~(Len(held) = 1)
        OBVIOUS
      <4> QED BY <2>1, <3>1, <4>1
    <3> QED BY <2>1, <3>2, <3>3
  <2>6. Flush(g) \in Seq(Nat) /\ Shown(txt, Flush(g))
    BY <2>2, <2>3, <2>4, ShownJoined
  <2> QED BY <1>2, <2>2, <2>5, <2>6 DEF Held
<1> QED BY <1>3, <1>4

\* The parts of the invariant, action by action.
LEMMA FreshIs == FreshGuard \in Guards /\ Held(FreshGuard) = <<>> /\ \A g \in Guards : ContinuationSafe(g) => g = FreshGuard
<1>1. <<>> \in Seq(Nat) /\ <<>> \in Seq(Tags) /\ <<>> \o <<>> = <<>>
  OBVIOUS
<1>2. FreshGuard \in Guards
  BY <1>1 DEF FreshGuard, Guards
<1>3. Held(FreshGuard) = <<>>
  BY <1>1 DEF FreshGuard, Held, Hold
<1>4. ASSUME NEW g \in Guards, ContinuationSafe(g) PROVE g = FreshGuard
  <2>1. g.pending = <<>> /\ g.stack = <<>> /\ g.sentinel = 0 /\ g.discard = FALSE
    BY <1>4 DEF ContinuationSafe, Guards
  <2>2. g = [pending |-> g.pending, stack |-> g.stack, sentinel |-> g.sentinel, discard |-> g.discard]
    BY DEF Guards
  <2> QED BY <2>1, <2>2 DEF FreshGuard
<1> QED BY <1>2, <1>3, <1>4

\* A step of the filter.
LEMMA FilterTextDelta ==
    ASSUME CallTypes, FilterInv, NEW p \in TextPieces, TextDelta(p)
    PROVE  CallTypes' /\ FilterInv'
<1>1. /\ text \in Seq(TextPieces) /\ Len(text) \in Nat /\ published \in Seq(Nat)
      /\ GuardForm(guard, text) /\ Shown(text, published) /\ call = "streaming" /\ call' = "streaming"
      /\ TextHeld(guard, text, published) /\ Len(text) < MaxPieces
  BY DEF CallTypes, FilterInv, TextDelta
<1>2. PICK new : new = Append(text, p)
  OBVIOUS
<1>3. Grows(text, p, new)
  BY <1>1, <1>2, GrowsBy
<1>4. Placed(text, p)
  <2>1. CASE text = <<>>
    <3>1. /\ p.kind \notin {"part", "open", "close", "control", "long"} /\ p.kind # "rest"
      BY <2>1 DEF TextDelta, InPlace
    <3> QED BY <3>1 DEF Placed
  <2>2. CASE text # <<>>
    <3>1. Len(text) > 0 /\ Last(text) = text[Len(text)]
      BY <1>1, <2>2 DEF Last
    <3>2. /\ p.kind \in {"part", "open", "close", "control", "long"} => Last(text).kind \in {"start", "part"}
          /\ p.kind = "rest" => Last(text).kind = "half"
      BY <2>2 DEF TextDelta, InPlace
    <3> QED BY <3>1, <3>2 DEF Placed
  <2> QED BY <2>1, <2>2
<1>5. PICK fed : fed = Feed(guard, new)
  OBVIOUS
<1>6. FedWell(guard, new, fed)
  BY <1>1, <1>3, <1>4, <1>5, FeedWell
<1>7. text' = new /\ guard' = fed.guard /\ published' = published \o fed.out
  BY <1>2, <1>5 DEF TextDelta
<1>8. fed.out \in Seq(Nat) /\ GuardForm(fed.guard, new) /\ Shown(new, fed.out)
  BY <1>6 DEF FedWell
<1>9. published \o fed.out \in Seq(Nat) /\ Shown(new, published \o fed.out)
  <2>1. Shown(new, published)
    BY <1>1, <1>3, ShownGrows
  <2> QED BY <1>1, <1>8, <2>1, ShownJoined
<1>10. TextHeld(fed.guard, new, published \o fed.out)
  <2>1. guard \in Guards
    BY <1>1 DEF GuardForm
  <2> QED BY <1>1, <1>3, <1>6, <2>1, TextFed
<1>11. CallTypes'
  <2>1. text' \in Seq(TextPieces) /\ Len(text') <= MaxPieces
    BY <1>1, <1>3, <1>7, GatewayAssumption DEF Grows
  <2> QED BY <1>7, <1>9, <2>1 DEF CallTypes, TextDelta
<1>12. FilterInv'
  BY <1>1, <1>7, <1>8, <1>9, <1>10 DEF FilterInv
<1> QED BY <1>11, <1>12

\* The end of a completion publishes what was held back, or cuts the answer.
LEMMA FilterLastText ==
    ASSUME CallTypes, FilterInv, LastText
    PROVE  CallTypes' /\ FilterInv'
<1>1. /\ Len(text) \in Nat /\ published \in Seq(Nat) /\ GuardForm(guard, text) /\ Shown(text, published)
      /\ TextHeld(guard, text, published)
  BY DEF CallTypes, FilterInv, LastText
<1>2. call' = "closing" /\ text' = text /\ guard' = guard /\ response' = response /\ torn' = torn
  BY DEF LastText
<1>3. CASE reason = "length" /\ ~ContinuationSafe(guard)
  <2>1. reason' = "cut" /\ published' = published
    BY <1>3 DEF LastText
  <2> QED BY <1>1, <1>2, <2>1 DEF CallTypes, FilterInv
<1>4. CASE ~(reason = "length" /\ ~ContinuationSafe(guard))
  <2>1. reason' = reason /\ published' = published \o Flush(guard)
    BY <1>4 DEF LastText
  <2>2. published' \in Seq(Nat) /\ Shown(text, published')
    BY <1>1, <2>1, FlushWell, ShownJoined
  <2>3. OrdinaryIn(text) /\ Len(guard.pending) <= 1 => published' = Whole(Len(text))
    BY <1>1, <2>1, FlushWell DEF TextHeld
  <2>4. CallTypes'
    BY <1>2, <2>1, <2>2 DEF CallTypes
  <2>5. FilterInv'
    BY <1>1, <1>2, <1>4, <2>1, <2>2, <2>3 DEF FilterInv
  <2> QED BY <2>4, <2>5
<1> QED BY <1>3, <1>4

\* A completion is continued by a fresh filter only where the old one was as good as fresh.
LEMMA FilterStartCall ==
    ASSUME CallTypes, FilterInv, StartCall
    PROVE  CallTypes' /\ FilterInv'
<1>1. guard \in Guards /\ published \in Seq(Nat) /\ Len(text) \in Nat
  BY DEF CallTypes, FilterInv, GuardForm
<1>2. ContinuationSafe(guard)
  BY DEF FilterInv, StartCall
<1>3. guard = FreshGuard
  BY <1>1, <1>2, FreshIs
<1>4. /\ call' = "requested" /\ reason' = "none" /\ guard' = guard /\ text' = text /\ published' = published
      /\ response' = "none" /\ torn' = torn
  BY <1>3 DEF StartCall
<1>5. TextHeld(guard, text, published)
  <2>1. CASE call = "idle"
    BY <2>1 DEF FilterInv
  <2>2. CASE call = "done" /\ reason = "length"
    <3>1. Len(guard.pending) <= 1 /\ ~guard.discard /\ guard.stack = <<>>
      BY <1>2 DEF ContinuationSafe
    <3>2. OrdinaryIn(text) => published = Whole(Len(text))
      BY <2>2, <3>1 DEF FilterInv
    <3>3. published \o Held(guard) = published
      BY <1>1, <1>3, FreshIs
    <3> QED BY <3>1, <3>2, <3>3 DEF TextHeld
  <2> QED BY <2>1, <2>2 DEF StartCall
<1> QED BY <1>4, <1>5 DEF CallTypes, FilterInv

\* The steps that leave the text alone.
LEMMA FilterRests ==
    ASSUME CallTypes, FilterInv, UNCHANGED <<text, guard, published>>,
           call' \in {"requested", "streaming", "closing", "done", "failed"}, torn' \in BOOLEAN,
           response' \in {"none", "open", "closed", "lost"},
           \/ call \in {"requested", "streaming"} /\ call' = "streaming" /\ reason' \in Reasons \cup {"none", "cut"}
           \/ call' = "failed" /\ reason' = reason
           \/ call \in {"closing", "done"} /\ call' \in {"closing", "done"} /\ reason' = reason
    PROVE  CallTypes' /\ FilterInv'
<1>1. CallTypes'
  BY DEF CallTypes
<1>2. FilterInv'
  <2>1. GuardForm(guard', text') /\ Shown(text', published')
    BY DEF FilterInv
  <2>2. CASE call \in {"requested", "streaming"} /\ call' = "streaming"
    BY <2>1, <2>2 DEF FilterInv
  <2>3. CASE call' = "failed"
    BY <2>1, <2>3 DEF FilterInv
  <2>4. CASE call \in {"closing", "done"} /\ call' \in {"closing", "done"} /\ reason' = reason
    BY <2>1, <2>4 DEF FilterInv
  <2> QED BY <2>2, <2>3, <2>4
<1> QED BY <1>1, <1>2

\* Every step keeps what the filter holds.
LEMMA FilterStep ==
    ASSUME CallTypes, FilterInv, [GatewayNext]_gatewayVars
    PROVE  CallTypes' /\ FilterInv'
<1>0. /\ call \in {"idle", "requested", "streaming", "closing", "done", "failed"}
      /\ reason \in Reasons \cup {"none", "cut"} /\ response \in {"none", "open", "closed", "lost"} /\ torn \in BOOLEAN
  BY DEF CallTypes
<1>1. CASE StartCall
  BY <1>1, FilterStartCall
<1>2. CASE RequestAccepted
  BY <1>0, <1>2, FilterRests DEF RequestAccepted
<1>3. CASE RequestFails
  BY <1>0, <1>3, FilterRests DEF RequestFails
<1>4. ASSUME NEW p \in TextPieces, TextDelta(p) PROVE CallTypes' /\ FilterInv'
  BY <1>4, FilterTextDelta
<1>5. ASSUME NEW i \in ToolIndexes, ToolFragment(i) PROVE CallTypes' /\ FilterInv'
  BY <1>0, <1>5, FilterRests DEF ToolFragment
<1>6. ASSUME NEW why \in Reasons, FinishReason(why) PROVE CallTypes' /\ FilterInv'
  BY <1>0, <1>6, FilterRests DEF FinishReason
<1>7. CASE LastText
  BY <1>7, FilterLastText
<1>8. ASSUME NEW how \in {"failed", "abandoned"}, Interrupt(how) PROVE CallTypes' /\ FilterInv'
  BY <1>0, <1>8, FilterRests DEF Interrupt
<1>9. CASE CloseResponse
  BY <1>0, <1>9, FilterRests DEF CloseResponse
<1>10. CASE CancelledClosing
  BY <1>0, <1>10, FilterRests DEF CancelledClosing
<1>11. CASE FinalEvent
  BY <1>0, <1>11, FilterRests DEF FinalEvent
<1>12. CASE UNCHANGED gatewayVars
  BY <1>12 DEF gatewayVars, CallTypes, FilterInv, ContinuationSafe
<1> QED BY <1>1, <1>2, <1>3, <1>4, <1>5, <1>6, <1>7, <1>8, <1>9, <1>10, <1>11, <1>12 DEF GatewayNext

\* The tool calls.
LEMMA ToolsFragment ==
    ASSUME ToolsInv, NEW i \in ToolIndexes, ToolFragment(i)
    PROVE  ToolsInv'
<1>1. /\ fragments \in [ToolIndexes -> 0..2] /\ fragments[i] < 2 /\ call = "streaming" /\ call' = "streaming"
      /\ fragments' = [fragments EXCEPT ![i] = @ + 1] /\ signals' = 1 /\ builtCalls' = builtCalls
      /\ acc' = [acc EXCEPT ![i] = Append(@, i)]
  BY DEF ToolsInv, ToolFragment, Feeds
<1>2. acc = [j \in ToolIndexes |-> [k \in 1..fragments[j] |-> j]]
  BY DEF ToolsInv
<1>3. PICK f \in Nat : f = fragments[i] /\ f + 1 \in 0..2
  <2>1. fragments[i] \in 0..2
    BY <1>1
  <2> QED BY <1>1, <2>1
<1>4. fragments' \in [ToolIndexes -> 0..2] /\ fragments'[i] = f + 1 /\ \A j \in ToolIndexes \ {i} : fragments'[j] = fragments[j]
  BY <1>1, <1>3
<1>5. Append([k \in 1..f |-> i], i) = [k \in 1..f + 1 |-> i]
  OBVIOUS
<1>6. acc' = [j \in ToolIndexes |-> [k \in 1..fragments'[j] |-> j]]
  <2>1. acc[i] = [k \in 1..f |-> i]
    BY <1>2, <1>3
  <2>2. acc' = [j \in ToolIndexes |-> IF j = i THEN Append([k \in 1..f |-> i], i) ELSE acc[j]]
    BY <1>1, <1>2, <2>1
  <2>3. ASSUME NEW j \in ToolIndexes
        PROVE  (IF j = i THEN Append([k \in 1..f |-> i], i) ELSE acc[j]) = [k \in 1..fragments'[j] |-> j]
    <3>1. CASE j = i
      BY <1>4, <1>5, <3>1
    <3>2. CASE j # i
      BY <1>2, <1>4, <3>2
    <3> QED BY <3>1, <3>2
  <2> QED BY <2>2, <2>3
<1>7. IsFiniteSet({j \in ToolIndexes : fragments'[j] > 0})
  <2>1. {j \in ToolIndexes : fragments'[j] > 0} = {j \in ToolIndexes : fragments[j] > 0} \cup {i}
    BY <1>3, <1>4
  <2>2. IsFiniteSet({j \in ToolIndexes : fragments[j] > 0} \cup {i})
    BY FS_AddElement DEF ToolsInv
  <2> QED BY <2>1, <2>2
<1>8. builtCalls' = <<>>
  BY <1>1 DEF ToolsInv
<1>9. fragments' \in [ToolIndexes -> 0..2] /\ signals' \in 0..1 /\ signals' = 1 /\ call' # "done"
  BY <1>1, <1>4
<1> QED BY <1>6, <1>7, <1>8, <1>9, Zenon DEF ToolsInv

\* No call has begun.
LEMMA ToolsFresh ==
    ASSUME NEW none, none = [i \in ToolIndexes |-> 0]
    PROVE  /\ none \in [ToolIndexes -> 0..2] /\ IsFiniteSet({i \in ToolIndexes : none[i] > 0})
           /\ [i \in ToolIndexes |-> <<>>] = [i \in ToolIndexes |-> [k \in 1..none[i] |-> i]]
           /\ ~\E i \in ToolIndexes : none[i] > 0
<1>1. none \in [ToolIndexes -> 0..2] /\ \A i \in ToolIndexes : none[i] = 0
  OBVIOUS
<1>2. \A i \in ToolIndexes : [k \in 1..none[i] |-> i] = <<>>
  BY <1>1
<1>3. {i \in ToolIndexes : none[i] > 0} = {}
  BY <1>1
<1>4. IsFiniteSet({i \in ToolIndexes : none[i] > 0})
  BY <1>3, FS_EmptySet
<1> QED BY <1>1, <1>2, <1>3, <1>4

\* The steps that leave the accumulators alone.
LEMMA ToolsRest ==
    ASSUME ToolsInv, UNCHANGED <<fragments, acc, signals>>,
           \/ builtCalls' = builtCalls /\ (call' = "done" <=> call = "done")
           \/ builtCalls' = Built /\ call' = "done"
    PROVE  ToolsInv'
<1>1. Built' = Built
  BY DEF Built
<1> QED BY <1>1 DEF ToolsInv

\* Every step keeps the accumulators.
LEMMA ToolsStep ==
    ASSUME ToolsInv, [GatewayNext]_gatewayVars
    PROVE  ToolsInv'
<1>1. CASE StartCall
  <2>1. /\ fragments' = [i \in ToolIndexes |-> 0] /\ acc' = [i \in ToolIndexes |-> <<>>] /\ signals' = 0
        /\ builtCalls' = <<>> /\ call' # "done"
    BY <1>1 DEF StartCall
  <2> QED BY <2>1, ToolsFresh DEF ToolsInv
<1>2. CASE RequestAccepted
  BY <1>2, ToolsRest DEF RequestAccepted
<1>3. CASE RequestFails
  BY <1>3, ToolsRest DEF RequestFails
<1>4. ASSUME NEW p \in TextPieces, TextDelta(p) PROVE ToolsInv'
  BY <1>4, ToolsRest DEF TextDelta
<1>5. ASSUME NEW i \in ToolIndexes, ToolFragment(i) PROVE ToolsInv'
  BY <1>5, ToolsFragment
<1>6. ASSUME NEW why \in Reasons, FinishReason(why) PROVE ToolsInv'
  BY <1>6, ToolsRest DEF FinishReason
<1>7. CASE LastText
  BY <1>7, ToolsRest DEF LastText
<1>8. ASSUME NEW how \in {"failed", "abandoned"}, Interrupt(how) PROVE ToolsInv'
  BY <1>8, ToolsRest DEF Interrupt
<1>9. CASE CloseResponse
  BY <1>9, ToolsRest DEF CloseResponse
<1>10. CASE CancelledClosing
  BY <1>10, ToolsRest DEF CancelledClosing
<1>11. CASE FinalEvent
  BY <1>11, ToolsRest DEF FinalEvent
<1>12. CASE UNCHANGED gatewayVars
  BY <1>12, ToolsRest DEF gatewayVars
<1> QED BY <1>1, <1>2, <1>3, <1>4, <1>5, <1>6, <1>7, <1>8, <1>9, <1>10, <1>11, <1>12 DEF GatewayNext

\* The spans.
LEMMA SpanEnded ==
    ASSUME SpansInv, call \in {"requested", "streaming", "closing"}, NEW how \in {"ok", "failed", "abandoned"},
           EndSpan(how), torn' = torn, call' \in {"done", "failed"}, response' # "open"
    PROVE  SpansInv'
<1>1. PICK n \in Nat : n = Len(spans) /\ n > 0
  BY DEF SpansInv
<1>2. /\ spans \in Seq({"open", "ok", "failed", "abandoned"}) /\ n <= MaxModelCalls
  BY <1>1 DEF SpansInv
<1>3. spans' = [spans EXCEPT ![n] = how]
  BY <1>1 DEF EndSpan
<1>4. /\ spans' \in Seq({"open", "ok", "failed", "abandoned"}) /\ Len(spans') = n /\ spans'[n] = how
      /\ \A k \in 1..n : k # n => spans'[k] = spans[k]
  BY <1>1, <1>3 DEF SpansInv
<1>5. ~torn
  BY DEF SpansInv
<1>6. \A k \in 1..n : spans'[k] # "open"
  <2> TAKE k \in 1..n
  <2>1. CASE k = n
    BY <1>4, <2>1
  <2>2. CASE k # n
    BY <1>1, <1>4, <1>5, <2>2 DEF SpansInv
  <2> QED BY <2>1, <2>2
<1> QED BY <1>1, <1>4, <1>5, <1>6 DEF SpansInv

\* Every step keeps the spans and the response.
LEMMA SpansStep ==
    ASSUME SpansInv, torn \in BOOLEAN, [GatewayNext]_gatewayVars
    PROVE  SpansInv'
<1>1. CASE StartCall
  <2>1. /\ spans' = Append(spans, "open") /\ Len(spans) < MaxModelCalls /\ call' = "requested"
        /\ response' = "none" /\ torn' = torn /\ call \in {"idle", "done"}
    BY <1>1 DEF StartCall
  <2>2. PICK n \in Nat : n = Len(spans)
    BY DEF SpansInv
  <2>3. /\ spans' \in Seq({"open", "ok", "failed", "abandoned"}) /\ Len(spans') = n + 1
        /\ \A k \in 1..n : spans'[k] = spans[k]
    BY <2>1, <2>2 DEF SpansInv
  <2>4. ~torn /\ \A k \in 1..n : spans[k] # "open"
    BY <2>1, <2>2 DEF SpansInv
  <2>5. n + 1 <= MaxModelCalls /\ n + 1 > 0
    BY <2>1, <2>2, GatewayAssumption
  <2>6. \A k \in 1..n + 1 : k \in 1..n \/ k = n + 1
    OBVIOUS
  <2> QED BY <2>1, <2>2, <2>3, <2>4, <2>5, <2>6 DEF SpansInv
<1>2. CASE RequestAccepted
  BY <1>2 DEF RequestAccepted, SpansInv
<1>3. CASE RequestFails
  <2>1. response = "none"
    BY <1>3 DEF RequestFails, SpansInv
  <2> QED BY <1>3, <2>1, SpanEnded DEF RequestFails
<1>4. ASSUME NEW p \in TextPieces, TextDelta(p) PROVE SpansInv'
  BY <1>4 DEF TextDelta, SpansInv
<1>5. ASSUME NEW i \in ToolIndexes, ToolFragment(i) PROVE SpansInv'
  BY <1>5 DEF ToolFragment, SpansInv
<1>6. ASSUME NEW why \in Reasons, FinishReason(why) PROVE SpansInv'
  BY <1>6 DEF FinishReason, SpansInv
<1>7. CASE LastText
  BY <1>7 DEF LastText, SpansInv
<1>8. ASSUME NEW how \in {"failed", "abandoned"}, Interrupt(how) PROVE SpansInv'
  BY <1>8, SpanEnded DEF Interrupt, EndsEarly
<1>9. CASE CloseResponse
  BY <1>9 DEF CloseResponse, SpansInv
<1>10. CASE CancelledClosing
  BY <1>10 DEF CancelledClosing, SpansInv
<1>11. CASE FinalEvent
  BY <1>11, SpanEnded DEF FinalEvent
<1>12. CASE UNCHANGED gatewayVars
  BY <1>12 DEF gatewayVars, SpansInv
<1> QED BY <1>1, <1>2, <1>3, <1>4, <1>5, <1>6, <1>7, <1>8, <1>9, <1>10, <1>11, <1>12 DEF GatewayNext

\* The tool calls of the final event.
LEMMA BuiltIs ==
    ASSUME ToolsInv
    PROVE  builtCalls \in Seq([index : ToolIndexes, whole : BOOLEAN]) /\ ToolCallsWhole
<1> DEFINE Begun == {i \in ToolIndexes : fragments[i] > 0}
           Final(i) == [index |-> i, whole |-> acc[i] = <<i, i>>]
<1>1. /\ fragments \in [ToolIndexes -> 0..2] /\ acc = [i \in ToolIndexes |-> [k \in 1..fragments[i] |-> i]]
      /\ IsFiniteSet(Begun) /\ Begun \in SUBSET Nat
  BY GatewayAssumption DEF ToolsInv
<1>2. CASE call # "done"
  <2>1. builtCalls = <<>>
    BY <1>2 DEF ToolsInv
  <2> QED BY <1>2, <2>1 DEF ToolCallsWhole
<1>3. CASE call = "done"
  <2>1. ASSUME NEW i \in ToolIndexes PROVE /\ acc[i] # <<>> <=> fragments[i] > 0
                                           /\ acc[i] = <<i, i>> <=> fragments[i] = 2
    <3>1. fragments[i] \in {0, 1, 2} /\ acc[i] = [k \in 1..fragments[i] |-> i]
      BY <1>1
    <3>2. acc[i] \in Seq(Nat) /\ Len(acc[i]) = fragments[i]
      <4>1. fragments[i] \in Nat /\ [k \in 1..fragments[i] |-> i] \in [1..fragments[i] -> Nat]
        BY <3>1, GatewayAssumption
      <4> QED BY <3>1, <4>1, ListIsSeq
    <3>3. Len(<<i, i>>) = 2 /\ Len(<<>>) = 0
      OBVIOUS
    <3>4. CASE fragments[i] = 0
      <4>1. acc[i] = <<>>
        BY <3>2, <3>4
      <4> QED BY <3>3, <3>4, <4>1
    <3>5. CASE fragments[i] = 1
      <4>1. acc[i] # <<>> /\ acc[i] # <<i, i>>
        <5>1. Len(acc[i]) = 1 /\ 1 # 2 /\ 1 # 0
          BY <3>2, <3>5
        <5> QED BY <3>3, <5>1, Zenon
      <4>2. fragments[i] > 0 /\ fragments[i] # 2
        BY <3>5
      <4> QED BY <4>1, <4>2
    <3>6. CASE fragments[i] = 2
      <4>1. acc[i] = <<i, i>>
        BY <3>1, <3>6
      <4> QED BY <3>3, <3>6, <4>1
    <3> QED BY <3>1, <3>4, <3>5, <3>6
  <2>2. Begun = {i \in ToolIndexes : acc[i] # <<>>}
    BY <2>1
  <2>3. PICK n \in Nat : n = Cardinality(Begun)
    BY <1>1, FS_CardinalityType
  <2>4. builtCalls = [k \in 1..n |-> Final(Nth(Begun, k))]
    BY <1>3, <2>2, <2>3 DEF ToolsInv, Built
  <2>5. /\ \A k \in 1..n : Nth(Begun, k) \in Begun
        /\ \A x \in Begun : \E k \in 1..n : Nth(Begun, k) = x
        /\ \A j, k \in 1..n : j < k => Nth(Begun, j) < Nth(Begun, k)
    <3> HIDE DEF Begun
    <3> QED BY <1>1, <2>3, NthListed
  <2>6. ASSUME NEW i \in Begun PROVE /\ Final(i) = [index |-> i, whole |-> fragments[i] = 2]
                                     /\ Final(i) \in [index : ToolIndexes, whole : BOOLEAN]
    BY <2>1
  <2>7. builtCalls \in [1..n -> [index : ToolIndexes, whole : BOOLEAN]]
    <3> HIDE DEF Begun, Final
    <3> QED BY <2>4, <2>5, <2>6
  <2>8. builtCalls \in Seq([index : ToolIndexes, whole : BOOLEAN]) /\ DOMAIN builtCalls = 1..n
    BY <2>7, ListIsSeq
  <2>9. \A k \in 1..n : builtCalls[k].index = Nth(Begun, k)
    <3> HIDE DEF Begun
    <3> QED BY <2>4
  <2>10. ToSet(builtCalls) = {[index |-> i, whole |-> fragments[i] = 2] : i \in Begun}
    <3>1. ToSet(builtCalls) = {builtCalls[k] : k \in 1..n}
      BY <2>8 DEF ToSet
    <3>2. \A k \in 1..n : builtCalls[k] = Final(Nth(Begun, k))
      <4> HIDE DEF Begun, Final
      <4> QED BY <2>4
    <3>3. {builtCalls[k] : k \in 1..n} = {Final(i) : i \in Begun}
      <4> HIDE DEF Begun, Final
      <4> QED BY <2>5, <3>2
    <3>4. {Final(i) : i \in Begun} = {[index |-> i, whole |-> fragments[i] = 2] : i \in Begun}
      <4> HIDE DEF Begun, Final
      <4> QED BY <2>6
    <3> QED BY <3>1, <3>3, <3>4
  <2>11. builtCalls # <<>> => signals = 1
    <3>1. CASE n = 0
      <4>1. Len(builtCalls) = 0
        BY <2>7, <2>8, <3>1, ListIsSeq
      <4>2. builtCalls = <<>>
        BY <2>8, <4>1
      <4> QED BY <4>2
    <3>2. CASE n # 0
      <4>1. 1 \in 1..n
        BY <3>2
      <4>2. Nth(Begun, 1) \in Begun
        BY <2>5, <4>1
      <4> QED BY <4>2 DEF ToolsInv
    <3> QED BY <3>1, <3>2
  <2>12. \A j, k \in DOMAIN builtCalls : j < k => builtCalls[j].index < builtCalls[k].index
    <3> HIDE DEF Begun
    <3> QED BY <2>5, <2>8, <2>9
  <2> QED BY <2>8, <2>10, <2>11, <2>12 DEF ToolCallsWhole
<1> QED BY <1>2, <1>3

\* The invariant, and what it says.
LEMMA GatewayStarts == GatewayInit => GatewayInv
<1> SUFFICES ASSUME GatewayInit PROVE GatewayInv
  OBVIOUS
<1>1. CallTypes
  <2>1. <<>> \in Seq(TextPieces) /\ <<>> \in Seq(Nat) /\ Len(<<>>) = 0
    OBVIOUS
  <2>2. 0 <= MaxPieces
    BY GatewayAssumption
  <2> QED BY <2>1, <2>2 DEF GatewayInit, CallTypes
<1>2. guard = FreshGuard /\ text = <<>> /\ published = <<>> /\ call = "idle" /\ Len(text) = 0
  BY DEF GatewayInit
<1>3. FilterInv
  <2>1. guard \in Guards /\ guard.pending = <<>> /\ guard.stack = <<>> /\ guard.sentinel = 0 /\ ~guard.discard
    BY <1>2, FreshIs DEF FreshGuard
  <2>2. PendingForm(guard, text) /\ TagsHeld(guard, text) /\ HalfHeld(guard, text) /\ SentinelForm(guard, text)
    BY <1>2, <2>1 DEF PendingForm, TagsHeld, HalfHeld, SentinelForm
  <2>3. GuardForm(guard, text)
    BY <1>2, <2>1, <2>2, GatewayAssumption DEF GuardForm
  <2>4. TextHeld(guard, text, published)
    <3>1. <<>> \o <<>> = <<>> /\ 0 \in Nat
      OBVIOUS
    <3> QED BY <1>2, <2>1, <3>1, FreshIs, WholeOneMore DEF TextHeld
  <2>5. Shown(text, published)
    BY <1>2 DEF Shown
  <2> QED BY <1>2, <2>1, <2>3, <2>4, <2>5 DEF FilterInv, ContinuationSafe
<1>4. ToolsInv
  BY ToolsFresh DEF GatewayInit, ToolsInv
<1>5. SpansInv
  BY GatewayAssumption DEF GatewayInit, SpansInv
<1> QED BY <1>1, <1>3, <1>4, <1>5 DEF GatewayInv

\* The invariant is inductive.
LEMMA GatewaySteps == GatewayInv /\ [GatewayNext]_gatewayVars => GatewayInv'
<1> SUFFICES ASSUME GatewayInv, [GatewayNext]_gatewayVars PROVE GatewayInv'
  OBVIOUS
<1>1. CallTypes' /\ FilterInv'
  BY FilterStep DEF GatewayInv
<1>2. ToolsInv'
  BY ToolsStep DEF GatewayInv
<1>3. SpansInv'
  BY SpansStep DEF GatewayInv, CallTypes
<1> QED BY <1>1, <1>2, <1>3 DEF GatewayInv

\* Inside of a block, of the text the gateway has.
LEMMA InsideAgrees ==
    ASSUME text \in Seq(TextPieces), NEW n \in 1..Len(text), InsideBlock(n)
    PROVE  InsideIn(text, n)
<1>1. PICK a \in 1..n, b \in 1..n - 1 :
          /\ a < b /\ Marker(a, b, "open")
          /\ \A c \in b + 1..n - 1 : ~(Kind(c) = "close" /\ text[c].tag = text[b].tag)
  BY DEF InsideBlock
<1>2. MarkerIn(text, a, b, "open")
  BY <1>1 DEF Marker, MarkerIn, SecondOfTwo, SecondIn, Kind
<1>3. a \in 1..b - 1
  BY <1>1
<1>4. OpenAt(text, b) /\ Unclosed(text, b, n - 1)
  BY <1>1, <1>2, <1>3 DEF OpenAt, Unclosed, Kind
<1> QED BY <1>4 DEF InsideIn

\* The invariant has the types.
LEMMA StreamTyped == GatewayInv => GatewayTypeOK
<1> SUFFICES ASSUME GatewayInv PROVE GatewayTypeOK
  OBVIOUS
<1>1. PICK n \in Nat : n = Len(text)
  BY DEF GatewayInv, CallTypes
<1>2. GuardForm(guard, text) /\ guard \in Guards
  BY DEF GatewayInv, FilterInv, GuardForm
<1>3. guard.pending \in Seq(1..n)
  <2>1. PICK held \in Seq(Nat) : held = guard.pending
    BY <1>2 DEF Guards
  <2>2. \A i \in 1..Len(held) : held[i] \in 1..n
    BY <1>1, <1>2, <2>1 DEF GuardForm
  <2>3. held \in [1..Len(held) -> 1..n] /\ Len(held) \in Nat
    BY <2>2
  <2>4. held \in Seq(1..n)
    BY <2>3, ListIsSeq
  <2> QED BY <2>1, <2>4
<1>4. guard.sentinel \in 0..n
  <2>1. PICK s \in Nat : s = guard.sentinel
    BY <1>2 DEF Guards
  <2>2. s # 0 => s <= n
    BY <1>1, <1>2, <2>1 DEF GuardForm, SentinelForm
  <2> QED BY <2>1, <2>2
<1>5. published \in Seq(1..n)
  <2>1. PICK out \in Seq(Nat) : out = published
    BY DEF GatewayInv, CallTypes
  <2>2. \A i \in 1..Len(out) : out[i] \in 1..n
    BY <1>1, <2>1 DEF GatewayInv, FilterInv, Shown
  <2>3. out \in [1..Len(out) -> 1..n] /\ Len(out) \in Nat
    BY <2>2
  <2>4. out \in Seq(1..n)
    BY <2>3, ListIsSeq
  <2> QED BY <2>1, <2>4
<1>6. guard.stack \in Seq(Tags) /\ guard.discard \in BOOLEAN /\ Len(guard.stack) <= MaxNesting
  BY <1>2 DEF Guards, GuardForm
<1>7. fragments \in [ToolIndexes -> 0..2] /\ signals \in 0..1 /\ acc = [i \in ToolIndexes |-> [k \in 1..fragments[i] |-> i]]
  BY DEF GatewayInv, ToolsInv
<1>8. acc \in [ToolIndexes -> Seq(ToolIndexes)]
  <2>1. ASSUME NEW i \in ToolIndexes PROVE [k \in 1..fragments[i] |-> i] \in Seq(ToolIndexes)
    <3>1. fragments[i] \in Nat
      BY <1>7
    <3>2. [k \in 1..fragments[i] |-> i] \in [1..fragments[i] -> ToolIndexes]
      OBVIOUS
    <3> QED BY <3>1, <3>2, ListIsSeq
  <2> QED BY <1>7, <2>1
<1>9. builtCalls \in Seq([index : ToolIndexes, whole : BOOLEAN])
  BY BuiltIs DEF GatewayInv
<1>10. spans \in Seq({"open", "ok", "failed", "abandoned"}) /\ Len(spans) <= MaxModelCalls
  BY DEF GatewayInv, SpansInv
<1> QED BY <1>1, <1>3, <1>4, <1>5, <1>6, <1>7, <1>8, <1>9, <1>10 DEF GatewayInv, CallTypes, GatewayTypeOK

\* The invariant is stronger than StreamIsFaithful.
LEMMA GatewaySays == GatewayInv => StreamIsFaithful
<1> SUFFICES ASSUME GatewayInv PROVE StreamIsFaithful
  OBVIOUS
<1>1. GatewayTypeOK
  BY StreamTyped
<1>2. ReasoningNeverShown
  <2> SUFFICES ASSUME NEW k \in 1..Len(published)
               PROVE  /\ ~InsideBlock(published[k])
                      /\ Kind(published[k]) = "rest" => ~(published[k] > 1 /\ Kind(published[k] - 1) = "half")
    BY DEF ReasoningNeverShown
  <2>1. published[k] \in 1..Len(text) /\ MayShow(text, published[k])
    BY DEF GatewayInv, FilterInv, Shown
  <2>2. ~InsideBlock(published[k])
    BY <2>1, InsideAgrees DEF GatewayInv, CallTypes, MayShow
  <2> QED BY <2>1, <2>2 DEF MayShow, Kind
<1>3. OrdinaryTextSurvives
  BY DEF GatewayInv, FilterInv, OrdinaryTextSurvives, Ordinary, OrdinaryIn, Whole, Kind
<1>4. ToolCallsWhole
  BY BuiltIs DEF GatewayInv
<1>5. SpanEnds
  <2>1. DOMAIN spans = 1..Len(spans)
    BY DEF GatewayInv, SpansInv
  <2> QED BY <2>1 DEF GatewayInv, SpansInv, SpanEnds
<1> QED BY <1>1, <1>2, <1>3, <1>4, <1>5 DEF StreamIsFaithful

\* The runtime is given the answer and nothing else (StreamIsFaithful): whatever pieces
\* the provider streams, in whatever order tool fragments arrive, wherever the stream
\* fails, is closed or is continued, ReasoningGuard.feed and flush publish no text of a
\* reasoning block and nothing after a control sentence, an answer without markup
\* reaches the runtime whole and in order, the final event has every tool call begun
\* with its own fragments, and no call that is over leaves its span or response open.
THEOREM StreamFaithful == GatewaySpec => []StreamIsFaithful
<1>1. GatewayInit => GatewayInv
  BY GatewayStarts
<1>2. GatewayInv /\ [GatewayNext]_gatewayVars => GatewayInv'
  BY GatewaySteps
<1>3. GatewayInv => StreamIsFaithful
  BY GatewaySays
<1> QED BY <1>1, <1>2, <1>3, PTL DEF GatewaySpec

============================================================================
