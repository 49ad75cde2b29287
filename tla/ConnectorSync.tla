--------------------------- MODULE ConnectorSync ---------------------------
(***************************************************************************)
(* One managed source: the sync task (tasks/sync_source), the poll that     *)
(* enqueues it (tasks/connector_poll), the source's requests                *)
(* (services/sources_service), the consent flow (connector_oauth_service)   *)
(* and the change feed of the provider behind it (connectors/gdrive).       *)
(*                                                                          *)
(* The provider's files have a version, the position of their last change   *)
(* in its feed, and a body.  A document row mirrors one file: the version   *)
(* its permissions were read at, whether that mirror is vouched for         *)
(* (acl_synced_at) and its storage key, which is the body itself because    *)
(* keys are content-addressed.                                              *)
(***************************************************************************)
EXTENDS Naturals, Sequences, FiniteSets, FiniteSetsExt

CONSTANTS Files, Folder,  \* the files, and the ones inside a shared folder
          Bodies, FirstBody, None,  \* FirstBody: what the files contain at first
          Workers,        \* worker slots that run sync tasks
          MaxLog,         \* bound: changes at the provider
          MaxQueue,       \* bound: sync messages waiting
          MaxConnects,    \* bound: consent flows begun
          MaxFaults       \* bound: failures of any kind

ASSUME SyncAssumption ==
    /\ Folder \subseteq Files /\ FirstBody \in Bodies /\ None \notin Bodies \cup Nat
    /\ MaxLog \in Nat /\ MaxQueue \in Nat /\ MaxConnects \in Nat /\ MaxFaults \in Nat

VARIABLES changes,  \* the provider's feed: a file, or a folder with its files
          gone,     \* files trashed at the provider
          body,     \* what each file contains there
          mirror,   \* the documents rows of the source
          objects,  \* the bodies in the object store
          src,      \* the sources row
          cred,     \* the stored grant
          flows,    \* consent flows, by generation
          credOf,   \* the flow that stored the grant (history)
          queue,    \* sync messages waiting
          run,      \* the task each worker runs
          overlapped, \* two tasks of the source ran at once (history)
          wedged,   \* the row waits for a sync that was lost (history)
          skipped,  \* the cursor of the full sync that left a file out (history)
          faults

vars == <<changes, gone, body, mirror, objects, src, cred, flows, credOf,
          queue, run, overlapped, wedged, skipped, faults>>
provider == <<changes, gone, body>>
consent == <<flows, credOf>>
history == <<overlapped, wedged, skipped>>

ChangeRecords == [files : SUBSET Files, folder : BOOLEAN]
Log == Len(changes)
\* The version of f among the first n changes.
VersionAt(f, n) == Max({0} \cup {i \in 1..n : f \in changes[i].files})
Version(f) == VersionAt(f, Log)

NoDoc == [present |-> FALSE, version |-> 0, fresh |-> FALSE, ready |-> FALSE, body |-> None]
Docs == [present : BOOLEAN, version : 0..MaxLog, fresh : BOOLEAN, ready : BOOLEAN,
         body : Bodies \cup {None}]
Present == {f \in Files : mirror[f].present}

\* A page of changes, or an enumeration: what was read of each file.  The stale
\* files are the ones it knows of without having read their permissions.
NoPage == [next |-> 0, upserts |-> {}, deleted |-> {}, stale |-> {}, complete |-> TRUE,
           version |-> [f \in Files |-> 0], body |-> [f \in Files |-> None]]
Pages == [next : 0..MaxLog, upserts : SUBSET Files, deleted : SUBSET Files,
          stale : SUBSET Files, complete : BOOLEAN,
          version : [Files -> 0..MaxLog], body : [Files -> Bodies \cup {None}]]
Cursors == (0..MaxLog) \cup {None}

NoRun == [pc |-> "idle", cursor |-> None, resync |-> FALSE, page |-> NoPage,
          keys |-> {}, failed |-> FALSE]
Pcs == {"idle", "token", "fetch", "put", "apply", "check", "erase", "ingest",
        "finalize", "baseline", "list", "replace", "clear", "load", "fail"}
Statuses == {"pending_auth", "pending", "syncing", "ready", "error", "deleted"}
\* The tasks of the workers.
Tasks == [pc : Pcs, cursor : Cursors, resync : BOOLEAN, page : Pages,
          keys : SUBSET Bodies, failed : BOOLEAN]
\* The sources row; health tells whether the permission mirror is vouched for.
Sources == [status : Statuses, cursor : Cursors, resync : BOOLEAN,
            health : BOOLEAN, gen : 0..MaxConnects]

TypeOK ==
    /\ changes \in Seq(ChangeRecords) /\ Log <= MaxLog
    /\ gone \subseteq Files /\ body \in [Files -> Bodies]
    /\ mirror \in [Files -> Docs] /\ objects \subseteq Bodies
    /\ src \in Sources
    /\ cred \in {"none", "live", "dead"} /\ credOf \in 0..MaxConnects
    /\ flows \in [1..MaxConnects -> BOOLEAN]
    /\ queue \in 0..MaxQueue
    /\ run \in [Workers -> Tasks]
    /\ overlapped \in BOOLEAN /\ wedged \in BOOLEAN
    /\ skipped \in [Files -> Cursors] /\ faults \in 0..MaxFaults

Init ==
    /\ changes = <<>> /\ gone = {} /\ body = [f \in Files |-> FirstBody]
    /\ mirror = [f \in Files |-> NoDoc] /\ objects = {}
    /\ src = [status |-> "pending_auth", cursor |-> None, resync |-> FALSE,
              health |-> FALSE, gen |-> 0]
    /\ cred = "none" /\ credOf = 0 /\ flows = [g \in 1..MaxConnects |-> FALSE]
    /\ queue = 0 /\ run = [w \in Workers |-> NoRun]
    /\ overlapped = FALSE /\ wedged = FALSE /\ skipped = [f \in Files |-> None] /\ faults = 0

Fault == faults < MaxFaults /\ faults' = faults + 1
Exists == src.status # "deleted"
Waiting == {"pending", "syncing"}  \* the row says that a sync is on its way
Goto(w, pc) == run' = [run EXCEPT ![w].pc = pc]
Finish(w) == run' = [run EXCEPT ![w] = NoRun]
\* Repository writes to a row that is gone do nothing.
Write(row) == src' = IF Exists THEN row ELSE src
Unreferenced(keys, rows) == {k \in keys : \A f \in Files : rows[f].body # k}

-----------------------------------------------------------------------------
(* The provider.                                                            *)

\* A file is edited or shared anew, a folder's sharing changes, a file is
\* trashed.  (What changed before there was a grant is part of the initial
\* contents.)
Change ==
    /\ Log < MaxLog /\ cred # "none"
    /\ \/ \E f \in Files \ gone, b \in Bodies :
             /\ changes' = Append(changes, [files |-> {f}, folder |-> FALSE])
             /\ body' = [body EXCEPT ![f] = b] /\ UNCHANGED gone
       \/ /\ Folder \ gone # {}
          /\ changes' = Append(changes, [files |-> Folder \ gone, folder |-> TRUE])
          /\ UNCHANGED <<gone, body>>
       \/ \E f \in Files \ gone : /\ changes' = Append(changes, [files |-> {f}, folder |-> FALSE])
                                  /\ gone' = gone \cup {f} /\ UNCHANGED body
    /\ UNCHANGED <<mirror, objects, src, cred, consent, queue, run, history, faults>>

\* The user withdraws the grant.
Revoke ==
    /\ cred = "live" /\ Fault /\ cred' = "dead"
    /\ UNCHANGED <<provider, mirror, objects, src, consent, queue, run, history>>

-----------------------------------------------------------------------------
(* Consent, requests and the poll.                                          *)

\* start_connect: a new generation supersedes the flows before it.
StartConnect ==
    /\ Exists /\ src.status # "syncing" /\ src.gen < MaxConnects
    /\ src' = [src EXCEPT !.gen = @ + 1]
    /\ flows' = [flows EXCEPT ![src.gen + 1] = TRUE]
    /\ UNCHANGED <<provider, mirror, objects, cred, credOf, queue, run, history, faults>>

\* enqueue_source_sync: one message; the rate limiter only delays it.
Enqueue == queue < MaxQueue /\ queue' = queue + 1

\* Its caller has committed that a sync is on its way; a broker that does not
\* answer is only logged, and the row goes on waiting.
EnqueueAfterCommit ==
    \/ Enqueue /\ UNCHANGED <<wedged, faults>>
    \/ Fault /\ wedged' = TRUE /\ UNCHANGED queue

\* Mutant: a sync that runs does not stop the callback.
ConnectedDuringSync(g) ==
    /\ Exists /\ src.gen = g
    /\ src' = [src EXCEPT !.status = "pending"]
    /\ cred' = "live" /\ credOf' = g /\ EnqueueAfterCommit

\* complete_connect: still this generation, and no sync running; the sync is
\* enqueued after the commit.
Connected(g) ==
    /\ Exists /\ src.gen = g /\ src.status # "syncing"
    /\ src' = [src EXCEPT !.status = "pending"]
    /\ cred' = "live" /\ credOf' = g /\ EnqueueAfterCommit

\* The provider refuses, the row has moved on, or anything raises: the transaction is
\* rolled back and the listener that would enqueue is disarmed.
CallbackFails == UNCHANGED <<src, cred, credOf, queue, wedged, faults>>

\* The callback consumes its state once; what decides is the row at its end,
\* after the exchange at the provider, which may have failed.
Callback(g) ==
    /\ flows[g] /\ flows' = [flows EXCEPT ![g] = FALSE]
    /\ Connected(g) \/ CallbackFails
    /\ UNCHANGED <<provider, mirror, objects, run, overlapped, skipped>>

\* poll_connector_syncs: sources at rest that have a credential.  (When the
\* broker does not answer nothing happens, and the next poll tries again.)
Poll ==
    /\ src.status \in {"ready", "error"} /\ cred # "none"
    /\ Enqueue
    /\ UNCHANGED <<provider, mirror, objects, src, cred, consent, run, history, faults>>

\* resync marks the row before it enqueues.
Resync ==
    /\ src.status \in {"pending", "ready", "error"}
    /\ src' = [src EXCEPT !.status = "syncing"]
    /\ EnqueueAfterCommit
    /\ UNCHANGED <<provider, mirror, objects, cred, consent, run, overlapped, skipped>>

\* SourcesService.delete: documents, credential, row, then the bytes.
DeleteSource ==
    /\ Exists
    /\ src' = [src EXCEPT !.status = "deleted", !.cursor = None, !.resync = FALSE,
                          !.health = FALSE]
    /\ mirror' = [f \in Files |-> NoDoc] /\ cred' = "none"
    /\ objects' = objects \ {mirror[f].body : f \in Files}
    /\ skipped' = [f \in Files |-> None]
    /\ UNCHANGED <<provider, consent, queue, run, overlapped, wedged, faults>>

-----------------------------------------------------------------------------
(* The sync task.                                                           *)

Overlaps(w) == \E v \in Workers \ {w} : run[v].pc # "idle"

\* The row is read and marked SYNCING; what was read decides the mode later.
Start(w) ==
    /\ run[w].pc = "idle" /\ queue > 0 /\ queue' = queue - 1
    /\ IF Exists
       THEN /\ run' = [run EXCEPT ![w] = [NoRun EXCEPT !.pc = "token",
                                          !.cursor = src.cursor, !.resync = src.resync]]
            /\ src' = [src EXCEPT !.status = "syncing"]
            /\ overlapped' = (overlapped \/ Overlaps(w)) /\ wedged' = FALSE
       ELSE UNCHANGED <<run, src, overlapped, wedged>>
    /\ UNCHANGED <<provider, mirror, objects, cred, consent, skipped, faults>>

\* The embedding contract was refused once too often.
ContractFails(w) ==
    /\ run[w].pc = "idle" /\ queue > 0 /\ Fault /\ queue' = queue - 1
    /\ Goto(w, "fail") /\ overlapped' = (overlapped \/ Overlaps(w))
    /\ UNCHANGED <<provider, mirror, objects, src, cred, consent, wedged, skipped>>

\* A database error no handler expects: at the claim of the message, while the
\* credential is read, references are looked up, the documents of the source
\* deleted or the outcome written.  The task is acknowledged as failed, and the
\* row keeps its status.
TaskRaises(w) ==
    /\ Fault
    /\ \/ run[w].pc = "idle" /\ queue > 0 /\ queue' = queue - 1 /\ UNCHANGED run
       \/ /\ \/ run[w].pc \in {"token", "check", "finalize", "replace"}
             \/ run[w].pc = "load" /\ run[w].page.upserts = {}
          /\ Finish(w) /\ UNCHANGED queue
    /\ wedged' = (wedged \/ src.status \in Waiting)
    /\ UNCHANGED <<provider, mirror, objects, src, cred, consent, overlapped, skipped>>

\* _build_run: a dead grant, a failed exchange, or a client and the mode.
Token(w) ==
    /\ run[w].pc = "token"
    /\ \/ cred # "live" /\ Goto(w, "fail") /\ UNCHANGED faults
       \/ cred = "live" /\ Fault /\ Goto(w, "fail")
       \/ /\ cred = "live" /\ UNCHANGED faults
          /\ Goto(w, IF run[w].cursor # None /\ ~run[w].resync THEN "fetch" ELSE "baseline")
    /\ UNCHANGED <<provider, mirror, objects, src, cred, consent, queue, history>>

\* What is read of the files of S.
VersionOf(S) == [f \in Files |-> IF f \in S THEN Version(f) ELSE 0]
BodyOf(S) == [f \in Files |-> IF f \in S THEN body[f] ELSE None]

\* The files of the changes after the cursor up to n, as they are now.  The
\* files recorded under a changed folder are stale until they are read again,
\* which the walk of the folder does if it still finds them there.
PageOf(w, n, reread, seen) ==
    LET window == run[w].cursor + 1 .. n
        own == UNION {changes[i].files : i \in {j \in window : ~changes[j].folder}}
        inherited == UNION {changes[i].files : i \in {j \in window : changes[j].folder}}
        listed == seen \cap ((IF reread THEN own \cup inherited ELSE own) \ gone)
    IN
    [next |-> n, upserts |-> listed, deleted |-> seen \cap own \cap gone,
     stale |-> inherited, complete |-> seen = Files,
     version |-> VersionOf(listed), body |-> BodyOf(listed)]

\* fetch_changes: a page that could not place or read every file it lists is
\* incomplete.
FetchPage(w) ==
    /\ run[w].pc = "fetch"
    /\ \E n \in run[w].cursor .. Log, reread \in BOOLEAN, seen \in SUBSET Files :
          /\ n = run[w].cursor => n = Log
          /\ IF seen = Files THEN UNCHANGED faults ELSE Fault
          /\ run' = [run EXCEPT ![w].page = PageOf(w, n, reread, seen), ![w].pc = "put"]
    /\ UNCHANGED <<provider, mirror, objects, src, cred, consent, queue, history>>

\* The provider forgot the cursor: it is cleared, and everything is read.
CursorExpires(w) ==
    /\ run[w].pc = "fetch" /\ Fault /\ Goto(w, "baseline")
    /\ Write([src EXCEPT !.cursor = None])
    /\ UNCHANGED <<provider, mirror, objects, cred, consent, queue, history>>

FetchFails(w) ==
    /\ run[w].pc \in {"fetch", "baseline", "list"} /\ Fault /\ Goto(w, "fail")
    /\ UNCHANGED <<provider, mirror, objects, src, cred, consent, queue, history>>

\* The bodies are stored inside the page's transaction, before its commit.
Put(w) ==
    /\ run[w].pc = "put" /\ Goto(w, "apply")
    /\ objects' = objects \cup {run[w].page.body[f] : f \in run[w].page.upserts}
    /\ UNCHANGED <<provider, mirror, src, cred, consent, queue, history, faults>>

\* The rows a page leaves.
Applied(page) ==
    [f \in Files |->
       IF f \in page.deleted THEN NoDoc
       ELSE IF f \in page.upserts
       THEN [present |-> TRUE, version |-> page.version[f], fresh |-> TRUE,
             ready |-> FALSE, body |-> page.body[f]]
       ELSE IF f \in page.stale \/ ~page.complete THEN [mirror[f] EXCEPT !.fresh = FALSE]
       ELSE mirror[f]]

\* Mutant: the cursor moves past a page that was not read completely.
AdvanceAlways(page) == [src EXCEPT !.cursor = page.next]

\* The cursor moves with the page; an incomplete one asks for a full sync.
Advance(page) ==
    IF page.complete THEN [src EXCEPT !.cursor = page.next] ELSE [src EXCEPT !.resync = TRUE]

\* The commit of a page: deletions, stale marks, upserts and the cursor.
ApplyPage(w) ==
    LET page == run[w].page
        written == {page.body[f] : f \in page.upserts}
        dropped == {mirror[f].body : f \in page.deleted \cup page.upserts} \ {None}
    IN
    /\ run[w].pc = "apply" /\ Exists
    /\ mirror' = Applied(page) /\ src' = Advance(page)
    /\ run' = [run EXCEPT ![w].pc = "check", ![w].keys = dropped \ written]
    /\ UNCHANGED <<provider, objects, cred, consent, queue, history, faults>>

\* The page is rolled back and what it stored reclaimed.  A dependency error
\* is retried as a message; any other ends the task with the row SYNCING.
PageFails(w) ==
    LET written == {run[w].page.body[f] : f \in run[w].page.upserts} IN
    /\ run[w].pc = "apply"
    /\ objects' = objects \ Unreferenced(written, mirror)
    /\ Finish(w)
    /\ \/ ~Exists /\ UNCHANGED <<queue, wedged, faults>>
       \/ Exists /\ Fault /\ queue < MaxQueue /\ queue' = queue + 1 /\ UNCHANGED wedged
       \/ Exists /\ Fault /\ wedged' = TRUE /\ UNCHANGED queue
    /\ UNCHANGED <<provider, mirror, src, cred, consent, overlapped, skipped>>

\* Mutant: a replaced body is erased whether or not another row has it.
CheckNothing(w) ==
    /\ run[w].pc = "check" /\ Goto(w, "erase")
    /\ UNCHANGED <<provider, mirror, objects, src, cred, consent, queue, history, faults>>

\* _reclaim_objects: keys no row refers to, then their objects.
CheckReferences(w) ==
    /\ run[w].pc = "check"
    /\ run' = [run EXCEPT ![w].pc = "erase", ![w].keys = Unreferenced(run[w].keys, mirror)]
    /\ UNCHANGED <<provider, mirror, objects, src, cred, consent, queue, history, faults>>

EraseObjects(w) ==
    /\ run[w].pc \in {"erase", "clear"}
    /\ objects' = objects \ run[w].keys
    /\ run' = [run EXCEPT ![w].pc = IF run[w].pc = "erase" THEN "ingest" ELSE "load", ![w].keys = {}]
    /\ UNCHANGED <<provider, mirror, src, cred, consent, queue, history, faults>>

\* Every document of the page is ingested, or fails on its own; an
\* incomplete page is the last one.
IngestPage(w) ==
    LET page == run[w].page IN
    /\ run[w].pc = "ingest"
    /\ \E bad \in SUBSET page.upserts :
          /\ IF bad = {} THEN UNCHANGED faults ELSE Fault
          /\ mirror' = [f \in Files |-> IF f \in page.upserts \ bad /\ mirror[f].present
                                        THEN [mirror[f] EXCEPT !.ready = TRUE] ELSE mirror[f]]
    /\ run' = [run EXCEPT ![w].page = [NoPage EXCEPT !.complete = page.complete],
                          ![w].cursor = page.next,
                          ![w].pc = IF ~page.complete \/ page.next = Log THEN "finalize" ELSE "fetch"]
    /\ UNCHANGED <<provider, objects, src, cred, consent, queue, history>>

\* Mutant: only the pages of this run are looked at.
RecoveredPages(w) == run[w].page.complete

\* Nothing is left unvouched for: the run was complete and no mirror is stale.
Recovered(w) == run[w].page.complete /\ \A f \in Present : mirror[f].fresh

\* The last transaction of an incremental sync: READY and healthy, or ERROR
\* and, if a mirror is stale, a full sync next time.
FinalizeIncremental(w) ==
    LET unready == \E f \in Present : ~mirror[f].ready IN
    /\ run[w].pc = "finalize" /\ Finish(w)
    /\ Write(IF unready THEN [src EXCEPT !.status = "error", !.health = FALSE]
             ELSE IF Recovered(w) THEN [src EXCEPT !.status = "ready", !.health = TRUE]
             ELSE [src EXCEPT !.status = "error", !.health = FALSE, !.resync = TRUE])
    /\ UNCHANGED <<provider, mirror, objects, cred, consent, queue, history, faults>>

-----------------------------------------------------------------------------
(* A full sync.                                                             *)

\* The cursor the source will have is taken before anything is listed.
Baseline(w) ==
    /\ run[w].pc = "baseline"
    /\ run' = [run EXCEPT ![w].pc = "list", ![w].cursor = Log]
    /\ UNCHANGED <<provider, mirror, objects, src, cred, consent, queue, history, faults>>

\* sync: every file that is there and whose permissions can be read; the rest
\* is counted as skipped.
Enumerate(w) ==
    /\ run[w].pc = "list"
    /\ \E read \in SUBSET (Files \ gone) :
          /\ IF read = Files \ gone THEN UNCHANGED faults ELSE Fault
          /\ run' = [run EXCEPT ![w].pc = "replace",
                                ![w].page = [NoPage EXCEPT !.upserts = read,
                                                           !.stale = (Files \ gone) \ read,
                                                           !.version = VersionOf(read),
                                                           !.body = BodyOf(read)]]
    /\ UNCHANGED <<provider, mirror, objects, src, cred, consent, queue, history>>

\* Every document of the source is deleted; the bodies only they had follow
\* after the commit.
DeletePrior(w) ==
    /\ run[w].pc = "replace"
    /\ mirror' = [f \in Files |-> NoDoc]
    /\ run' = [run EXCEPT ![w].pc = "clear",
                          ![w].keys = {mirror[f].body : f \in Files} \ {None}]
    /\ UNCHANGED <<provider, objects, src, cred, consent, queue, history, faults>>

\* _ingest_one: body, row, ingestion; one bad document does not stop the rest.
IngestOne(w, f) ==
    LET page == run[w].page IN
    /\ run[w].pc = "load" /\ f \in page.upserts
    /\ objects' = objects \cup {page.body[f]}
    /\ \E ready \in BOOLEAN :
          /\ IF ready \/ ~Exists THEN UNCHANGED faults ELSE Fault
          /\ mirror' = IF Exists
                       THEN [mirror EXCEPT ![f] = [present |-> TRUE, version |-> page.version[f],
                                                   fresh |-> TRUE, ready |-> ready,
                                                   body |-> page.body[f]]]
                       ELSE mirror
          /\ run' = [run EXCEPT ![w].page = [page EXCEPT !.upserts = @ \ {f}, !.version[f] = 0,
                                                          !.body[f] = None],
                                ![w].failed = run[w].failed \/ ~ready \/ ~Exists]
    /\ UNCHANGED <<provider, src, cred, consent, queue, history>>

\* The files a full sync leaves out are out until they change.
SkippedBy(w) ==
    skipped' = IF Exists
               THEN [f \in Files |-> IF f \in run[w].page.stale THEN run[w].cursor ELSE None]
               ELSE skipped

\* Mutant: the cursor is taken when the enumeration has been loaded.
FinishFullNow(w) ==
    /\ run[w].pc = "load" /\ run[w].page.upserts = {}
    /\ IF run[w].failed THEN Goto(w, "fail") /\ UNCHANGED <<src, skipped>>
       ELSE /\ Finish(w) /\ SkippedBy(w)
            /\ Write([src EXCEPT !.status = "ready", !.cursor = Log, !.health = TRUE,
                                 !.resync = @ /\ ~run[w].resync])
    /\ UNCHANGED <<provider, mirror, objects, cred, consent, queue, overlapped, wedged, faults>>

\* READY with the baseline cursor, or ERROR; the demand for a full sync is
\* met only if this run had seen it.
FinishFull(w) ==
    /\ run[w].pc = "load" /\ run[w].page.upserts = {}
    /\ IF run[w].failed THEN Goto(w, "fail") /\ UNCHANGED <<src, skipped>>
       ELSE /\ Finish(w) /\ SkippedBy(w)
            /\ Write([src EXCEPT !.status = "ready", !.cursor = run[w].cursor, !.health = TRUE,
                                 !.resync = @ /\ ~run[w].resync])
    /\ UNCHANGED <<provider, mirror, objects, cred, consent, queue, overlapped, wedged, faults>>

\* Mutant: the failure is logged, not recorded.
FailQuietly(w) ==
    /\ run[w].pc = "fail" /\ Finish(w)
    /\ UNCHANGED <<provider, mirror, objects, src, cred, consent, queue, history, faults>>

\* _fail, retried until the database takes it.
Fail(w) ==
    /\ run[w].pc = "fail" /\ Finish(w)
    /\ Write([src EXCEPT !.status = "error"])
    /\ UNCHANGED <<provider, mirror, objects, cred, consent, queue, history, faults>>

\* The worker dies; the message was not acknowledged and comes again.
Crash(w) ==
    /\ run[w].pc # "idle" /\ Fault /\ queue < MaxQueue
    /\ queue' = queue + 1 /\ Finish(w)
    /\ UNCHANGED <<provider, mirror, objects, src, cred, consent, history>>

-----------------------------------------------------------------------------
TaskStep(w) ==
    \/ Token(w) \/ FetchPage(w) \/ Put(w) \/ ApplyPage(w) \/ PageFails(w)
    \/ CheckReferences(w) \/ EraseObjects(w) \/ IngestPage(w) \/ FinalizeIncremental(w)
    \/ Baseline(w) \/ Enumerate(w) \/ DeletePrior(w) \/ FinishFull(w) \/ Fail(w)
    \/ \E f \in Files : IngestOne(w, f)

Next ==
    \/ Change \/ Revoke \/ StartConnect \/ Poll \/ Resync \/ DeleteSource
    \/ \E g \in 1..MaxConnects : Callback(g)
    \/ \E w \in Workers : \/ Start(w) \/ ContractFails(w) \/ TaskStep(w) \/ Crash(w)
                          \/ CursorExpires(w) \/ FetchFails(w) \/ TaskRaises(w)

Spec == Init /\ [][Next]_vars

\* Workers take messages and run them, and the poll is periodic.
FairSpec ==
    /\ Spec /\ WF_vars(Poll)
    /\ \A w \in Workers : WF_vars(TaskStep(w)) /\ WF_vars(Start(w))
-----------------------------------------------------------------------------
\* The files that changed in their own right after c, up to n.
OwnChange(f, c, n) == \E i \in c + 1..n : f \in changes[i].files /\ ~changes[i].folder

\* What the provider changed up to the cursor is in the mirror: a trashed
\* file has no document, and a document whose permissions are vouched for has
\* those of its last change; unless a full sync is due.  A file is missing only
\* when the last full sync could not read its permissions, and only until it
\* changes in its own right.
MirrorFollowsCursor ==
    (Exists /\ ~overlapped /\ src.cursor # None /\ ~src.resync) =>
       \A f \in Files :
          IF mirror[f].present
          THEN /\ mirror[f].fresh => mirror[f].version >= VersionAt(f, src.cursor)
               /\ f \in gone => Version(f) > src.cursor
          ELSE f \in gone \/ (skipped[f] # None /\ ~OwnChange(f, skipped[f], src.cursor))

\* A source that rests READY vouches for every document it has.
ReadyIsFresh ==
    (src.status = "ready" /\ ~overlapped) =>
       /\ src.health /\ ~src.resync
       /\ \A f \in Present : mirror[f].fresh /\ mirror[f].ready

\* No row points at bytes that are gone.
RowsHaveBytes == ~overlapped => \A f \in Present : mirror[f].body \in objects

\* The grant is not replaced under a task that may read it, and consents are
\* taken in the order they were begun: a callback that comes late, or twice, or
\* between two steps of a sync does not overwrite a newer grant.
GrantChangesAtRest ==
    [][credOf' # credOf => /\ credOf' > credOf
                           /\ overlapped \/ \A w \in Workers : run[w].pc \in {"idle", "fail"}]_vars

\* A source that waits for a sync, or is in one, leaves that status, unless its
\* message was lost at the broker or its task raised.
SyncEnds == (src.status \in Waiting) ~> (src.status \notin Waiting \/ wedged)

\* A permission withdrawn at the provider does not stay vouched for in the
\* mirror while the grant lives.
ChangesArrive ==
    \A f \in Files :
       (mirror[f].fresh /\ mirror[f].version < Version(f)) ~>
          \/ ~mirror[f].fresh \/ mirror[f].version = Version(f)
          \/ wedged \/ overlapped \/ cred # "live"

\* The mirror is sound between any two steps of a sync: it follows the cursor,
\* a READY source vouches for all of it, and its rows have their bytes.
MirrorIsSound == TypeOK /\ MirrorFollowsCursor /\ ReadyIsFresh /\ RowsHaveBytes

\* A sync makes progress: it ends, and changes at the provider arrive.
SyncsProgress == SyncEnds /\ ChangesArrive

=============================================================================
