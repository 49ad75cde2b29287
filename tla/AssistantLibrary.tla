-------------------------- MODULE AssistantLibrary --------------------------
(***************************************************************************)
(* One assistant: its editable head row, the versions it was published as   *)
(* (services/assistants_service), what administrators do to it              *)
(* (services/assistant_governance_service, autonomy_policy_service) and the *)
(* conversations and runs started from it (chat_service, runs_service,      *)
(* assistant_runtime).                                                      *)
(*                                                                          *)
(* A patch holds the row lock; publish, rollback and the governance         *)
(* operations read the row without it and write the columns that differ     *)
(* from what they read.                                                     *)
(***************************************************************************)
EXTENDS Naturals, Sequences

CONSTANTS Members,      \* the users of the tenant
          Managers,     \* the administrators among them
          Nobody,
          Sessions,     \* conversations and runs
          MaxVersions,  \* bound: versions
          MaxWrites     \* bound: requests that write

ASSUME LibraryAssumption ==
    /\ Managers \subseteq Members /\ Nobody \notin Members
    /\ MaxVersions \in Nat /\ MaxWrites \in Nat

VARIABLES head,      \* the assistants row
          versions,  \* assistant_versions; the number of a version is its place
          cap,       \* the tenant's autonomy cap
          edits,     \* the request each member has under way
          bound,     \* the conversations: their pinned version
          writes

libraryVars == <<head, versions, cap, edits, bound, writes>>

\* AutonomyLevel, by rank.
Levels == 1..2
\* The frozen part of an assistant: its autonomy, whether web_search is on the
\* allow-list, and whether its knowledge modes leave the web out.
Configs == [autonomy: Levels, web: BOOLEAN, offline: BOOLEAN]
HeadRows == [live: BOOLEAN, owner: Members, backup: Members \cup {Nobody}, config: Configs,
             status: {"draft", "published", "disabled"}, certified: BOOLEAN]
\* create: a draft of a valid configuration.
CreatedBy(m, n, c) == [live |-> TRUE, owner |-> m, backup |-> n, config |-> c,
                       status |-> "draft", certified |-> FALSE]
\* An answer (history): what it ran with, and the cap it read.
Answers == [config: Configs, under: Levels]
\* A conversation; version 0 is NULL.
Conversations == [state: {"none", "loaded", "open"}, bound: BOOLEAN, version: 0..MaxVersions,
                  ran: SUBSET Answers]
\* A request under way: the row it read, the number it gives to a version and
\* the version it rolls back to, or the member it transfers to.
Edit(op, row, number, target, arg) ==
    [op |-> op, snap |-> row, number |-> number, target |-> target, arg |-> arg]
NoEdit == Edit("none", CreatedBy(CHOOSE m \in Members : TRUE, Nobody, CHOOSE c \in Configs : TRUE), 0, 0, Nobody)
EditOps == {"none", "publish", "rollback", "disable", "enable", "transfer", "certify"}
Blank == [state |-> "none", bound |-> FALSE, version |-> 0, ran |-> {}]

\* web_search needs the web mode.
ValidWebMode(c) == ~(c.web /\ c.offline)

\* Bound: it is created with a backup owner.
LibraryInit ==
    /\ \E m, n \in Members, c \in Configs :
           /\ ValidWebMode(c) /\ n # m
           /\ head = CreatedBy(m, n, c)
    /\ edits = [m \in Members |-> NoEdit]
    /\ versions = <<>> /\ cap = 2 /\ writes = 0
    /\ bound = [s \in Sessions |-> Blank]

----------------------------------------------------------------------------
(* The head. *)

MayManageHead(m) == head.live /\ (m \in Managers \/ head.owner = m)
\* One more writing request; nothing but the head changes.
HeadBecomes(row) ==
    /\ writes < MaxWrites /\ writes' = writes + 1 /\ head' = row
    /\ UNCHANGED <<versions, cap, edits, bound>>

\* update: any fields, under the row lock; the rule is checked on the result.
Patch(m, c) == MayManageHead(m) /\ c # head.config /\ ValidWebMode(c) /\ HeadBecomes([head EXCEPT !.config = c])
\* The backup owner may be cleared; one that is named must differ from the acting user.
PatchBackup(m, n) == MayManageHead(m) /\ n \notin {m, head.backup} /\ HeadBecomes([head EXCEPT !.backup = n])

\* delete: the versions go by cascade, and the pins of conversations to NULL.
DeleteAssistant(m) ==
    /\ MayManageHead(m) /\ writes < MaxWrites /\ writes' = writes + 1
    /\ head' = [head EXCEPT !.live = FALSE] /\ versions' = <<>>
    /\ bound' = [s \in Sessions |-> [bound[s] EXCEPT !.version = 0]]
    /\ UNCHANGED <<cap, edits>>

\* The tenant's autonomy cap.
SetCap(l) == writes < MaxWrites /\ cap # l /\ cap' = l /\ writes' = writes + 1
             /\ UNCHANGED <<head, versions, edits, bound>>

----------------------------------------------------------------------------
(* Publication, rollback and governance: read, then write. *)

NextVersion == Len(versions) + 1
BeginEdit(m, e) ==
    /\ edits[m].op = "none" /\ head.live /\ writes < MaxWrites
    /\ edits' = [edits EXCEPT ![m] = e] /\ writes' = writes + 1
    /\ UNCHANGED <<head, versions, cap, bound>>

\* publish needs a backup owner other than the owner, autonomy within the
\* cap, and the web mode rule again.
Publishable ==
    /\ head.backup \notin {Nobody, head.owner}
    /\ head.config.autonomy <= cap
    /\ ValidWebMode(head.config)
BeginPublish(m) ==
    /\ MayManageHead(m) /\ Publishable /\ NextVersion <= MaxVersions
    /\ BeginEdit(m, Edit("publish", head, NextVersion, 0, Nobody))
\* rollback takes any version of the assistant; it validates nothing else.
BeginRollback(m, v) ==
    /\ MayManageHead(m) /\ v \in DOMAIN versions /\ NextVersion <= MaxVersions
    /\ BeginEdit(m, Edit("rollback", head, NextVersion, v, Nobody))
\* certify and feature, set_disabled, transfer_ownership are for administrators.
BeginGovern(m, op, n) ==
    /\ m \in Managers
    /\ IF op = "transfer" THEN n # head.owner ELSE n = m
    /\ BeginEdit(m, Edit(op, head, 0, 0, n))

\* The insert of a version: its number is unique and its assistant exists.
Inserts(m) == head.live /\ edits[m].number = NextVersion
\* SQLAlchemy writes a column that differs from the one it read.
Column(read, new, now) == IF new = read THEN now ELSE new
EndEdit(m) == edits' = [edits EXCEPT ![m] = NoEdit]

Publish(m) ==
    /\ edits[m].op = "publish" /\ Inserts(m)
    /\ versions' = Append(versions, edits[m].snap.config)
    /\ head' = [head EXCEPT !.status = Column(edits[m].snap.status, "published", @)]
    /\ EndEdit(m) /\ UNCHANGED <<cap, bound, writes>>

\* The restored configuration goes to a new version and, column by column, to the head.
RestoredConfig(m) ==
    [f \in DOMAIN head.config |->
        Column(edits[m].snap.config[f], versions[edits[m].target][f], head.config[f])]
RollbackVersionsHead(m) ==
    /\ edits[m].op = "rollback" /\ Inserts(m)
    /\ versions' = Append(versions, RestoredConfig(m))
    /\ head' = [head EXCEPT !.config = RestoredConfig(m),
                            !.status = Column(edits[m].snap.status, "published", @)]
    /\ EndEdit(m) /\ UNCHANGED <<cap, bound, writes>>
Rollback(m) ==
    /\ edits[m].op = "rollback" /\ Inserts(m)
    /\ versions' = Append(versions, versions[edits[m].target])
    /\ head' = [head EXCEPT !.config = RestoredConfig(m),
                            !.status = Column(edits[m].snap.status, "published", @)]
    /\ EndEdit(m) /\ UNCHANGED <<cap, bound, writes>>

GovernedRepublishing(m) ==
    [head EXCEPT !.status = IF edits[m].op = "enable" THEN Column(edits[m].snap.status, "published", @) ELSE @]
Governed(m) ==
    [head EXCEPT !.status = IF edits[m].op = "disable" THEN Column(edits[m].snap.status, "disabled", @)
                            ELSE IF edits[m].op = "enable" THEN Column(edits[m].snap.status, "draft", @) ELSE @,
                 !.certified = IF edits[m].op = "certify" THEN ~edits[m].snap.certified ELSE @,
                 !.owner = IF edits[m].op = "transfer" THEN Column(edits[m].snap.owner, edits[m].arg, @) ELSE @]
Govern(m) ==
    /\ edits[m].op \in {"disable", "enable", "certify", "transfer"} /\ head.live
    /\ head' = Governed(m)
    /\ EndEdit(m) /\ UNCHANGED <<versions, cap, bound, writes>>

\* The row is gone or the number is taken: the request fails and rolls back.
EditFails(m) ==
    /\ edits[m].op # "none"
    /\ ~head.live \/ (edits[m].op \in {"publish", "rollback"} /\ ~Inserts(m))
    /\ EndEdit(m) /\ UNCHANGED <<head, versions, cap, bound, writes>>

----------------------------------------------------------------------------
(* Conversations and runs. *)

\* create_session, enqueue_manual_run: the owner's published assistant is
\* read, then its newest version is pinned.
LoadForUse(s) ==
    /\ bound[s].state = "none" /\ head.live /\ head.status = "published"
    /\ bound' = [bound EXCEPT ![s].state = "loaded"]
    /\ UNCHANGED <<head, versions, cap, edits, writes>>
GetHead == Len(versions)
PinVersion(s) ==
    /\ bound[s].state = "loaded"
    /\ bound' = [bound EXCEPT ![s] = IF head.live /\ GetHead # 0
                                     THEN [@ EXCEPT !.state = "open", !.bound = TRUE, !.version = GetHead]
                                     ELSE [@ EXCEPT !.state = "none"]]
    /\ UNCHANGED <<head, versions, cap, edits, writes>>

\* clamped_to: the level, lowered to the cap.
Clamped(c, l) == [c EXCEPT !.autonomy = IF @ <= l THEN @ ELSE l]
\* What an answer is given: the pinned configuration, web_search only with the
\* web mode, and its autonomy within the cap of the moment.
RunConfig(c) == Clamped([c EXCEPT !.web = @ /\ ~c.offline], cap)
VersionNewest(s) == Len(versions)
VersionOf(s) == bound[s].version
\* An answer of a bound conversation, refused when its version is gone.
Answer(s) ==
    /\ bound[s].state = "open" /\ VersionOf(s) # 0
    /\ bound' = [bound EXCEPT ![s].ran = @ \cup {[config |-> RunConfig(versions[VersionOf(s)]), under |-> cap]}]
    /\ UNCHANGED <<head, versions, cap, edits, writes>>

LibraryNext ==
    \/ \E m \in Members :
          \/ \E c \in Configs : Patch(m, c)
          \/ \E n \in Members \cup {Nobody} : PatchBackup(m, n)
          \/ DeleteAssistant(m) \/ BeginPublish(m) \/ Publish(m)
          \/ \E v \in 1..MaxVersions : BeginRollback(m, v)
          \/ \E op \in {"disable", "enable", "certify", "transfer"}, n \in Members : BeginGovern(m, op, n)
          \/ Rollback(m) \/ Govern(m) \/ EditFails(m)
    \/ \E l \in Levels : SetCap(l)
    \/ \E s \in Sessions : LoadForUse(s) \/ PinVersion(s) \/ Answer(s)

LibrarySpec == LibraryInit /\ [][LibraryNext]_libraryVars

----------------------------------------------------------------------------
(* Correctness. *)

\* The rows are well formed; a request's version number is at most the next.
LibraryTypeOK ==
    /\ head \in HeadRows /\ versions \in Seq(Configs) /\ Len(versions) <= MaxVersions /\ cap \in Levels
    /\ \A m \in Members : edits[m].op \in EditOps /\ edits[m].snap \in HeadRows
    /\ \A s \in Sessions : bound[s] \in Conversations /\ bound[s].version <= Len(versions)

\* No version offers web_search without the web mode, although a rollback that
\* overlaps a patch can leave the head so: what conversations pin is checked
\* whole.
VersionsAreCoherent == \A v \in DOMAIN versions : ValidWebMode(versions[v])

\* A published assistant has a version to run, whatever requests overlapped
\* its publication: create_session and enqueue_manual_run rely on it.
PublishedHasVersion == head.live /\ head.status = "published" => versions # <<>>

\* All the answers of a conversation ran with one configuration, which only the
\* cap of the moment lowers: of two answers, the one under the lower cap is the
\* other clamped to it, whatever edits, publications, rollbacks and changes of
\* the cap came between; after the assistant is gone there is no answer at all.
RunsOneConfig ==
    \A s \in Sessions : \A x, y \in bound[s].ran :
        x.under <= y.under => x.config = Clamped(y.config, x.under)

\* Versions are sound: each is coherent, a published assistant has one, and a
\* conversation runs the one it pinned (VersionsAreCoherent,
\* PublishedHasVersion, RunsOneConfig).
VersionsAreSound == LibraryTypeOK /\ VersionsAreCoherent /\ PublishedHasVersion /\ RunsOneConfig

=============================================================================
