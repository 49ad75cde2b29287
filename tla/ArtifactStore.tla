---------------------------- MODULE ArtifactStore ----------------------------
(***************************************************************************)
(* The files that answers and sandbox executions produce                    *)
(* (services/artifacts_service, services/chat_composition,                  *)
(* sandbox/service._capture_outputs, tasks/artifact_retention).             *)
(*                                                                          *)
(* An artifact is a row and an object, in two stores with no transaction in *)
(* common.  The write_file calls of one answer each own a private key, noted *)
(* before the bytes are sent and settled by read-back once the answer's      *)
(* transaction has ended; identical sandbox outputs share one content        *)
(* address.  Removal erases the object first and the row after it.           *)
(***************************************************************************)
EXTENDS Naturals, FiniteSets

CONSTANTS Calls,     \* write_file calls of the answer
          Captures,  \* sandbox outputs with the same bytes and file name
          Shared     \* the content address they share

ASSUME ArtifactAssumption == Calls \cap Captures = {} /\ Shared \notin Calls

VARIABLES artifacts,    \* the artifacts rows
          objects,      \* the keys the object store holds
          at,           \* how far each write is
          pendingKeys,  \* the answer's _pending_keys
          answer,       \* the answer's transaction and its compensation
          session,      \* whether the chat session exists
          removal,      \* what the owner and the retention janitor remove
          torn,         \* rows whose removal erased the object and rolled back
          parted,       \* rows whose object went with an identical artifact
          late,         \* rows committed after the read-back found none
          retained      \* keys left behind: compensation failed or impossible

artifactVars == <<artifacts, objects, at, pendingKeys, answer, session, removal, torn, parted, late, retained>>
artifactHistory == <<torn, parted, late, retained>>

Writers == Calls \cup Captures
Key(w) == IF w \in Calls THEN w ELSE Shared
ObjectKeys == Calls \cup {Shared}
Removers == {"owner", "janitor"}
NoRemoval == [todo |-> {}, erased |-> {}]

ArtifactInit ==
    /\ artifacts = [w \in Writers |-> "none"] /\ at = [w \in Writers |-> "idle"]
    /\ objects = {} /\ pendingKeys = {} /\ answer = "open" /\ session = TRUE
    /\ removal = [r \in Removers |-> NoRemoval]
    /\ torn = {} /\ parted = {} /\ late = {} /\ retained = {}

----------------------------------------------------------------------------
(* Writing: validate, store, register. *)

MayWrite(w) == w \in Calls => answer = "open"

\* A rejected file ends here; a tool write notes its private key first.
NotePendingNothing(w) == pendingKeys
NotePending(w) == IF w \in Calls THEN pendingKeys \cup {Key(w)} ELSE pendingKeys
SendBytes(w) ==
    /\ at[w] = "idle" /\ MayWrite(w) /\ pendingKeys' = NotePending(w)
    /\ \E valid \in BOOLEAN : at' = [at EXCEPT ![w] = IF valid THEN "sent" ELSE "failed"]
    /\ UNCHANGED <<artifacts, objects, answer, session, removal, artifactHistory>>

PutArtifact(w) ==
    /\ at[w] = "sent" /\ MayWrite(w)
    /\ objects' = objects \cup {Key(w)} /\ at' = [at EXCEPT ![w] = "put"]
    /\ UNCHANGED <<artifacts, pendingKeys, answer, session, removal, artifactHistory>>

\* The upload or its acknowledgement is lost: the savepoint rolls back and the
\* call fails.  A capture has no compensation.
WriteFails(w) ==
    /\ at[w] \in {"sent", "put"} /\ MayWrite(w)
    /\ at' = [at EXCEPT ![w] = "failed"]
    /\ retained' = retained \cup ({Key(w)} \ Calls)
    /\ UNCHANGED <<artifacts, objects, pendingKeys, answer, session, removal, torn, parted, late>>

\* The insert needs the chat session.
Register(w) ==
    /\ at[w] = "put" /\ MayWrite(w) /\ session
    /\ artifacts' = [artifacts EXCEPT ![w] = "flushed"] /\ at' = [at EXCEPT ![w] = "written"]
    /\ UNCHANGED <<objects, pendingKeys, answer, session, removal, artifactHistory>>

\* The transaction of an execution commits or rolls back.
EndCapture(w) ==
    /\ w \in Captures /\ artifacts[w] = "flushed"
    /\ \/ artifacts' = [artifacts EXCEPT ![w] = "live"] /\ UNCHANGED retained
       \/ artifacts' = [artifacts EXCEPT ![w] = "none"] /\ retained' = retained \cup {Key(w)}
    /\ UNCHANGED <<objects, at, pendingKeys, answer, session, removal, torn, parted, late>>

----------------------------------------------------------------------------
(* The answer's transaction, and compensation after it. *)

Flushed == {w \in Calls : artifacts[w] = "flushed"}
Settle(state) == [w \in Writers |-> IF w \in Flushed THEN state ELSE artifacts[w]]
\* What an interruption finds on its way to the store may still arrive.
Interrupted == [w \in Writers |-> IF w \in Calls /\ at[w] \in {"sent", "put"}
                                  THEN IF at[w] = "sent" THEN "adrift" ELSE "failed" ELSE at[w]]

\* Commit, roll back, or lose the acknowledgement of the commit.
EndAnswer ==
    /\ answer = "open" /\ at' = Interrupted
    /\ \/ Interrupted = at /\ artifacts' = Settle("live") /\ answer' = "ended"
       \/ artifacts' = Settle("none") /\ answer' = "ended"
       \/ Interrupted = at /\ Flushed # {} /\ answer' = "doubt" /\ UNCHANGED artifacts
    /\ UNCHANGED <<objects, pendingKeys, session, removal, artifactHistory>>

\* A commit in doubt takes effect or not, before or after the read-back.
CommitLands ==
    /\ answer = "doubt" \/ (answer \in {"ended", "closed"} /\ Flushed # {})
    /\ \/ artifacts' = Settle("live") /\ late' = late \cup {w \in Flushed : w \notin pendingKeys}
       \/ artifacts' = Settle("none") /\ UNCHANGED late
    /\ answer' = IF answer = "doubt" THEN "ended" ELSE answer
    /\ UNCHANGED <<objects, at, pendingKeys, session, removal, torn, parted, retained>>
\* The session closes without waiting for it.
LeaveInDoubt ==
    /\ answer = "doubt" /\ answer' = "ended"
    /\ UNCHANGED <<artifacts, objects, at, pendingKeys, session, removal, artifactHistory>>

\* A private key with no committed row is erased.
UnreferencedAny(w) == TRUE
Unreferenced(w) == artifacts[w] # "live"
Compensate(w) ==
    /\ answer = "ended" /\ w \in pendingKeys
    /\ objects' = IF Unreferenced(w) THEN objects \ {w} ELSE objects
    /\ pendingKeys' = pendingKeys \ {w}
    /\ UNCHANGED <<artifacts, at, answer, session, removal, artifactHistory>>
\* An error ends the loop, logged; the process may also die before it.
CompensationFails ==
    /\ \/ answer = "ended" /\ UNCHANGED <<artifacts, at>>
       \/ answer = "open" /\ artifacts' = Settle("none") /\ at' = Interrupted
    /\ pendingKeys # {} /\ retained' = retained \cup pendingKeys
    /\ pendingKeys' = {} /\ answer' = "closed"
    /\ UNCHANGED <<objects, session, removal, torn, parted, late>>
CloseAnswer ==
    /\ answer = "ended" /\ pendingKeys = {} /\ answer' = "closed"
    /\ UNCHANGED <<artifacts, objects, at, pendingKeys, session, removal, artifactHistory>>
\* Bytes that were adrift arrive.
ArriveLate(w) ==
    /\ at[w] = "adrift" /\ at' = [at EXCEPT ![w] = "failed"]
    /\ objects' = objects \cup {w}
    /\ retained' = IF w \in pendingKeys THEN retained ELSE retained \cup {w}
    /\ UNCHANGED <<artifacts, pendingKeys, answer, session, removal, torn, parted, late>>

----------------------------------------------------------------------------
(* Removal: one artifact by its owner, a batch of expired ones by the       *)
(* janitor; and the cascade of a deleted chat session.                      *)

Live == {w \in Writers : artifacts[w] = "live"}
BeginRemoval(r, S) ==
    /\ removal[r] = NoRemoval /\ S # {} /\ S \subseteq Live
    /\ r = "owner" => Cardinality(S) = 1
    /\ removal' = [removal EXCEPT ![r].todo = S]
    /\ UNCHANGED <<artifacts, objects, at, pendingKeys, answer, session, artifactHistory>>
\* The object first.  Rows of identical artifacts lose it too.
EraseObject(r, w) ==
    /\ w \in removal[r].todo
    /\ objects' = objects \ {Key(w)}
    /\ parted' = parted \cup {v \in Writers \ {w} : Key(v) = Key(w)}
    /\ removal' = [removal EXCEPT ![r] = [todo |-> @.todo \ {w}, erased |-> @.erased \cup {w}]]
    /\ UNCHANGED <<artifacts, at, pendingKeys, answer, session, torn, late, retained>>
\* Then the rows, committed together.
RemoveRows(r) == [w \in Writers |-> IF w \in removal[r].erased THEN "gone" ELSE artifacts[w]]
FinishRemoval(r) ==
    /\ removal[r].todo = {} /\ removal[r].erased # {}
    /\ artifacts' = RemoveRows(r) /\ removal' = [removal EXCEPT ![r] = NoRemoval]
    /\ UNCHANGED <<objects, at, pendingKeys, answer, session, artifactHistory>>
RemovalFails(r) ==
    /\ removal[r] # NoRemoval /\ removal' = [removal EXCEPT ![r] = NoRemoval]
    /\ torn' = torn \cup removal[r].erased
    /\ UNCHANGED <<artifacts, objects, at, pendingKeys, answer, session, parted, late, retained>>

\* delete_session: the rows go by cascade, once no insert holds the session;
\* nothing erases their objects.
DeleteSession ==
    /\ session /\ \A w \in Writers : artifacts[w] # "flushed"
    /\ session' = FALSE
    /\ artifacts' = [w \in Writers |-> IF w \in Live THEN "gone" ELSE artifacts[w]]
    /\ retained' = retained \cup {Key(w) : w \in Live}
    /\ UNCHANGED <<objects, at, pendingKeys, answer, removal, torn, parted, late>>

ArtifactNext ==
    \/ \E w \in Writers : SendBytes(w) \/ PutArtifact(w) \/ WriteFails(w) \/ Register(w)
                          \/ EndCapture(w) \/ Compensate(w) \/ ArriveLate(w)
    \/ EndAnswer \/ CommitLands \/ LeaveInDoubt \/ CompensationFails \/ CloseAnswer
    \/ \E r \in Removers : \/ \E S \in SUBSET Writers : BeginRemoval(r, S)
                           \/ \E w \in Writers : EraseObject(r, w)
                           \/ FinishRemoval(r) \/ RemovalFails(r)
    \/ DeleteSession

ArtifactSpec == ArtifactInit /\ [][ArtifactNext]_artifactVars

----------------------------------------------------------------------------
(* Correctness. *)

Removing(w) == \E r \in Removers : w \in removal[r].erased
Referenced(k) == \E w \in Writers : Key(w) = k /\ artifacts[w] \in {"live", "flushed"}

\* The variables are well typed; only the answer's own keys await settlement.
ArtifactTypeOK ==
    /\ artifacts \in [Writers -> {"none", "flushed", "live", "gone"}]
    /\ at \in [Writers -> {"idle", "sent", "put", "written", "failed", "adrift"}]
    /\ objects \subseteq ObjectKeys /\ retained \subseteq ObjectKeys
    /\ pendingKeys \subseteq Calls /\ (answer = "closed" => pendingKeys = {})
    /\ answer \in {"open", "doubt", "ended", "closed"} /\ session \in BOOLEAN
    /\ torn \cup parted \cup late \subseteq Writers
    /\ \A r \in Removers : removal[r].todo \cup removal[r].erased \subseteq Writers

\* A committed artifact has its bytes, through lost acknowledgements, commits
\* in doubt and compensation.  Exempt are a row whose own removal is under way
\* or rolled back, one whose identical twin was removed, and one whose commit
\* took effect after the read-back.
ArtifactHasBytes ==
    \A w \in Live : Key(w) \in objects \/ Removing(w) \/ w \in torn \cup parted \cup late

\* Once the answer is settled and nothing is under way, every stored object
\* belongs to a row, or was left behind knowingly: compensation that failed, a
\* rolled back execution, a deleted chat session.
NothingLeaks ==
    answer = "closed" /\ (\A w \in Writers : at[w] \notin {"sent", "put", "adrift"}) =>
        \A k \in objects : Referenced(k) \/ k \in retained

\* Artifacts and objects agree: rows have their bytes (ArtifactHasBytes) and
\* bytes have their rows (NothingLeaks).
ArtifactsMatchObjects == ArtifactTypeOK /\ ArtifactHasBytes /\ NothingLeaks

=============================================================================
