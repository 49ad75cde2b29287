---------------------------- MODULE MCWorkspace ----------------------------
(***************************************************************************)
(* The administrative parts of a workspace for TLC: provider and MCP         *)
(* endpoints with their keys, assistants, access to documents, the ledger    *)
(* of refusals, the inbox, the artifacts, the sandbox runner and the         *)
(* tenant's settings.  No two parts write the same table, so a behaviour of  *)
(* one runs with the others at rest and their states add up.                 *)
(***************************************************************************)
EXTENDS ProviderVault, AssistantLibrary, AccessControl, DenialLedger, RunInbox, ArtifactStore,
        RunnerEngine, TenantPolicy

VARIABLE part

Parts == {"vault", "library", "access", "denial", "inbox", "artifacts", "runner", "settings"}
workspaceVars == <<part, vars, libraryVars, accessVars, denialVars, inboxVars, artifactVars, runnerVars, policyVars>>

\* A part at rest stands in one of its initial states.
LibraryAtRest == head = CHOOSE h \in HeadRows :
    /\ h.live /\ h.status = "draft" /\ ~h.certified
    /\ h.backup \notin {h.owner, Nobody} /\ ValidWebMode(h.config)
AccessAtRest == doc = CHOOSE d \in Documents : d.live /\ ~d.enforced /\ d.mirror = [acl |-> {}, fresh |-> FALSE]
DenialAtRest == contexts = [g \in Guards |-> 1]

WorkspaceInit ==
    /\ part \in Parts
    /\ Init /\ LibraryInit /\ AccessInit /\ DenialInit /\ InboxInit /\ ArtifactInit /\ RunnerInit /\ PolicyInit
    /\ part = "library" \/ LibraryAtRest
    /\ part = "access" \/ AccessAtRest
    /\ part = "denial" \/ DenialAtRest

WorkspaceNext ==
    /\ UNCHANGED part
    /\ \/ part = "vault" /\ Next
          /\ UNCHANGED <<libraryVars, accessVars, denialVars, inboxVars, artifactVars, runnerVars, policyVars>>
       \/ part = "library" /\ LibraryNext
          /\ UNCHANGED <<vars, accessVars, denialVars, inboxVars, artifactVars, runnerVars, policyVars>>
       \/ part = "access" /\ AccessNext
          /\ UNCHANGED <<vars, libraryVars, denialVars, inboxVars, artifactVars, runnerVars, policyVars>>
       \/ part = "denial" /\ DenialNext
          /\ UNCHANGED <<vars, libraryVars, accessVars, inboxVars, artifactVars, runnerVars, policyVars>>
       \/ part = "inbox" /\ InboxNext
          /\ UNCHANGED <<vars, libraryVars, accessVars, denialVars, artifactVars, runnerVars, policyVars>>
       \/ part = "artifacts" /\ ArtifactNext
          /\ UNCHANGED <<vars, libraryVars, accessVars, denialVars, inboxVars, runnerVars, policyVars>>
       \/ part = "runner" /\ RunnerNext
          /\ UNCHANGED <<vars, libraryVars, accessVars, denialVars, inboxVars, artifactVars, policyVars>>
       \/ part = "settings" /\ PolicyNext
          /\ UNCHANGED <<vars, libraryVars, accessVars, denialVars, inboxVars, artifactVars, runnerVars>>

WorkspaceSpec == WorkspaceInit /\ [][WorkspaceNext]_workspaceVars
=============================================================================
