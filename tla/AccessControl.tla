---------------------------- MODULE AccessControl ----------------------------
(***************************************************************************)
(* Who may see a document: ownership, grants to users and groups            *)
(* (services/grants_service, services/groups_service), mirrored connector   *)
(* rights, and the requests that read through the permission filter         *)
(* (retrieval/service, retrieval/queries, search/filters, search_service,   *)
(* document_service, citation_access).                                      *)
(*                                                                          *)
(* One document of one collection, one group an administrator manages and   *)
(* the tenant-wide system group.  A request reads in several statements, so *)
(* administration and connector syncs happen between them; the search       *)
(* engine holds a copy of the document's rights that lags behind the row.   *)
(***************************************************************************)
EXTENDS Naturals, FiniteSets

CONSTANTS People,     \* the users of the tenant
          Administrators,     \* the administrators among them
          Readers,    \* the users whose requests are modelled
          Team,       \* the group
          Everyone,   \* the system group "All members", and the ACL's "tenant"
          MaxChanges  \* bound: administrative changes, syncs and requests

ASSUME AccessAssumption ==
    /\ Administrators \subseteq People /\ Readers \subseteq People
    /\ Team # Everyone /\ {Team, Everyone} \cap People = {}
    /\ MaxChanges \in Nat

VARIABLES group,     \* the row of Team: none, live, gone
          system,    \* whether the row of Everyone exists
          team,      \* group_members of Team
          grants,    \* the grants of the document and of its collection
          pending,   \* the grant a request has validated and not inserted
          doc,       \* the documents row
          index,     \* the search engine's copy
          reads,     \* the request each reader has under way
          changes

accessVars == <<group, system, team, grants, pending, doc, index, reads, changes>>

\* Bound: memberships, grants and mirrored rights concern the readers.
Principals == Readers \cup {Team, Everyone}
\* A grant: on the document or on its collection, to a user or a group.
Grants == [on: {"document", "collection"}, to: Principals]
\* No grant under way: a grant on nothing.
NoGrant == [on |-> "none", to |-> Team]
\* Mirrored rights: the principals and whether they were synced within the
\* freshness window.
Mirrors == [acl: SUBSET (Readers \cup {Everyone}), fresh: BOOLEAN]
Documents == [live: BOOLEAN, owner: People, enforced: BOOLEAN, mirror: Mirrors]
\* A request: groups and granted are what it has read; entitled, left and
\* quiet are history: it was entitled at some moment of the request, left the
\* group during it, nothing changed during it.
Requests == [at: {"idle", "members", "groups", "filter", "hits", "hydrated", "named", "done"},
             groups: SUBSET {Team, Everyone}, granted: SUBSET Grants, shown: BOOLEAN,
             entitled: BOOLEAN, left: BOOLEAN, quiet: BOOLEAN]
NoRequest == [at |-> "idle", groups |-> {}, granted |-> {}, shown |-> FALSE,
              entitled |-> FALSE, left |-> FALSE, quiet |-> TRUE]

\* An uploaded document, or a connector's with the rights it was synced with.
AccessInit ==
    /\ group = "none" /\ system = FALSE /\ team = {} /\ grants = {} /\ pending = NoGrant
    /\ \E o \in People, enforced \in BOOLEAN, acl \in SUBSET (Readers \cup {Everyone}) :
           /\ enforced \/ acl = {}
           /\ doc = [live |-> TRUE, owner |-> o, enforced |-> enforced,
                     mirror |-> [acl |-> acl, fresh |-> enforced]]
    /\ index = doc
    /\ reads = [p \in Readers |-> NoRequest] /\ changes = 0

----------------------------------------------------------------------------
(* The permission predicate, in SQL and in the engine. *)

\* AllowSet.acl_principals.
AclPrincipals(p) == {p, Everyone}
GrantReaches(p, groups) == {g \in grants : g.to = p \/ g.to \in groups}
Enforced(d, p) == d.enforced /\ d.mirror.acl \cap AclPrincipals(p) # {} /\ d.mirror.fresh
\* _document_permitted: the owner and the grants of an unmirrored document,
\* the fresh mirror of a mirrored one.
DocumentPermitted(p, groups) ==
    /\ doc.live
    /\ \/ ~doc.enforced /\ (doc.owner = p \/ GrantReaches(p, groups) # {})
       \/ Enforced(doc, p)
\* SearchAllowFilter over the engine's copy, with the grants read before.
EngineAdmits(p) ==
    /\ index.live
    /\ \/ ~index.enforced /\ (index.owner = p \/ reads[p].granted # {})
       \/ Enforced(index, p)

\* The groups p is in now.
GroupIds(p) == {g \in {Team} : p \in team} \cup {g \in {Everyone} : system}
Entitled(p) == DocumentPermitted(p, GroupIds(p))

----------------------------------------------------------------------------
(* Administration.  Every change ends the quiet of the requests there are,  *)
(* and may entitle the readers of the ones under way.                      *)

UnderWay(p) == reads[p].at \notin {"idle", "done"}
Touch(leavers) ==
    /\ changes < MaxChanges /\ changes' = changes + 1
    /\ reads' = [p \in Readers |->
                   [reads[p] EXCEPT !.quiet = @ /\ reads[p].at = "idle",
                                    !.left = @ \/ (UnderWay(p) /\ p \in leavers),
                                    !.entitled = @ \/ (UnderWay(p) /\ Entitled(p)')]]

RequireAdmin(a) == a \in Administrators
\* create_group.
CreateGroup(a) == RequireAdmin(a) /\ group = "none" /\ group' = "live"
                  /\ UNCHANGED <<system, team, grants, pending, doc, index>> /\ Touch({})
\* list_groups_with_counts makes the system group.
EnsureSystemGroup(a) == RequireAdmin(a) /\ ~system /\ system' = TRUE
                        /\ UNCHANGED <<group, team, grants, pending, doc, index>> /\ Touch({})
\* add_member: the foreign key needs the group, the system group is refused.
AddMember(a, p) == RequireAdmin(a) /\ group = "live" /\ p \notin team /\ team' = team \cup {p}
                   /\ UNCHANGED <<group, system, grants, pending, doc, index>> /\ Touch({})
RemoveMember(a, p) == RequireAdmin(a) /\ p \in team /\ team' = team \ {p}
                      /\ UNCHANGED <<group, system, grants, pending, doc, index>> /\ Touch({p})
\* delete_group: the members, the grants, the row.
DeleteGroup(a) ==
    /\ RequireAdmin(a) /\ group = "live" /\ group' = "gone"
    /\ team' = {} /\ grants' = {g \in grants : g.to # Team}
    /\ UNCHANGED <<system, pending, doc, index>> /\ Touch(team)

\* create_grant: the resource's owner or an administrator; the grantee exists.
Authorize(a) == doc.live /\ (a \in Administrators \/ doc.owner = a)
ValidGrantee(q) == (q = Team => group = "live") /\ (q = Everyone => system)
CreateGrant(a, g) ==
    /\ Authorize(a) /\ ValidGrantee(g.to) /\ pending = NoGrant /\ g \notin grants
    /\ pending' = g /\ UNCHANGED <<group, system, team, grants, doc, index, reads, changes>>
\* grants.principal_id has no foreign key: the insert succeeds whatever became
\* of the group meanwhile.
InsertGrant ==
    /\ pending # NoGrant /\ grants' = grants \cup {pending} /\ pending' = NoGrant
    /\ UNCHANGED <<group, system, team, doc, index>> /\ Touch({})
RevokeGrant(a, g) == Authorize(a) /\ g \in grants /\ grants' = grants \ {g}
                     /\ UNCHANGED <<group, system, team, pending, doc, index>> /\ Touch({})

\* The owner deletes the document, or its collection.
DeleteDocument == doc.live /\ doc' = [doc EXCEPT !.live = FALSE]
                  /\ UNCHANGED <<group, system, team, grants, pending, index>> /\ Touch({})

\* A sync writes the rights it fetched and their stamp; the stamp ages or is
\* taken back.
SyncAcl(acl) == doc.live /\ doc.enforced /\ doc.mirror # [acl |-> acl, fresh |-> TRUE]
                /\ doc' = [doc EXCEPT !.mirror = [acl |-> acl, fresh |-> TRUE]]
                /\ UNCHANGED <<group, system, team, grants, pending, index>> /\ Touch({})
AclLapses == doc.live /\ doc.mirror.fresh /\ doc' = [doc EXCEPT !.mirror.fresh = FALSE]
             /\ UNCHANGED <<group, system, team, grants, pending, index>> /\ Touch({})
\* The index task copies the row, or removes the chunks of a deleted one.
IndexSync == index # doc /\ index' = doc
             /\ UNCHANGED <<group, system, team, grants, pending, doc>> /\ Touch({})

----------------------------------------------------------------------------
(* Requests. *)

To(p, r) == reads' = [reads EXCEPT ![p] = r] /\ UNCHANGED <<group, system, team, grants, pending, doc, index>>
Goes(p, r) == To(p, r) /\ UNCHANGED changes
Shows(b, p) == [reads[p] EXCEPT !.at = "done", !.shown = b, !.groups = {}, !.granted = {}]

\* A new request resolves the allow-set: memberships, then the system group.
ResolveAllowSet(p) ==
    /\ ~UnderWay(p) /\ changes < MaxChanges /\ changes' = changes + 1
    /\ To(p, [NoRequest EXCEPT !.at = "members", !.groups = {g \in {Team} : p \in team},
                               !.entitled = Entitled(p)])
ReadSystemGroup(p) ==
    /\ reads[p].at = "members"
    /\ Goes(p, [reads[p] EXCEPT !.at = "groups", !.groups = @ \cup {g \in {Everyone} : system}])

\* search: the granted ids go into the engine's filter, its hits are hydrated
\* under the predicate again, and the documents of the page are loaded.
AllowFilterOfUser(p) == {g \in grants : g.to = p}
AllowFilter(p) == GrantReaches(p, reads[p].groups)
ReadGrants(p) ==
    /\ reads[p].at = "groups"
    /\ Goes(p, [reads[p] EXCEPT !.at = "filter", !.granted = AllowFilter(p)])
HybridSearch(p) ==
    /\ reads[p].at = "filter"
    /\ Goes(p, IF EngineAdmits(p) THEN [reads[p] EXCEPT !.at = "hits"] ELSE Shows(FALSE, p))
HydratesWhatWasFound(p) == doc.live
Hydrates(p) == DocumentPermitted(p, reads[p].groups)
LoadPassages(p) ==
    /\ reads[p].at = "hits"
    /\ Goes(p, IF Hydrates(p) THEN [reads[p] EXCEPT !.at = "hydrated"] ELSE Shows(FALSE, p))
ToResults(p) == reads[p].at = "hydrated" /\ Goes(p, Shows(doc.live, p))

\* One statement under the predicate: the passages of known chunks, the names
\* or the list of documents, the address to download one from.
Looks(p) ==
    /\ reads[p].at = "groups"
    /\ Goes(p, Shows(DocumentPermitted(p, reads[p].groups), p))
ReadPassages(p) == Looks(p)
PermittedDocumentNames(p) == Looks(p)
PresignContent(p) == Looks(p)
\* A stored citation is redacted unless its document is permitted now.
EnforceCitations(p) == Looks(p)
\* A document named by a chunk or by its name is found first and loaded after.
ResolveDocument(p) ==
    /\ reads[p].at = "groups"
    /\ Goes(p, IF DocumentPermitted(p, reads[p].groups) THEN [reads[p] EXCEPT !.at = "named"] ELSE Shows(FALSE, p))
LoadDocumentText(p) == reads[p].at = "named" /\ Goes(p, Shows(DocumentPermitted(p, reads[p].groups), p))

AccessNext ==
    \/ \E a \in People :
          \/ CreateGroup(a) \/ EnsureSystemGroup(a) \/ DeleteGroup(a)
          \/ \E p \in Readers : AddMember(a, p) \/ RemoveMember(a, p)
          \/ \E g \in Grants : CreateGrant(a, g) \/ RevokeGrant(a, g)
    \/ InsertGrant \/ DeleteDocument \/ AclLapses \/ IndexSync
    \/ \E acl \in SUBSET (Readers \cup {Everyone}) : SyncAcl(acl)
    \/ \E p \in Readers :
          \/ ResolveAllowSet(p) \/ ReadSystemGroup(p) \/ ReadGrants(p) \/ HybridSearch(p) \/ LoadPassages(p)
          \/ ToResults(p) \/ ReadPassages(p) \/ PermittedDocumentNames(p)
          \/ PresignContent(p) \/ EnforceCitations(p) \/ ResolveDocument(p) \/ LoadDocumentText(p)

AccessSpec == AccessInit /\ [][AccessNext]_accessVars

----------------------------------------------------------------------------
(* Correctness. *)

\* The rows are well formed; only a group that exists has members.
AccessTypeOK ==
    /\ group \in {"none", "live", "gone"} /\ system \in BOOLEAN
    /\ team \subseteq Readers /\ (group # "live" => team = {})
    /\ grants \subseteq Grants /\ (pending = NoGrant \/ pending \in Grants)
    /\ doc \in Documents /\ index \in Documents
    /\ reads \in [Readers -> Requests]

\* What a request showed its reader was entitled to at some moment of that
\* request, whatever the engine's copy said: revoking a grant, leaving or
\* deleting a group, losing or ageing rights and deletion all end access by the
\* next request.  A reader who left the group during the request is exempt:
\* retrieval joins the memberships it read first with the grants it reads last.
ShownWasPermitted == \A p \in Readers : reads[p].shown => reads[p].entitled \/ reads[p].left

\* A search during which nothing changed, over an index that has caught up,
\* shows the document exactly when it is permitted: the engine's filter and the
\* SQL predicate agree.
QuietSearchIsExact ==
    \A p \in Readers : reads[p].at = "done" /\ reads[p].quiet /\ index = doc =>
        (reads[p].shown <=> Entitled(p))

\* Reading is exact: nothing is shown that was not permitted
\* (ShownWasPermitted), and in quiet everything permitted is
\* (QuietSearchIsExact).
AccessIsExact == AccessTypeOK /\ ShownWasPermitted /\ QuietSearchIsExact

=============================================================================
