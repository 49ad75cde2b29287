--------------------------- MODULE WorkspaceProofs ---------------------------
(***************************************************************************)
(* Proofs about the parts of a workspace that MCWorkspace runs side by side, *)
(* each from its own specification and for any value of its constants: the   *)
(* inbox, access to documents, the ledger of refusals, the artifacts, the    *)
(* assistants, the credentials of model providers and tool servers, the      *)
(* sandbox runner, the tenant's policies.                                    *)
(***************************************************************************)
EXTENDS ProviderVault, AssistantLibrary, RunInbox, AccessControl, DenialLedger, ArtifactStore, RunnerEngine,
        TenantPolicy, DataInduction

-----------------------------------------------------------------------------
(* The inbox.  A sweep that nobody disturbs holds pending rows that no other *)
(* sweep holds and no digest has announced: Undisturbed.                     *)

\* What the history variables leave out of InboxTypeOK.
InboxTypes ==
    /\ sweeps \in [Sweepers -> SUBSET Deliveries] /\ announced \in [Deliveries -> Nat]
    /\ opened \subseteq Deliveries

Undisturbed ==
    \A d \in Deliveries \ clashed :
        /\ \A w, v \in Sweepers : d \in sweeps[w] /\ d \in sweeps[v] => w = v
        /\ \A w \in Sweepers : d \in sweeps[w] => inbox[d].status = "pending"
        /\ announced[d] <= 1
        /\ announced[d] = 1 => inbox[d].status # "pending"
        /\ d \in opened => inbox[d].status = "read"

InboxInv == InboxTypeOK /\ InboxTypes /\ Undisturbed

\* list_pending_digest keeps within its limit.
LEMMA SweepBound == Cardinality(OldestPending) <= DigestBatch
<1>1. Pending \in SUBSET Nat /\ IsFiniteSet(Pending)
  BY InboxAssumption, FS_Subset DEF Pending
<1>2. DigestBatch \in Nat \ {0}
  BY InboxAssumption
<1> HIDE DEF Pending
<1> QED BY <1>1, <1>2, BatchBound DEF OldestPending

\* A delivery is produced, opened, swept or left alone: what a step does to it.
LEMMA InboxStep ==
    ASSUME InboxInv, InboxNext
    PROVE  InboxInv'
<1> USE DEF InboxInv, InboxTypes
<1>1. ASSUME NEW d \in Deliveries, ProduceDelivery(d) PROVE InboxInv'
  <2>1. PICK r \in DeliveryRows : inbox' = [inbox EXCEPT ![d] = r] /\ r.kind # "none"
    <3>1. \A r \in {[kind |-> "digest", status |-> "pending"], [kind |-> "inbox", status |-> "delivered"],
                    [kind |-> "inbox", status |-> "failed"]} : r \in DeliveryRows /\ r.kind # "none"
      BY DEF DeliveryRows, DeliveryStatuses
    <3> QED BY <1>1, <3>1 DEF ProduceDelivery
  <2>2. UNCHANGED <<sweeps, announced, opened, clashed>> /\ inbox[d].kind = "none" /\ inbox[d].status = "pending"
    BY <1>1 DEF ProduceDelivery, InboxTypeOK, DeliveryRows
  <2>3. \A w \in Sweepers : d \notin sweeps[w]
    BY <2>2 DEF InboxTypeOK
  <2>4. InboxTypeOK'
    BY <2>1, <2>2, <2>3 DEF InboxTypeOK
  <2>5. Undisturbed'
    BY <2>1, <2>2, <2>3 DEF Undisturbed, InboxTypeOK
  <2> QED BY <2>2, <2>4, <2>5
<1>2. ASSUME NEW d \in Deliveries, MarkRead(d) PROVE InboxInv'
  <2>1. /\ inbox[d].kind \in {"inbox", "digest"} /\ UNCHANGED <<sweeps, announced>>
        /\ opened' = opened \cup {d} /\ clashed \subseteq clashed'
        /\ (\E w \in Sweepers : d \in sweeps[w]) => d \in clashed'
    BY <1>2 DEF MarkRead, InboxTypeOK, DeliveryRows
  <2>2. PICK r \in DeliveryRows : inbox' = [inbox EXCEPT ![d] = r] /\ r.kind = inbox[d].kind /\ r.status = "read"
    <3>1. PICK r : r = [inbox[d] EXCEPT !.status = "read"]
      OBVIOUS
    <3>2. inbox' = [inbox EXCEPT ![d] = r]
      BY <1>2, <3>1 DEF MarkRead
    <3>3. r \in DeliveryRows /\ r.kind = inbox[d].kind /\ r.status = "read"
      BY <2>1, <3>1 DEF InboxTypeOK, DeliveryRows, DeliveryStatuses
    <3> QED BY <3>2, <3>3
  <2>4. InboxTypeOK'
    BY <2>1, <2>2 DEF InboxTypeOK
  <2>5. Undisturbed'
    BY <2>1, <2>2 DEF Undisturbed, InboxTypeOK
  <2> QED BY <2>1, <2>4, <2>5
<1>3. ASSUME NEW w \in Sweepers, BeginSweep(w) PROVE InboxInv'
  <2>1. /\ sweeps[w] = {} /\ sweeps' = [sweeps EXCEPT ![w] = OldestPending] /\ UNCHANGED <<inbox, announced, opened>>
        /\ clashed' = clashed \cup {d \in OldestPending : \E v \in Sweepers : d \in sweeps[v]}
    BY <1>3 DEF BeginSweep
  <2>2. \A d \in OldestPending : d \in Deliveries /\ inbox[d].kind = "digest" /\ inbox[d].status = "pending"
    BY DEF OldestPending, Pending
  <2> HIDE DEF OldestPending
  <2>4. InboxTypeOK'
    BY <2>1, <2>2, SweepBound DEF InboxTypeOK
  <2>5. Undisturbed'
    BY <2>1, <2>2 DEF Undisturbed
  <2> QED BY <2>1, <2>2, <2>4, <2>5
<1>4. ASSUME NEW w \in Sweepers, BuildDigest(w) PROVE InboxInv'
  <2>1. /\ sweeps' = [sweeps EXCEPT ![w] = {}] /\ UNCHANGED <<opened, clashed>>
        /\ announced' \in [Deliveries -> Nat]
        /\ \A d \in Deliveries : announced'[d] = announced[d] + (IF d \in sweeps[w] THEN 1 ELSE 0)
    BY <1>4 DEF BuildDigest
  <2>2. /\ inbox' \in [Deliveries -> DeliveryRows]
        /\ \A d \in Deliveries : /\ inbox'[d].kind = inbox[d].kind
                                 /\ inbox'[d].status = IF d \in sweeps[w] THEN "delivered" ELSE inbox[d].status
    BY <1>4 DEF BuildDigest, MarkDelivered, InboxTypeOK, DeliveryRows, DeliveryStatuses
  <2>3. Cardinality({}) = 0 /\ DigestBatch \in Nat
    BY FS_EmptySet, InboxAssumption
  <2>4. InboxTypeOK'
    BY <2>1, <2>2, <2>3 DEF InboxTypeOK
  <2>5. Undisturbed'
    <3> SUFFICES ASSUME NEW d \in Deliveries \ clashed
                 PROVE  /\ \A u, v \in Sweepers : d \in sweeps'[u] /\ d \in sweeps'[v] => u = v
                        /\ \A u \in Sweepers : d \in sweeps'[u] => inbox'[d].status = "pending"
                        /\ announced'[d] <= 1
                        /\ announced'[d] = 1 => inbox'[d].status # "pending"
                        /\ d \in opened => inbox'[d].status = "read"
      BY <2>1 DEF Undisturbed
    <3>1. \A u \in Sweepers : sweeps'[u] = IF u = w THEN {} ELSE sweeps[u]
      BY <2>1
    <3>2. CASE d \in sweeps[w]
      <4>1. inbox[d].status = "pending" /\ announced[d] <= 1 /\ announced[d] # 1 /\ announced[d] \in Nat
        BY <3>2 DEF Undisturbed
      <4>2. announced'[d] = 1 /\ inbox'[d].status = "delivered" /\ d \notin opened
        <5>1. announced[d] = 0
          BY <4>1
        <5>2. announced'[d] = 1 /\ inbox'[d].status = "delivered"
          BY <2>1, <2>2, <3>2, <5>1
        <5>3. d \notin opened
          BY <4>1 DEF Undisturbed
        <5> QED BY <5>2, <5>3
      <4>3. \A u \in Sweepers : d \notin sweeps'[u]
        BY <3>1, <3>2 DEF Undisturbed
      <4> QED BY <4>2, <4>3
    <3>3. CASE d \notin sweeps[w]
      BY <2>1, <2>2, <3>1, <3>3 DEF Undisturbed
    <3> QED BY <3>2, <3>3
  <2> QED BY <2>1, <2>4, <2>5
<1>5. ASSUME NEW w \in Sweepers, SweepDies(w) PROVE InboxInv'
  <2>1. sweeps' = [sweeps EXCEPT ![w] = {}] /\ UNCHANGED <<inbox, announced, opened, clashed>>
    BY <1>5 DEF SweepDies
  <2>3. Cardinality({}) = 0 /\ DigestBatch \in Nat
    BY FS_EmptySet, InboxAssumption
  <2>4. InboxTypeOK'
    BY <2>1, <2>3 DEF InboxTypeOK
  <2>5. Undisturbed'
    BY <2>1 DEF Undisturbed
  <2> QED BY <2>1, <2>4, <2>5
<1> QED BY <1>1, <1>2, <1>3, <1>4, <1>5 DEF InboxNext

\* However the sweeps of any workers, their redeliveries and the recipient
\* interleave, a digest is announced once and what was read stays read, but for
\* the deliveries of which two readings overlapped.
THEOREM InboxHonest == InboxSpec => []InboxIsHonest
<1>1. InboxInit => InboxInv
  <2> SUFFICES ASSUME InboxInit PROVE InboxInv
    OBVIOUS
  <2>1. Cardinality({}) = 0 /\ DigestBatch \in Nat
    BY FS_EmptySet, InboxAssumption
  <2> QED BY <2>1 DEF InboxInit, InboxInv, InboxTypeOK, InboxTypes, Undisturbed, NoDelivery, DeliveryRows
<1>2. InboxInv /\ [InboxNext]_inboxVars => InboxInv'
  <2> SUFFICES ASSUME InboxInv, UNCHANGED inboxVars PROVE InboxInv'
    BY InboxStep
  <2> QED BY DEF inboxVars, InboxInv, InboxTypeOK, InboxTypes, Undisturbed
<1>3. InboxInv => InboxIsHonest
  BY DEF InboxInv, InboxTypes, Undisturbed, InboxIsHonest, DigestSentOnce, ReadStaysRead
<1> QED BY <1>1, <1>2, <1>3, PTL DEF InboxSpec

-----------------------------------------------------------------------------
(* Access to documents.  What a request has read so far is what holds now,   *)
(* but for what its history admits: Consistent.                              *)

\* A request with reader p: `entitled', `mine', `inTeam', `reach' and `synced' are
\* what holds now (Entitled, GroupIds, membership, the grants its groups reach,
\* whether the engine has caught up).
Consistent(r, entitled, mine, inTeam, reach, synced) ==
    /\ r.shown => r.entitled \/ r.left
    /\ r.at \notin {"idle", "done"} => /\ entitled => r.entitled
                                       /\ r.groups \subseteq mine \/ r.left
    /\ r.at = "hydrated" => r.entitled \/ r.left
    /\ r.quiet =>
         /\ r.at = "members" => r.groups = inTeam
         /\ r.at \in {"groups", "filter", "hits", "named"} => r.groups = mine
         /\ r.at = "filter" => r.granted = reach
         /\ r.at = "hydrated" => entitled
         /\ r.at = "done" /\ synced => (r.shown <=> entitled)

InTeam(p) == {g \in {Team} : p \in team}
RequestIsSound(p) ==
    Consistent(reads[p], Entitled(p), GroupIds(p), InTeam(p), GrantReaches(p, reads[p].groups), index = doc)
AccessInv == AccessTypeOK /\ \A p \in Readers : RequestIsSound(p)

\* An administrative change that takes no group from anybody but the leavers.
LEMMA ChangeKeepsSound ==
    ASSUME AccessInv, NEW leavers, Touch(leavers), team \ leavers \subseteq team', system => system'
    PROVE  reads' \in [Readers -> Requests] /\ \A p \in Readers : RequestIsSound(p)'
<1> SUFFICES ASSUME NEW p \in Readers PROVE reads'[p] \in Requests /\ RequestIsSound(p)'
  BY DEF Touch
<1>1. PICK e \in BOOLEAN : e = Entitled(p)'
  BY DEF Entitled, DocumentPermitted
<1>2. PICK r \in Requests : r = reads[p]
  BY DEF AccessInv, AccessTypeOK
<1>3. PICK s : s = reads'[p]
  OBVIOUS
<1>4. s = [r EXCEPT !.quiet = r.quiet /\ r.at = "idle",
                    !.left = r.left \/ (r.at \notin {"idle", "done"} /\ p \in leavers),
                    !.entitled = r.entitled \/ (r.at \notin {"idle", "done"} /\ e)]
  BY <1>1, <1>2, <1>3 DEF Touch, UnderWay
<1>5. /\ s \in Requests /\ s.at = r.at /\ s.groups = r.groups /\ s.shown = r.shown
      /\ s.quiet => s.at = "idle"
      /\ s.left = (r.left \/ (r.at \notin {"idle", "done"} /\ p \in leavers))
      /\ s.entitled = (r.entitled \/ (r.at \notin {"idle", "done"} /\ e))
  BY <1>4 DEF Requests
<1>6. GroupIds(p) \subseteq GroupIds(p)' \/ p \in leavers
  BY DEF GroupIds
<1>7. Consistent(r, Entitled(p), GroupIds(p), InTeam(p), GrantReaches(p, r.groups), index = doc)
  BY <1>2 DEF AccessInv, RequestIsSound
<1>8. PICK m, t, h, y : m = GroupIds(p)' /\ t = InTeam(p)' /\ h = GrantReaches(p, reads[p].groups)' /\ y = (index = doc)'
  OBVIOUS
<1>9. Consistent(s, e, m, t, h, y)
  BY <1>5, <1>6, <1>7, <1>8 DEF Consistent
<1> QED BY <1>1, <1>3, <1>5, <1>8, <1>9 DEF RequestIsSound

\* A step of reader p's request, that changes nothing but the request.
LEMMA RequestKeepsSound ==
    ASSUME AccessInv, NEW p \in Readers, NEW s \in Requests, To(p, s),
           Consistent(s, Entitled(p), GroupIds(p), InTeam(p), GrantReaches(p, s.groups), index = doc)
    PROVE  AccessInv'
<1>1. reads' = [reads EXCEPT ![p] = s] /\ UNCHANGED <<group, system, team, grants, pending, doc, index>>
  BY DEF To
<1>2. AccessTypeOK'
  BY <1>1 DEF AccessInv, AccessTypeOK
<1>3. ASSUME NEW q \in Readers PROVE RequestIsSound(q)'
  <2>1. PICK r : r = reads'[q]
    OBVIOUS
  <2>2. Consistent(r, Entitled(q), GroupIds(q), InTeam(q), GrantReaches(q, r.groups), index = doc)
    BY <1>1, <2>1 DEF AccessInv, AccessTypeOK, RequestIsSound
  <2>3. UNCHANGED <<Entitled(q), GroupIds(q), InTeam(q), index = doc>>
    BY <1>1 DEF Entitled, DocumentPermitted, GrantReaches, Enforced, GroupIds, InTeam
  <2>4. GrantReaches(q, reads[q].groups)' = GrantReaches(q, r.groups)
    BY <1>1, <2>1 DEF GrantReaches
  <2> QED BY <2>1, <2>2, <2>3, <2>4 DEF RequestIsSound
<1> QED BY <1>2, <1>3 DEF AccessInv

\* What the tables may hold, apart from the requests.
TablesOK ==
    /\ group \in {"none", "live", "gone"} /\ system \in BOOLEAN
    /\ team \subseteq Readers /\ (group # "live" => team = {})
    /\ grants \subseteq Grants /\ (pending = NoGrant \/ pending \in Grants)
    /\ doc \in Documents /\ index \in Documents

\* Administration, syncs and the index task change the tables and touch the requests.
LEMMA AdministrationStep ==
    ASSUME AccessInv,
           \/ \E a \in People : \/ CreateGroup(a) \/ EnsureSystemGroup(a) \/ DeleteGroup(a)
                                \/ \E p \in Readers : AddMember(a, p) \/ RemoveMember(a, p)
                                \/ \E g \in Grants : RevokeGrant(a, g)
           \/ InsertGrant \/ DeleteDocument \/ AclLapses \/ IndexSync
           \/ \E acl \in SUBSET (Readers \cup {Everyone}) : SyncAcl(acl)
    PROVE  AccessInv'
<1>1. TablesOK
  BY DEF AccessInv, AccessTypeOK, TablesOK
<1> DEFINE Changed == /\ TablesOK'
                      /\ \E leavers : Touch(leavers) /\ team \ leavers \subseteq team' /\ (system => system')
<1>2. SUFFICES Changed
  BY ChangeKeepsSound DEF AccessInv, AccessTypeOK, TablesOK
<1>3. ASSUME NEW a, CreateGroup(a) PROVE Changed
  BY <1>1, <1>3 DEF CreateGroup, TablesOK
<1>4. ASSUME NEW a, EnsureSystemGroup(a) PROVE Changed
  BY <1>1, <1>4 DEF EnsureSystemGroup, TablesOK
<1>5. ASSUME NEW a, DeleteGroup(a) PROVE Changed
  BY <1>1, <1>5 DEF DeleteGroup, TablesOK
<1>6. ASSUME NEW a, NEW p \in Readers, AddMember(a, p) PROVE Changed
  BY <1>1, <1>6 DEF AddMember, TablesOK
<1>7. ASSUME NEW a, NEW p \in Readers, RemoveMember(a, p) PROVE Changed
  BY <1>1, <1>7 DEF RemoveMember, TablesOK
<1>8. ASSUME NEW a, NEW g, RevokeGrant(a, g) PROVE Changed
  BY <1>1, <1>8 DEF RevokeGrant, TablesOK
<1>9. ASSUME InsertGrant PROVE Changed
  BY <1>1, <1>9 DEF InsertGrant, TablesOK
<1>10. ASSUME DeleteDocument PROVE Changed
  <2>1. doc' \in Documents
    BY <1>1, <1>10 DEF DeleteDocument, TablesOK, Documents
  <2> QED BY <1>1, <1>10, <2>1 DEF DeleteDocument, TablesOK
<1>11. ASSUME AclLapses PROVE Changed
  <2>1. doc' \in Documents
    BY <1>1, <1>11 DEF AclLapses, TablesOK, Documents, Mirrors
  <2> QED BY <1>1, <1>11, <2>1 DEF AclLapses, TablesOK
<1>12. ASSUME IndexSync PROVE Changed
  BY <1>1, <1>12 DEF IndexSync, TablesOK
<1>13. ASSUME NEW acl \in SUBSET (Readers \cup {Everyone}), SyncAcl(acl) PROVE Changed
  <2>1. doc' \in Documents
    BY <1>1, <1>13 DEF SyncAcl, TablesOK, Documents, Mirrors
  <2> QED BY <1>1, <1>13, <2>1 DEF SyncAcl, TablesOK
<1> HIDE DEF Changed
<1> QED BY <1>3, <1>4, <1>5, <1>6, <1>7, <1>8, <1>9, <1>10, <1>11, <1>12, <1>13

\* A validated grant waits for its insert; no request sees it.
LEMMA CreateGrantStep ==
    ASSUME AccessInv, NEW a \in People, NEW g \in Grants, CreateGrant(a, g)
    PROVE  AccessInv'
<1>1. UNCHANGED <<group, system, team, grants, doc, index, reads>> /\ pending' = g
  BY DEF CreateGrant
<1>2. AccessTypeOK'
  BY <1>1 DEF AccessInv, AccessTypeOK
<1>3. ASSUME NEW q \in Readers PROVE RequestIsSound(q)'
  BY <1>1 DEF AccessInv, RequestIsSound, Entitled, DocumentPermitted, GrantReaches, Enforced, GroupIds, InTeam
<1> QED BY <1>2, <1>3 DEF AccessInv

\* The request ends with what the predicate says of the groups it has read.
LEMMA ShowsPermitted ==
    ASSUME AccessInv, NEW p \in Readers, reads[p].at \in {"groups", "named", "hits"},
           NEW b \in BOOLEAN, b = DocumentPermitted(p, reads[p].groups)
    PROVE  /\ Goes(p, Shows(b, p)) => AccessInv'
           /\ b => reads[p].entitled \/ reads[p].left
           /\ reads[p].quiet => (b <=> Entitled(p))
<1>1. reads[p] \in Requests /\ RequestIsSound(p)
  BY DEF AccessInv, AccessTypeOK
<1>2. reads[p].groups \subseteq GroupIds(p) => (b => Entitled(p))
  BY DEF Entitled, DocumentPermitted, GrantReaches
<1>3. reads[p].groups = GroupIds(p) => (b <=> Entitled(p))
  BY DEF Entitled
<1>4. /\ b => reads[p].entitled \/ reads[p].left
      /\ reads[p].quiet => (b <=> Entitled(p))
  BY <1>1, <1>2, <1>3 DEF RequestIsSound, Consistent
<1>5. ASSUME Goes(p, Shows(b, p)) PROVE AccessInv'
  <2>1. PICK s : s = Shows(b, p)
    OBVIOUS
  <2>2. /\ s \in Requests /\ s.at = "done" /\ s.shown = b /\ s.entitled = reads[p].entitled
        /\ s.left = reads[p].left /\ s.quiet = reads[p].quiet
    BY <1>1, <2>1 DEF Shows, Requests
  <2>3. Consistent(s, Entitled(p), GroupIds(p), InTeam(p), GrantReaches(p, s.groups), index = doc)
    BY <1>4, <2>2 DEF Consistent
  <2> QED BY <1>5, <2>1, <2>2, <2>3, RequestKeepsSound DEF Goes
<1> QED BY <1>4, <1>5

\* The allow-set is resolved in two statements.
LEMMA ResolveStep ==
    ASSUME AccessInv, NEW p \in Readers, ResolveAllowSet(p) \/ ReadSystemGroup(p)
    PROVE  AccessInv'
<1>1. reads[p] \in Requests /\ RequestIsSound(p)
  BY DEF AccessInv, AccessTypeOK
<1>2. CASE ResolveAllowSet(p)
  <2>1. PICK e \in BOOLEAN : e = Entitled(p)
    BY DEF Entitled, DocumentPermitted
  <2>2. PICK t \in SUBSET {Team, Everyone} : t = InTeam(p)
    BY DEF InTeam
  <2>3. PICK s : s = [NoRequest EXCEPT !.at = "members", !.groups = t, !.entitled = e]
    OBVIOUS
  <2>4. To(p, s)
    BY <1>2, <2>1, <2>2, <2>3 DEF ResolveAllowSet, InTeam
  <2>5. /\ s \in Requests /\ s.at = "members" /\ s.groups = t /\ s.entitled = e /\ s.shown = FALSE
    BY <2>3 DEF NoRequest, Requests
  <2>6. InTeam(p) \subseteq GroupIds(p)
    BY DEF InTeam, GroupIds
  <2>7. Consistent(s, Entitled(p), GroupIds(p), InTeam(p), GrantReaches(p, s.groups), index = doc)
    BY <2>1, <2>2, <2>5, <2>6 DEF Consistent
  <2> QED BY <2>4, <2>5, <2>7, RequestKeepsSound
<1>3. CASE ReadSystemGroup(p)
  <2>1. PICK y \in SUBSET {Everyone} : y = {g \in {Everyone} : system}
    OBVIOUS
  <2>2. PICK s : s = [reads[p] EXCEPT !.at = "groups", !.groups = reads[p].groups \cup y]
    OBVIOUS
  <2>3. To(p, s) /\ reads[p].at = "members"
    BY <1>3, <2>1, <2>2 DEF ReadSystemGroup, Goes
  <2>4. /\ s \in Requests /\ s.at = "groups" /\ s.groups = reads[p].groups \cup y /\ s.entitled = reads[p].entitled
        /\ s.shown = reads[p].shown /\ s.left = reads[p].left /\ s.quiet = reads[p].quiet
    BY <1>1, <2>2 DEF Requests
  <2>5. GroupIds(p) = InTeam(p) \cup y
    BY <2>1 DEF InTeam, GroupIds
  <2>6. Consistent(s, Entitled(p), GroupIds(p), InTeam(p), GrantReaches(p, s.groups), index = doc)
    BY <1>1, <2>3, <2>4, <2>5 DEF Consistent, RequestIsSound
  <2> QED BY <2>3, <2>4, <2>6, RequestKeepsSound
<1> QED BY <1>2, <1>3

\* The request moves on to `at', or ends with nothing shown.
LEMMA Advances ==
    ASSUME AccessInv, NEW p \in Readers, NEW at2 \in {"hits", "hydrated", "named"}, NEW s, s = [reads[p] EXCEPT !.at = at2]
    PROVE  /\ s \in Requests /\ s.at = at2 /\ s.groups = reads[p].groups /\ s.entitled = reads[p].entitled
           /\ s.shown = reads[p].shown /\ s.left = reads[p].left /\ s.quiet = reads[p].quiet
BY DEF AccessInv, AccessTypeOK, Requests

\* The statements of a search.
LEMMA SearchStep ==
    ASSUME AccessInv, NEW p \in Readers, ReadGrants(p) \/ HybridSearch(p) \/ LoadPassages(p) \/ ToResults(p)
    PROVE  AccessInv'
<1>1. reads[p] \in Requests /\ RequestIsSound(p) /\ doc \in Documents /\ index \in Documents
  BY DEF AccessInv, AccessTypeOK
<1>2. CASE ReadGrants(p)
  <2>1. PICK h \in SUBSET Grants : h = GrantReaches(p, reads[p].groups)
    BY DEF GrantReaches, AccessInv, AccessTypeOK
  <2>2. PICK s : s = [reads[p] EXCEPT !.at = "filter", !.granted = h]
    OBVIOUS
  <2>3. To(p, s) /\ reads[p].at = "groups"
    BY <1>2, <2>1, <2>2 DEF ReadGrants, AllowFilter, Goes
  <2>4. /\ s \in Requests /\ s.at = "filter" /\ s.groups = reads[p].groups /\ s.granted = h
        /\ s.entitled = reads[p].entitled
        /\ s.shown = reads[p].shown /\ s.left = reads[p].left /\ s.quiet = reads[p].quiet
    BY <1>1, <2>2 DEF Requests
  <2>5. Consistent(s, Entitled(p), GroupIds(p), InTeam(p), GrantReaches(p, s.groups), index = doc)
    BY <1>1, <2>1, <2>3, <2>4 DEF Consistent, RequestIsSound
  <2> QED BY <2>3, <2>4, <2>5, RequestKeepsSound
<1>3. CASE HybridSearch(p)
  <2>1. CASE EngineAdmits(p)
    <3>1. PICK s : s = [reads[p] EXCEPT !.at = "hits"]
      OBVIOUS
    <3>2. To(p, s) /\ reads[p].at = "filter"
      BY <1>3, <2>1, <3>1 DEF HybridSearch, Goes
    <3>3. Consistent(s, Entitled(p), GroupIds(p), InTeam(p), GrantReaches(p, s.groups), index = doc)
      BY <1>1, <3>1, <3>2, Advances DEF Consistent, RequestIsSound
    <3> QED BY <3>1, <3>2, <3>3, Advances, RequestKeepsSound
  <2>2. CASE ~EngineAdmits(p)
    <3>1. PICK s : s = Shows(FALSE, p)
      OBVIOUS
    <3>2. To(p, s) /\ reads[p].at = "filter"
      BY <1>3, <2>2, <3>1 DEF HybridSearch, Goes
    <3>3. /\ s \in Requests /\ s.at = "done" /\ s.shown = FALSE /\ s.quiet = reads[p].quiet
      BY <1>1, <3>1 DEF Shows, Requests
    <3>4. reads[p].quiet /\ index = doc => ~Entitled(p)
      BY <1>1, <2>2, <3>2 DEF Consistent, RequestIsSound, Entitled, DocumentPermitted, EngineAdmits
    <3>5. Consistent(s, Entitled(p), GroupIds(p), InTeam(p), GrantReaches(p, s.groups), index = doc)
      BY <3>3, <3>4 DEF Consistent
    <3> QED BY <3>2, <3>3, <3>5, RequestKeepsSound
  <2> QED BY <2>1, <2>2
<1>4. CASE LoadPassages(p)
  <2>1. PICK b \in BOOLEAN : b = DocumentPermitted(p, reads[p].groups)
    BY DEF DocumentPermitted
  <2>2. reads[p].at = "hits"
    BY <1>4 DEF LoadPassages
  <2>3. CASE b
    <3>1. PICK s : s = [reads[p] EXCEPT !.at = "hydrated"]
      OBVIOUS
    <3>2. To(p, s)
      BY <1>4, <2>1, <2>3, <3>1 DEF LoadPassages, Hydrates, Goes
    <3>3. Consistent(s, Entitled(p), GroupIds(p), InTeam(p), GrantReaches(p, s.groups), index = doc)
      <4>1. (reads[p].entitled \/ reads[p].left) /\ (reads[p].quiet => Entitled(p))
        BY <2>1, <2>2, <2>3, ShowsPermitted
      <4>2. /\ s.at = "hydrated" /\ s.groups = reads[p].groups /\ s.entitled = reads[p].entitled
            /\ s.left = reads[p].left /\ s.quiet = reads[p].quiet
        BY <3>1, Advances
      <4> QED BY <1>1, <2>2, <4>1, <4>2 DEF Consistent, RequestIsSound
    <3> QED BY <3>1, <3>2, <3>3, Advances, RequestKeepsSound
  <2>4. CASE ~b
    <3>1. Goes(p, Shows(b, p))
      BY <1>4, <2>1, <2>4 DEF LoadPassages, Hydrates
    <3> QED BY <2>1, <2>2, <3>1, ShowsPermitted
  <2> QED BY <2>3, <2>4
<1>5. CASE ToResults(p)
  <2>1. PICK b \in BOOLEAN : b = doc.live
    BY <1>1 DEF Documents
  <2>2. PICK s : s = Shows(b, p)
    OBVIOUS
  <2>3. To(p, s) /\ reads[p].at = "hydrated"
    BY <1>5, <2>1, <2>2 DEF ToResults, Goes
  <2>4. /\ s \in Requests /\ s.at = "done" /\ s.shown = b /\ s.entitled = reads[p].entitled
        /\ s.left = reads[p].left /\ s.quiet = reads[p].quiet
    BY <1>1, <2>2 DEF Shows, Requests
  <2>5. Entitled(p) => doc.live
    BY DEF Entitled, DocumentPermitted
  <2>6. Consistent(s, Entitled(p), GroupIds(p), InTeam(p), GrantReaches(p, s.groups), index = doc)
    BY <1>1, <2>1, <2>3, <2>4, <2>5 DEF Consistent, RequestIsSound
  <2> QED BY <2>3, <2>4, <2>6, RequestKeepsSound
<1> QED BY <1>2, <1>3, <1>4, <1>5

\* The requests that end with one statement under the predicate.
LEMMA LookStep ==
    ASSUME AccessInv, NEW p \in Readers,
           \/ ReadPassages(p) \/ PermittedDocumentNames(p) \/ PresignContent(p) \/ EnforceCitations(p)
           \/ ResolveDocument(p) \/ LoadDocumentText(p)
    PROVE  AccessInv'
<1>1. PICK b \in BOOLEAN : b = DocumentPermitted(p, reads[p].groups)
  BY DEF DocumentPermitted
<1>2. ASSUME Looks(p) PROVE AccessInv'
  BY <1>1, <1>2, ShowsPermitted DEF Looks
<1>3. CASE ResolveDocument(p)
  <2>1. reads[p].at = "groups" /\ RequestIsSound(p)
    BY <1>3 DEF ResolveDocument, AccessInv
  <2>2. CASE b
    <3>1. PICK s : s = [reads[p] EXCEPT !.at = "named"]
      OBVIOUS
    <3>2. To(p, s)
      BY <1>1, <1>3, <2>2, <3>1 DEF ResolveDocument, Goes
    <3>3. Consistent(s, Entitled(p), GroupIds(p), InTeam(p), GrantReaches(p, s.groups), index = doc)
      BY <2>1, <3>1, Advances DEF Consistent, RequestIsSound
    <3> QED BY <3>1, <3>2, <3>3, Advances, RequestKeepsSound
  <2>3. CASE ~b
    <3>1. Goes(p, Shows(b, p))
      BY <1>1, <1>3, <2>3 DEF ResolveDocument
    <3> QED BY <1>1, <2>1, <3>1, ShowsPermitted
  <2> QED BY <2>2, <2>3
<1>4. CASE LoadDocumentText(p)
  BY <1>1, <1>4, ShowsPermitted DEF LoadDocumentText
<1> QED BY <1>2, <1>3, <1>4 DEF ReadPassages, PermittedDocumentNames, PresignContent, EnforceCitations

\* Whatever administrators, owners, connector syncs and the index task do between
\* the statements of a request, and for any users and groups: nothing is shown that
\* was not permitted at some moment of the request, and a request in quiet shows
\* everything permitted.
THEOREM AccessExact == AccessSpec => []AccessIsExact
<1>1. AccessInit => AccessInv
  <2> SUFFICES ASSUME AccessInit PROVE AccessInv
    OBVIOUS
  <2>1. doc \in Documents /\ index \in Documents
    BY AccessAssumption DEF AccessInit, Documents, Mirrors
  <2>2. NoRequest \in Requests /\ NoRequest.at = "idle" /\ NoRequest.shown = FALSE
    BY DEF NoRequest, Requests
  <2>3. AccessTypeOK
    BY <2>1, <2>2 DEF AccessInit, AccessTypeOK
  <2>4. \A p \in Readers : reads[p] = NoRequest
    BY DEF AccessInit
  <2> QED BY <2>2, <2>3, <2>4 DEF AccessInv, RequestIsSound, Consistent
<1>2. AccessInv /\ [AccessNext]_accessVars => AccessInv'
  <2> SUFFICES ASSUME AccessInv, [AccessNext]_accessVars PROVE AccessInv'
    OBVIOUS
  <2>1. CASE UNCHANGED accessVars
    <3>1. AccessTypeOK'
      BY <2>1 DEF accessVars, AccessInv, AccessTypeOK
    <3>2. ASSUME NEW q \in Readers PROVE RequestIsSound(q)'
      BY <2>1 DEF accessVars, AccessInv, RequestIsSound, Entitled, DocumentPermitted, GrantReaches, Enforced,
                  GroupIds, InTeam
    <3> QED BY <3>1, <3>2 DEF AccessInv
  <2>2. CASE AccessNext
    <3>1. CASE \/ \E a \in People : \/ CreateGroup(a) \/ EnsureSystemGroup(a) \/ DeleteGroup(a)
                                    \/ \E p \in Readers : AddMember(a, p) \/ RemoveMember(a, p)
                                    \/ \E g \in Grants : RevokeGrant(a, g)
               \/ InsertGrant \/ DeleteDocument \/ AclLapses \/ IndexSync
               \/ \E acl \in SUBSET (Readers \cup {Everyone}) : SyncAcl(acl)
      BY <3>1, AdministrationStep
    <3>2. ASSUME NEW a \in People, NEW g \in Grants, CreateGrant(a, g) PROVE AccessInv'
      BY <3>2, CreateGrantStep
    <3>3. ASSUME NEW p \in Readers,
                 \/ ResolveAllowSet(p) \/ ReadSystemGroup(p) \/ ReadGrants(p) \/ HybridSearch(p) \/ LoadPassages(p)
                 \/ ToResults(p) \/ ReadPassages(p) \/ PermittedDocumentNames(p)
                 \/ PresignContent(p) \/ EnforceCitations(p) \/ ResolveDocument(p) \/ LoadDocumentText(p)
          PROVE AccessInv'
      BY <3>3, ResolveStep, SearchStep, LookStep
    <3> QED BY <2>2, <3>1, <3>2, <3>3 DEF AccessNext
  <2> QED BY <2>1, <2>2
<1>3. AccessInv => AccessIsExact
  BY DEF AccessInv, RequestIsSound, Consistent, AccessIsExact, ShownWasPermitted, QuietSearchIsExact
<1> QED BY <1>1, <1>2, <1>3, PTL DEF AccessSpec

-----------------------------------------------------------------------------
(* The ledger of refusals.  A guard is marked as soon as a denial of its      *)
(* context is drawn, so every row, decided or not, has marked its context;    *)
(* and what is marked is in the ledger or being recorded.                     *)

DenialRows == ledger \cup inflight

\* Rows mark their context, and no two rows share one.
RowsAreMarked ==
    /\ \A r \in DenialRows : r.event <= emits /\ Marked(r.context) \subseteq marked
    /\ record.at # "none" => /\ record.row.event <= emits /\ Marked(record.row.context) \subseteq marked
                             /\ \A r \in DenialRows : r.context = record.row.context => r = record.row
    /\ RecordedOnce

\* Marks are honoured, and a refusal has been marked by every guard it passed.
MarksAreKept ==
    /\ stage # 4 => \A g \in marked : \/ \E r \in ledger : r.context = contexts[g]
                                      \/ record.at # "none" /\ record.row.context = contexts[g]
    /\ stage # 4 => \A g \in Guards : g < stage => g \in marked
    /\ record.at # "none" => stage \in 0..2 /\ (stage # 0 => stage \in marked)
    /\ emits <= (IF 1 \in marked THEN 1 ELSE 0) + (IF 2 \in marked THEN 1 ELSE 0)

DenialInv == DenialTypeOK /\ RowsAreMarked /\ MarksAreKept

\* What a step of the transaction, or of the server, does to a recording.
Settles ==
    /\ UNCHANGED <<contexts, marked, emits>>
    /\ ledger \subseteq ledger'
    /\ ledger' \cup inflight' \subseteq ledger \cup inflight \cup {r \in {record.row} : record.at # "none"}
    /\ \/ record' = record /\ stage' = stage
       \/ record.at # "none" /\ record'.at # "none" /\ record' \in Recording /\ record'.row = record.row /\ stage' = stage
       \/ record.at # "none" /\ record' = NoRecording /\ stage' = 4
       \/ record.at # "none" /\ record' = NoRecording /\ stage' = stage + 1 /\ record.row \in ledger'

\* Every step of the transaction and of the server has that shape.
LEMMA SettlesShape ==
    ASSUME DenialInv,
           \/ Attempt \/ Commit1 \/ Reconcile \/ Retry \/ Recommit \/ SettleTask \/ Cancel
           \/ \E r \in AuditRows : Lands(r)
    PROVE  Settles
<1>1. record \in Recording /\ record.row \in AuditRows
  BY DEF DenialInv, DenialTypeOK, Recording
<1>2. ASSUME NEW to \in Points \ {"none"}, Proceed(to), record.at # "none"
      PROVE  /\ record'.at # "none" /\ record' \in Recording /\ record'.row = record.row
             /\ UNCHANGED <<stage, contexts, marked, emits>>
  BY <1>1, <1>2 DEF Proceed, Recording
<1>3. \A to \in {"commit", "reconcile", "again", "recommit", "settle"} : to \in Points \ {"none"}
  BY DEF Points
<1>4. ASSUME NEW from \in {"attempt", "again"}, NEW to \in {"commit", "recommit"}, Insert(from, to) PROVE Settles
  BY <1>2, <1>3, <1>4 DEF Insert, Settles
<1>5. ASSUME NEW from \in SUBSET {"attempt", "again"}, NEW to \in {"reconcile", "settle"}, TimesOut(from, to) PROVE Settles
  BY <1>2, <1>3, <1>5 DEF TimesOut, Settles
<1>6. ASSUME NEW from \in SUBSET (Points \ {"none"}), Breaks(from) PROVE Settles
  BY <1>6 DEF Breaks, Raises, Settles
<1>7. ASSUME record.at # "none", Recorded, UNCHANGED inflight, ledger \subseteq ledger',
             ledger' \subseteq ledger \cup {record.row}, record.row \in ledger'
      PROVE  Settles
  BY <1>7 DEF Recorded, Settles
<1>8. ASSUME NEW from \in {"commit", "recommit"}, Commits(from) PROVE Settles
  BY <1>7, <1>8 DEF Commits
<1>9. ASSUME NEW from \in {"commit", "recommit"}, NEW to \in {"reconcile", "settle"}, CommitLost(from, to) PROVE Settles
  BY <1>2, <1>3, <1>9 DEF CommitLost, CommitOutcome, Settles
<1>10. CASE Attempt
  BY <1>4, <1>5, <1>6, <1>10 DEF Attempt, Points
<1>11. CASE Commit1
  BY <1>6, <1>8, <1>9, <1>11 DEF Commit1, Points
<1>12. CASE Reconcile
  <2>1. CASE record.at = "reconcile" /\ Reconciled /\ Recorded /\ UNCHANGED <<ledger, inflight>>
    BY <1>7, <2>1 DEF Reconciled
  <2>2. CASE record.at = "reconcile" /\ ~Reconciled /\ Proceed("again") /\ UNCHANGED <<ledger, inflight>>
    BY <1>2, <1>3, <2>2 DEF Settles
  <2>3. CASE Breaks({"reconcile"})
    BY <1>6, <2>3 DEF Points
  <2> QED BY <1>12, <2>1, <2>2, <2>3 DEF Reconcile
<1>13. CASE Retry
  BY <1>4, <1>5, <1>6, <1>13 DEF Retry, Points
<1>14. CASE Recommit
  BY <1>6, <1>8, <1>9, <1>14 DEF Recommit, Points
<1>15. CASE SettleTask
  <2>1. CASE record.at = "settle" /\ Reconciled /\ Recorded /\ UNCHANGED <<ledger, inflight>>
    BY <1>7, <2>1 DEF Reconciled
  <2>2. CASE Breaks({"settle"})
    BY <1>6, <2>2 DEF Points
  <2> QED BY <1>15, <2>1, <2>2 DEF SettleTask
<1>16. CASE Cancel
  <2>1. CASE Breaks({"attempt"})
    BY <1>6, <2>1 DEF Points
  <2>2. CASE ~Breaks({"attempt"})
    <3>1. /\ record.at \notin {"none", "attempt"} /\ UNCHANGED <<stage, contexts, marked, emits>>
          /\ record' = [record EXCEPT !.at = IF @ = "commit" THEN "reconcile" ELSE @, !.cancelled = TRUE]
          /\ CommitOutcome \/ UNCHANGED <<ledger, inflight>>
      BY <1>16, <2>2 DEF Cancel
    <3>2. record'.at # "none" /\ record' \in Recording /\ record'.row = record.row
      BY <1>1, <3>1 DEF Recording, Points
    <3> QED BY <3>1, <3>2 DEF CommitOutcome, Settles
  <2> QED BY <2>1, <2>2
<1>17. ASSUME NEW r \in AuditRows, Lands(r) PROVE Settles
  BY <1>17 DEF Lands, Settles
<1> QED BY <1>10, <1>11, <1>12, <1>13, <1>14, <1>15, <1>16, <1>17

\* The invariant through a step of that shape.
LEMMA SettlesKeeps ==
    ASSUME DenialInv, Settles
    PROVE  DenialInv'
<1> USE DEF DenialInv
<1>1. NoRecording \in Recording /\ NoRecording.at = "none"
  BY DEF NoRecording, Recording, Points, AuditRows, MaxEmits
<1>2. record \in Recording /\ record.row \in AuditRows
  BY DEF DenialTypeOK, Recording
<1>3. DenialTypeOK'
  <2>1. ledger' \subseteq AuditRows /\ inflight' \subseteq AuditRows
    BY <1>2 DEF Settles, DenialTypeOK
  <2>2. record' \in Recording /\ stage' \in 0..4 /\ (stage' \in {3, 4} => record'.at = "none")
    BY <1>1 DEF Settles, DenialTypeOK, MarksAreKept
  <2> QED BY <2>1, <2>2 DEF Settles, DenialTypeOK
<1>4. RowsAreMarked'
  <2>1. \A r \in ledger' \cup inflight' : r \in DenialRows \/ (record.at # "none" /\ r = record.row)
    BY DEF Settles, DenialRows
  <2>2. UNCHANGED <<contexts, marked, emits>>
    BY DEF Settles
  <2>3. \A r \in ledger' \cup inflight' : r.event <= emits /\ Marked(r.context) \subseteq marked
    BY <2>1 DEF RowsAreMarked
  <2>4. \A c : Marked(c)' = Marked(c)
    BY <2>2 DEF Marked
  <2>5. \A r, s \in ledger' \cup inflight' : r.context = s.context => r = s
    <3> SUFFICES ASSUME NEW r \in ledger' \cup inflight', NEW s \in ledger' \cup inflight', r.context = s.context
                 PROVE  r = s
      OBVIOUS
    <3>1. CASE r \in DenialRows /\ s \in DenialRows
      BY <3>1 DEF RowsAreMarked, RecordedOnce, DenialRows
    <3>2. CASE r \notin DenialRows \/ s \notin DenialRows
      BY <2>1, <3>2 DEF RowsAreMarked
    <3> QED BY <3>1, <3>2
  <2>6. record'.at # "none" => /\ record.at # "none" /\ record'.row = record.row
    BY <1>1 DEF Settles
  <2>7. record'.at # "none" => /\ record'.row.event <= emits /\ Marked(record'.row.context) \subseteq marked
                               /\ \A r \in ledger' \cup inflight' : r.context = record'.row.context => r = record'.row
    BY <2>1, <2>6 DEF RowsAreMarked
  <2>8. \A r \in ledger' \cup inflight' : r.event <= emits' /\ Marked(r.context)' \subseteq marked'
    BY <2>2, <2>3, <2>4
  <2>9. record'.at # "none" => record'.row.event <= emits' /\ Marked(record.row.context)' \subseteq marked'
    <3>1. PICK c : c = record'.row.context
      OBVIOUS
    <3> QED BY <2>2, <2>4, <2>7, <3>1 DEF Marked
  <2> QED BY <2>5, <2>7, <2>8, <2>9 DEF RowsAreMarked, RecordedOnce, DenialRows
<1>5. MarksAreKept'
  <2>1. UNCHANGED <<contexts, marked, emits>> /\ ledger \subseteq ledger'
    BY DEF Settles
  <2>2. CASE stage' = stage /\ (record' = record \/ (record.at # "none" /\ record'.at # "none" /\ record'.row = record.row))
    BY <2>1, <2>2 DEF MarksAreKept
  <2>3. CASE record.at # "none" /\ record' = NoRecording /\ stage' = 4
    BY <1>1, <2>1, <2>3 DEF MarksAreKept
  <2>4. CASE record.at # "none" /\ record' = NoRecording /\ stage' = stage + 1 /\ record.row \in ledger'
    <3>1. stage \in 0..2 /\ (stage # 0 => stage \in marked) /\ stage' \in 1..3
      BY <2>4 DEF MarksAreKept
    <3>2. \A g \in marked : \E r \in ledger' : r.context = contexts[g]
      BY <2>1, <2>4, <3>1 DEF MarksAreKept
    <3>3. \A g \in Guards : g < stage' => g \in marked
      BY <2>4, <3>1 DEF MarksAreKept, Guards
    <3> QED BY <1>1, <2>1, <2>4, <3>2, <3>3 DEF MarksAreKept
  <2> QED BY <2>2, <2>3, <2>4 DEF Settles
<1> QED BY <1>3, <1>4, <1>5

\* A denial is drawn for context c, which no row has, in front of the guard g that
\* is not marked (0 for the operation itself).
LEMMA EmitKeeps ==
    ASSUME DenialInv, NEW c \in 1..2, Emit(c), stage \in 0..2, record.at = "none",
           \A r \in DenialRows : r.context # c,
           stage # 0 => stage \notin marked /\ c = contexts[stage],
           stage = 0 => emits = 0 /\ c = contexts[1]
    PROVE  DenialInv'
<1> USE DEF DenialInv
<1>1. /\ emits' = emits + 1 /\ marked' = marked \cup Marked(c) /\ UNCHANGED <<stage, contexts, ledger, inflight>>
      /\ record' = [at |-> "attempt", row |-> [context |-> c, event |-> emits + 1], cancelled |-> FALSE]
  BY DEF Emit
<1>2. /\ Guards = {1, 2} /\ contexts \in [Guards -> 1..2] /\ marked \subseteq Guards /\ emits \in Nat
      /\ Marked(c) = {g \in Guards : contexts[g] = c}
  BY DEF DenialTypeOK, MaxEmits, Guards, Marked
<1>3. (stage # 0 => stage \in Marked(c)) /\ (stage = 0 => 1 \in Marked(c))
  BY <1>2
<1>4. emits' \in 1..2 /\ emits' <= (IF 1 \in marked' THEN 1 ELSE 0) + (IF 2 \in marked' THEN 1 ELSE 0)
  <2>1. CASE stage = 0
    BY <1>1, <1>2, <1>3, <2>1
  <2>2. CASE stage = 1
    BY <1>1, <1>2, <1>3, <2>2 DEF MarksAreKept
  <2>3. CASE stage = 2
    BY <1>1, <1>2, <1>3, <2>3 DEF MarksAreKept
  <2> QED BY <2>1, <2>2, <2>3
<1>5. record' \in Recording /\ record'.at = "attempt" /\ record'.row.context = c /\ record'.row.event = emits'
  BY <1>1, <1>4 DEF Recording, Points, AuditRows, MaxEmits
<1>6. DenialTypeOK'
  <2>1. stage' \in 0..4 /\ stage' \notin {3, 4}
    BY <1>1
  <2>3. contexts' \in [Guards -> 1..2]
    BY <1>1 DEF DenialTypeOK
  <2>4. marked' \subseteq Guards
    BY <1>1 DEF DenialTypeOK, Marked
  <2>2. emits' \in 0..MaxEmits /\ ledger' \subseteq AuditRows /\ inflight' \subseteq AuditRows
    BY <1>1, <1>4 DEF DenialTypeOK, MaxEmits
  <2> QED BY <1>5, <2>1, <2>2, <2>3, <2>4 DEF DenialTypeOK
<1>7. RowsAreMarked'
  <2>1. \A d : Marked(d)' = Marked(d)
    BY <1>1 DEF Marked
  <2>2. \A r \in DenialRows : r.event <= emits' /\ Marked(r.context)' \subseteq marked'
    <3> SUFFICES ASSUME NEW r \in DenialRows PROVE r.event <= emits' /\ Marked(r.context)' \subseteq marked'
      OBVIOUS
    <3>1. r.event <= emits /\ Marked(r.context) \subseteq marked /\ r.event \in Nat
      BY DEF RowsAreMarked, DenialTypeOK, DenialRows, AuditRows
    <3> QED BY <1>1, <1>2, <2>1, <3>1
  <2>3. Marked(record.row.context)' \subseteq marked'
    <3>1. Marked(record.row.context)' = {g \in Guards : contexts[g] = c}
      BY <1>1, <1>5 DEF Marked
    <3> QED BY <1>1, <1>2, <3>1
  <2>4. DenialRows' = DenialRows
    BY <1>1 DEF DenialRows
  <2>5. RecordedOnce'
    BY <1>1 DEF RowsAreMarked, RecordedOnce
  <2>6. record'.row.event <= emits'
    BY <1>4, <1>5
  <2> QED BY <1>5, <2>2, <2>3, <2>4, <2>5, <2>6 DEF RowsAreMarked
<1>8. MarksAreKept'
  <2>1. \A g \in marked' : \/ \E r \in ledger' : r.context = contexts'[g]
                           \/ record'.at # "none" /\ record'.row.context = contexts'[g]
    BY <1>1, <1>2, <1>5 DEF MarksAreKept
  <2>2. \A g \in Guards : g < stage' => g \in marked'
    BY <1>1 DEF MarksAreKept
  <2>3. stage' \in 0..2 /\ (stage' # 0 => stage' \in marked')
    BY <1>1, <1>3
  <2> QED BY <1>4, <2>1, <2>2, <2>3 DEF MarksAreKept
<1> QED BY <1>6, <1>7, <1>8

\* The operation's refusal and the guards it passes.
LEMMA GuardStep ==
    ASSUME DenialInv, RefuseAudited \/ RefusePlainly \/ \E g \in Guards : Guard(g)
    PROVE  DenialInv'
<1> USE DEF DenialInv
<1>1. Guards = {1, 2} /\ contexts \in [Guards -> 1..2] /\ marked \subseteq Guards
  BY DEF DenialTypeOK, Guards
<1>2. CASE RefuseAudited
  <2>1. stage = 0 /\ record.at = "none" /\ emits = 0 /\ Emit(contexts[1])
    BY <1>2 DEF RefuseAudited
  <2>2. ASSUME NEW r \in DenialRows PROVE FALSE
    <3>1. r.event <= 0 /\ r.event \in 1..3
      BY <2>1 DEF RowsAreMarked, DenialTypeOK, DenialRows, AuditRows, MaxEmits
    <3> QED BY <3>1
  <2>3. PICK c \in 1..2 : c = contexts[1]
    BY <1>1
  <2> QED BY <2>1, <2>2, <2>3, EmitKeeps
<1>3. CASE RefusePlainly
  <2>1. stage = 0 /\ stage' = 1 /\ record.at = "none" /\ UNCHANGED <<contexts, marked, record, ledger, inflight, emits>>
    BY <1>3 DEF RefusePlainly
  <2>2. DenialTypeOK'
    BY <2>1 DEF DenialTypeOK
  <2>3. RowsAreMarked'
    BY <2>1 DEF RowsAreMarked, RecordedOnce, DenialRows, Marked
  <2>4. MarksAreKept'
    BY <1>1, <2>1 DEF MarksAreKept
  <2> QED BY <2>2, <2>3, <2>4
<1>4. ASSUME NEW g \in Guards, Guard(g) PROVE DenialInv'
  <2>1. stage = g /\ record.at = "none"
    BY <1>4 DEF Guard
  <2>2. CASE g \in marked /\ stage' = g + 1 /\ UNCHANGED <<contexts, marked, record, ledger, inflight, emits>>
    <3>1. DenialTypeOK'
      BY <1>1, <2>1, <2>2 DEF DenialTypeOK
    <3>2. RowsAreMarked'
      BY <2>2 DEF RowsAreMarked, RecordedOnce, DenialRows, Marked
    <3>3. \A h \in Guards : h < stage' => h \in marked'
      BY <1>1, <2>1, <2>2 DEF MarksAreKept
    <3>4. MarksAreKept'
      BY <1>1, <2>1, <2>2, <3>3 DEF MarksAreKept
    <3> QED BY <3>1, <3>2, <3>4
  <2>3. CASE g \notin marked /\ Emit(contexts[g])
    <3>1. PICK c \in 1..2 : c = contexts[g]
      BY <1>1
    <3>2. ASSUME NEW r \in DenialRows, r.context = c PROVE FALSE
      BY <2>3, <3>1, <3>2 DEF RowsAreMarked, Marked
    <3> QED BY <1>1, <2>1, <2>3, <3>1, <3>2, EmitKeeps
  <2> QED BY <1>4, <2>2, <2>3 DEF Guard
<1> QED BY <1>2, <1>3, <1>4

\* Through timeouts, lost and undecided commits, retries and cancellation, a refusal
\* the client sees is in the ledger for each guard it passed, and a refused
\* operation is there at most once for a context.
THEOREM RefusalsAreRecorded == DenialSpec => []RefusalRecordedOnce
<1>1. DenialInit => DenialInv
  <2> SUFFICES ASSUME DenialInit PROVE DenialInv
    OBVIOUS
  <2>1. NoRecording \in Recording /\ NoRecording.at = "none"
    BY DEF NoRecording, Recording, Points, AuditRows, MaxEmits
  <2>2. DenialTypeOK
    BY <2>1 DEF DenialInit, DenialTypeOK, MaxEmits, Guards
  <2>3. RowsAreMarked
    BY <2>1 DEF DenialInit, RowsAreMarked, RecordedOnce, DenialRows
  <2>4. MarksAreKept
    BY <2>1 DEF DenialInit, MarksAreKept, Guards
  <2> QED BY <2>2, <2>3, <2>4 DEF DenialInv
<1>2. DenialInv /\ [DenialNext]_denialVars => DenialInv'
  <2> SUFFICES ASSUME DenialInv, [DenialNext]_denialVars PROVE DenialInv'
    OBVIOUS
  <2>1. CASE UNCHANGED denialVars
    BY <2>1 DEF denialVars, DenialInv, DenialTypeOK, RowsAreMarked, RecordedOnce, DenialRows, Marked, MarksAreKept
  <2>2. CASE DenialNext
    BY <2>2, GuardStep, SettlesShape, SettlesKeeps DEF DenialNext
  <2> QED BY <2>1, <2>2
<1>3. DenialInv => RefusalRecordedOnce
  <2> SUFFICES ASSUME DenialInv PROVE RefusalIsRecorded
    BY DEF DenialInv, RowsAreMarked, RefusalRecordedOnce
  <2> QED BY DEF DenialInv, DenialTypeOK, MarksAreKept, RefusalIsRecorded, Guards
<1> QED BY <1>1, <1>2, <1>3, PTL DEF DenialSpec

-----------------------------------------------------------------------------
(* The artifacts.  Progress ties a row to how far its write is and to the     *)
(* answer's pending keys; BytesKept follows a write's object from the upload   *)
(* on; KeysAccounted names, for every stored object, who will settle it.       *)

RemovalTypes == removal \in [Removers -> [todo : SUBSET Writers, erased : SUBSET Writers]]

ProgressOf(w) ==
    /\ artifacts[w] # "none" => at[w] = "written"
    /\ w \in Calls /\ answer # "open" => at[w] \notin {"sent", "put"}
    /\ w \in Calls /\ answer \in {"open", "doubt"} /\ at[w] # "idle" => w \in pendingKeys
    /\ at[w] = "adrift" => w \in Calls
    /\ \A r \in Removers : w \in removal[r].todo \cup removal[r].erased => artifacts[w] \in {"live", "gone"}
Progress == \A w \in Writers : ProgressOf(w)

\* A write keeps its bytes from the upload on, but for what the history names, and
\* for a row in doubt that the read-back did not find.
BytesOf(w) ==
    at[w] = "put" \/ artifacts[w] \in {"flushed", "live"} =>
        \/ Key(w) \in objects \/ Removing(w) \/ w \in torn \cup parted \cup late
        \/ artifacts[w] = "flushed" /\ w \in Calls /\ w \notin pendingKeys
BytesKept == \A w \in Writers : BytesOf(w)

\* A private object awaits its settlement, has its row, or was left behind; a shared
\* one has a writer whose removal has not erased it, or was left behind.
KeysAccounted ==
    /\ \A w \in Calls : w \in objects => w \in pendingKeys \cup retained \/ artifacts[w] = "live"
    /\ \A w \in Calls, r \in Removers : w \in removal[r].erased => w \notin objects
    /\ Shared \in objects /\ Shared \notin retained =>
         \E v \in Captures : /\ at[v] = "put" \/ artifacts[v] \in {"flushed", "live"}
                             /\ \A r \in Removers : v \notin removal[r].erased

ArtifactInv == ArtifactTypeOK /\ RemovalTypes /\ Progress /\ BytesKept /\ KeysAccounted

\* Keys are private to the calls and one for the captures.
LEMMA KeyFacts ==
    /\ \A w \in Calls : w \in Writers /\ Key(w) = w /\ w # Shared /\ w \notin Captures
    /\ \A w \in Captures : w \in Writers /\ Key(w) = Shared /\ w \notin Calls
    /\ \A w \in Writers : Key(w) \in ObjectKeys /\ (w \in Calls \/ w \in Captures)
    /\ Shared \notin Calls
BY ArtifactAssumption DEF Key, Writers, ObjectKeys

\* What the end of the answer does: rows settle, uploads on their way go adrift.
AtInterrupted ==
    /\ at' \in [Writers -> {"idle", "sent", "put", "written", "failed", "adrift"}]
    /\ \A w \in Writers : at'[w] = IF w \in Calls /\ at[w] \in {"sent", "put"}
                                   THEN IF at[w] = "sent" THEN "adrift" ELSE "failed" ELSE at[w]
AllSettled == \A w \in Calls : at[w] \notin {"sent", "put"}
Settled(state) ==
    /\ artifacts' \in [Writers -> {"none", "flushed", "live", "gone"}]
    /\ \A w \in Writers : artifacts'[w] = IF w \in Calls /\ artifacts[w] = "flushed" THEN state ELSE artifacts[w]
RowBecomes(w, state) ==
    /\ artifacts' \in [Writers -> {"none", "flushed", "live", "gone"}]
    /\ \A v \in Writers : artifacts'[v] = IF v = w THEN state ELSE artifacts[v]
Moves(w, x) ==
    /\ at' \in [Writers -> {"idle", "sent", "put", "written", "failed", "adrift"}]
    /\ \A v \in Writers : at'[v] = IF v = w THEN x ELSE at[v]
RemovalBecomes(q, todo, erased) ==
    /\ RemovalTypes'
    /\ \A r \in Removers \ {q} : removal'[r] = removal[r]
    /\ removal'[q].todo = todo /\ removal'[q].erased = erased

\* Pointwise readings of the updates, without EXCEPT.
LEMMA MovesShape ==
    ASSUME ArtifactTypeOK, NEW w \in Writers, NEW x \in {"idle", "sent", "put", "written", "failed", "adrift"},
           at' = [at EXCEPT ![w] = x]
    PROVE  Moves(w, x)
BY DEF ArtifactTypeOK, Moves

\* A row changes state.
LEMMA RowShape ==
    ASSUME ArtifactTypeOK, NEW w \in Writers, NEW x \in {"none", "flushed", "live", "gone"},
           artifacts' = [artifacts EXCEPT ![w] = x]
    PROVE  RowBecomes(w, x)
BY DEF ArtifactTypeOK, RowBecomes

\* The flushed rows of the answer settle together.
LEMMA SettledShape ==
    ASSUME ArtifactTypeOK, NEW x \in {"none", "live"}, artifacts' = Settle(x)
    PROVE  Settled(x)
BY KeyFacts DEF ArtifactTypeOK, Settled, Settle, Flushed

\* An interruption; when it finds nothing under way, nothing changes.
LEMMA InterruptedShape ==
    ASSUME ArtifactTypeOK
    PROVE  (at' = Interrupted => AtInterrupted) /\ (at' = Interrupted /\ Interrupted = at => at' = at /\ AllSettled)
<1>1. at' = Interrupted => AtInterrupted
  BY KeyFacts DEF ArtifactTypeOK, AtInterrupted, Interrupted
<1>2. ASSUME Interrupted = at, NEW w \in Calls PROVE at[w] \notin {"sent", "put"}
  <2>1. w \in Writers
    BY KeyFacts
  <2>2. Interrupted[w] = IF at[w] \in {"sent", "put"} THEN IF at[w] = "sent" THEN "adrift" ELSE "failed" ELSE at[w]
    BY <2>1 DEF Interrupted
  <2> QED BY <1>2, <2>2
<1> QED BY <1>1, <1>2 DEF AllSettled

\* One remover's progress.
LEMMA RemovalShape ==
    ASSUME RemovalTypes, NEW q \in Removers, NEW todo \in SUBSET Writers, NEW erased \in SUBSET Writers,
           removal' = [removal EXCEPT ![q] = [todo |-> todo, erased |-> erased]]
    PROVE  RemovalBecomes(q, todo, erased)
<1>1. PICK t \in [todo : SUBSET Writers, erased : SUBSET Writers] : t = [todo |-> todo, erased |-> erased]
  OBVIOUS
<1> QED BY <1>1 DEF RemovalTypes, RemovalBecomes

\* A write is validated; a call's key is noted before its bytes leave.
LEMMA SendBytesStep ==
    ASSUME ArtifactInv, NEW w \in Writers, SendBytes(w)
    PROVE  ArtifactInv'
<1> USE KeyFacts DEF ArtifactInv
<1>1. /\ at[w] = "idle" /\ (w \in Calls => answer = "open") /\ UNCHANGED <<artifacts, objects, answer, session, removal, torn, parted, late, retained>>
      /\ \E x \in {"sent", "failed"} : Moves(w, x)
      /\ pendingKeys' = IF w \in Calls THEN pendingKeys \cup {w} ELSE pendingKeys
  BY MovesShape DEF SendBytes, MayWrite, NotePending, artifactHistory
<1>2. ArtifactTypeOK'
  BY <1>1 DEF ArtifactTypeOK, Moves
<1>3. RemovalTypes'
  BY <1>1 DEF RemovalTypes, Moves
<1>4. Progress'
  <2> SUFFICES ASSUME NEW v \in Writers PROVE ProgressOf(v)'
    BY DEF Progress
  <2> QED BY <1>1 DEF Progress, ProgressOf, Moves
<1>5. BytesKept'
  <2> SUFFICES ASSUME NEW v \in Writers PROVE BytesOf(v)'
    BY DEF BytesKept
  <2>1. PICK x \in {"sent", "failed"} : Moves(w, x)
    BY <1>1
  <2>2. CASE v = w
    <3>1. at'[v] # "put" /\ artifacts'[v] = "none"
      BY <1>1, <2>1, <2>2 DEF Moves, Progress, ProgressOf
    <3> QED BY <3>1 DEF BytesOf
  <2>3. CASE v # w
    BY <1>1, <2>1, <2>3 DEF Moves, BytesKept, BytesOf, Removing
  <2> QED BY <2>2, <2>3
<1>6. KeysAccounted'
  BY <1>1 DEF KeysAccounted, Moves
<1> QED BY <1>2, <1>3, <1>4, <1>5, <1>6

\* The bytes arrive: a call's under its private key, a capture's under the shared one.
LEMMA PutArtifactStep ==
    ASSUME ArtifactInv, NEW w \in Writers, PutArtifact(w)
    PROVE  ArtifactInv'
<1> USE KeyFacts DEF ArtifactInv
<1>1. /\ at[w] = "sent" /\ (w \in Calls => answer = "open") /\ objects' = objects \cup {Key(w)} /\ Moves(w, "put")
      /\ UNCHANGED <<artifacts, pendingKeys, answer, session, removal, torn, parted, late, retained>>
  BY MovesShape DEF PutArtifact, MayWrite, artifactHistory
<1>2. ArtifactTypeOK'
  BY <1>1 DEF ArtifactTypeOK, Moves
<1>3. RemovalTypes'
  BY <1>1 DEF RemovalTypes, Moves
<1>4. Progress'
  <2> SUFFICES ASSUME NEW v \in Writers PROVE ProgressOf(v)'
    BY DEF Progress
  <2> QED BY <1>1 DEF Progress, ProgressOf, Moves
<1>5. BytesKept'
  <2> SUFFICES ASSUME NEW v \in Writers PROVE BytesOf(v)'
    BY DEF BytesKept
  <2> QED BY <1>1 DEF BytesKept, BytesOf, Removing, Moves
<1>6. KeysAccounted'
  <2>1. \A v \in Calls : v \in objects' => v \in pendingKeys' \cup retained' \/ artifacts'[v] = "live"
    BY <1>1 DEF KeysAccounted, Progress, ProgressOf, Moves
  <2>2. \A v \in Calls, r \in Removers : v \in removal'[r].erased => v \notin objects'
    BY <1>1 DEF KeysAccounted, Progress, ProgressOf, Moves
  <2>3. Shared \in objects' /\ Shared \notin retained' =>
            \E v \in Captures : /\ at'[v] = "put" \/ artifacts'[v] \in {"flushed", "live"}
                                /\ \A r \in Removers : v \notin removal'[r].erased
    <3> SUFFICES ASSUME Shared \in objects', Shared \notin retained'
                 PROVE  \E v \in Captures : /\ at'[v] = "put" \/ artifacts'[v] \in {"flushed", "live"}
                                            /\ \A r \in Removers : v \notin removal'[r].erased
      OBVIOUS
    <3>1. CASE w \in Captures
      <4>1. at'[w] = "put" /\ \A r \in Removers : w \notin removal'[r].erased
        BY <1>1, <3>1 DEF Moves, Progress, ProgressOf
      <4> QED BY <3>1, <4>1
    <3>2. CASE w \in Calls
      <4>1. Shared \in objects /\ Shared \notin retained
        BY <1>1, <3>2
      <4>2. PICK v \in Captures : /\ at[v] = "put" \/ artifacts[v] \in {"flushed", "live"}
                                  /\ \A r \in Removers : v \notin removal[r].erased
        BY <4>1 DEF KeysAccounted
      <4>3. v \in Writers /\ v # w
        BY <3>2
      <4> QED BY <1>1, <4>2, <4>3 DEF Moves
    <3> QED BY <3>1, <3>2
  <2> QED BY <2>1, <2>2, <2>3 DEF KeysAccounted
<1> QED BY <1>2, <1>3, <1>4, <1>5, <1>6

\* A failed upload has no row; a capture leaves its object behind.
LEMMA WriteFailsStep ==
    ASSUME ArtifactInv, NEW w \in Writers, WriteFails(w)
    PROVE  ArtifactInv'
<1> USE KeyFacts DEF ArtifactInv
<1>1. /\ at[w] \in {"sent", "put"} /\ Moves(w, "failed")
      /\ retained \subseteq retained' /\ retained' \subseteq retained \cup {Shared} /\ (w \in Captures => Shared \in retained')
      /\ UNCHANGED <<artifacts, objects, pendingKeys, answer, session, removal, torn, parted, late>>
  BY MovesShape DEF WriteFails
<1>2. ArtifactTypeOK'
  BY <1>1 DEF ArtifactTypeOK, Moves, ObjectKeys
<1>3. RemovalTypes'
  BY <1>1 DEF RemovalTypes, Moves
<1>4. Progress'
  <2> SUFFICES ASSUME NEW v \in Writers PROVE ProgressOf(v)'
    BY DEF Progress
  <2> QED BY <1>1 DEF Progress, ProgressOf, Moves
<1>5. BytesKept'
  <2> SUFFICES ASSUME NEW v \in Writers PROVE BytesOf(v)'
    BY DEF BytesKept
  <2> QED BY <1>1 DEF BytesKept, BytesOf, Removing, Moves
<1>6. KeysAccounted'
  BY <1>1 DEF KeysAccounted, Moves
<1> QED BY <1>2, <1>3, <1>4, <1>5, <1>6

\* The row is flushed, in the transaction that holds the bytes' key.
LEMMA RegisterStep ==
    ASSUME ArtifactInv, NEW w \in Writers, Register(w)
    PROVE  ArtifactInv'
<1> USE KeyFacts DEF ArtifactInv
<1>1. /\ at[w] = "put" /\ (w \in Calls => answer = "open")
      /\ RowBecomes(w, "flushed") /\ Moves(w, "written")
      /\ UNCHANGED <<objects, pendingKeys, answer, session, removal, torn, parted, late, retained>>
  BY MovesShape, RowShape DEF Register, MayWrite, artifactHistory
<1>2. ArtifactTypeOK'
  BY <1>1 DEF ArtifactTypeOK, Moves, RowBecomes
<1>3. RemovalTypes'
  BY <1>1 DEF RemovalTypes, Moves, RowBecomes
<1>4. Progress'
  <2> SUFFICES ASSUME NEW v \in Writers PROVE ProgressOf(v)'
    BY DEF Progress
  <2> QED BY <1>1 DEF Progress, ProgressOf, Moves, RowBecomes
<1>5. BytesKept'
  <2> SUFFICES ASSUME NEW v \in Writers PROVE BytesOf(v)'
    BY DEF BytesKept
  <2> QED BY <1>1 DEF BytesKept, BytesOf, Removing, Moves, RowBecomes
<1>6. KeysAccounted'
  <2>1. \A v \in Calls : v \in objects' => v \in pendingKeys' \cup retained' \/ artifacts'[v] = "live"
    BY <1>1 DEF KeysAccounted, Progress, ProgressOf, Moves, RowBecomes
  <2>2. \A v \in Calls, r \in Removers : v \in removal'[r].erased => v \notin objects'
    BY <1>1 DEF KeysAccounted, Progress, ProgressOf, Moves, RowBecomes
  <2>3. Shared \in objects' /\ Shared \notin retained' =>
            \E v \in Captures : /\ at'[v] = "put" \/ artifacts'[v] \in {"flushed", "live"}
                                /\ \A r \in Removers : v \notin removal'[r].erased
    <3> SUFFICES ASSUME Shared \in objects', Shared \notin retained'
                 PROVE  \E v \in Captures : /\ at'[v] = "put" \/ artifacts'[v] \in {"flushed", "live"}
                                            /\ \A r \in Removers : v \notin removal'[r].erased
      OBVIOUS
    <3>1. PICK v \in Captures : /\ at[v] = "put" \/ artifacts[v] \in {"flushed", "live"}
                                /\ \A r \in Removers : v \notin removal[r].erased
      BY <1>1 DEF KeysAccounted
    <3>2. at'[v] = "put" \/ artifacts'[v] \in {"flushed", "live"}
      BY <1>1, <3>1 DEF Moves, RowBecomes
    <3> QED BY <1>1, <3>1, <3>2
  <2> QED BY <2>1, <2>2, <2>3 DEF KeysAccounted
<1> QED BY <1>2, <1>3, <1>4, <1>5, <1>6

\* An execution's transaction ends; rolled back, it leaves the shared object behind.
LEMMA EndCaptureStep ==
    ASSUME ArtifactInv, NEW w \in Writers, EndCapture(w)
    PROVE  ArtifactInv'
<1> USE KeyFacts DEF ArtifactInv
<1>1. /\ w \in Captures /\ artifacts[w] = "flushed"
      /\ \/ RowBecomes(w, "live") /\ retained' = retained
         \/ RowBecomes(w, "none") /\ retained' = retained \cup {Shared}
      /\ UNCHANGED <<objects, at, pendingKeys, answer, session, removal, torn, parted, late>>
  BY RowShape DEF EndCapture
<1>2. ArtifactTypeOK'
  BY <1>1 DEF ArtifactTypeOK, RowBecomes
<1>3. RemovalTypes'
  BY <1>1 DEF RemovalTypes, RowBecomes
<1>4. Progress'
  <2> SUFFICES ASSUME NEW v \in Writers PROVE ProgressOf(v)'
    BY DEF Progress
  <2> QED BY <1>1 DEF Progress, ProgressOf, RowBecomes
<1>5. BytesKept'
  <2> SUFFICES ASSUME NEW v \in Writers PROVE BytesOf(v)'
    BY DEF BytesKept
  <2> QED BY <1>1 DEF BytesKept, BytesOf, Removing, RowBecomes
<1>6. KeysAccounted'
  BY <1>1 DEF KeysAccounted, RowBecomes
<1> QED BY <1>2, <1>3, <1>4, <1>5, <1>6

\* The read-back keeps the object of a committed row and erases any other.
LEMMA CompensateStep ==
    ASSUME ArtifactInv, NEW w \in Writers, Compensate(w)
    PROVE  ArtifactInv'
<1> USE KeyFacts DEF ArtifactInv
<1>1. /\ answer = "ended" /\ w \in Calls /\ w \in pendingKeys /\ pendingKeys' = pendingKeys \ {w}
      /\ objects' = IF artifacts[w] # "live" THEN objects \ {w} ELSE objects
      /\ UNCHANGED <<artifacts, at, answer, session, removal, torn, parted, late, retained>>
  BY DEF Compensate, Unreferenced, artifactHistory, ArtifactTypeOK
<1>2. ArtifactTypeOK'
  BY <1>1 DEF ArtifactTypeOK
<1>3. RemovalTypes'
  BY <1>1 DEF RemovalTypes
<1>4. Progress'
  <2> SUFFICES ASSUME NEW v \in Writers PROVE ProgressOf(v)'
    BY DEF Progress
  <2> QED BY <1>1 DEF Progress, ProgressOf
<1>5. BytesKept'
  <2> SUFFICES ASSUME NEW v \in Writers PROVE BytesOf(v)'
    BY DEF BytesKept
  <2>1. CASE v = w
    BY <1>1, <2>1 DEF BytesKept, BytesOf, Removing, Progress, ProgressOf
  <2>2. CASE v # w
    <3>1. Key(v) # w
      BY <1>1, <2>2
    <3> QED BY <1>1, <2>2, <3>1 DEF BytesKept, BytesOf, Removing
  <2> QED BY <2>1, <2>2
<1>6. KeysAccounted'
  BY <1>1 DEF KeysAccounted
<1> QED BY <1>2, <1>3, <1>4, <1>5, <1>6

\* Bytes that were adrift have no row: their key is pending or left behind.
LEMMA ArriveLateStep ==
    ASSUME ArtifactInv, NEW w \in Writers, ArriveLate(w)
    PROVE  ArtifactInv'
<1> USE KeyFacts DEF ArtifactInv
<1>1. /\ at[w] = "adrift" /\ w \in Calls /\ Moves(w, "failed") /\ objects' = objects \cup {w}
      /\ retained' = IF w \in pendingKeys THEN retained ELSE retained \cup {w}
      /\ UNCHANGED <<artifacts, pendingKeys, answer, session, removal, torn, parted, late>>
  BY MovesShape DEF ArriveLate, Progress, ProgressOf
<1>2. ArtifactTypeOK'
  BY <1>1 DEF ArtifactTypeOK, Moves
<1>3. RemovalTypes'
  BY <1>1 DEF RemovalTypes, Moves
<1>4. Progress'
  <2> SUFFICES ASSUME NEW v \in Writers PROVE ProgressOf(v)'
    BY DEF Progress
  <2> QED BY <1>1 DEF Progress, ProgressOf, Moves
<1>5. BytesKept'
  <2> SUFFICES ASSUME NEW v \in Writers PROVE BytesOf(v)'
    BY DEF BytesKept
  <2> QED BY <1>1 DEF BytesKept, BytesOf, Removing, Moves
<1>6. KeysAccounted'
  <2>1. \A v \in Calls : v \in objects' => v \in pendingKeys' \cup retained' \/ artifacts'[v] = "live"
    BY <1>1 DEF KeysAccounted, Progress, ProgressOf, Moves
  <2>2. \A v \in Calls, r \in Removers : v \in removal'[r].erased => v \notin objects'
    BY <1>1 DEF KeysAccounted, Progress, ProgressOf, Moves
  <2>3. Shared \in objects' /\ Shared \notin retained' =>
            \E v \in Captures : /\ at'[v] = "put" \/ artifacts'[v] \in {"flushed", "live"}
                                /\ \A r \in Removers : v \notin removal'[r].erased
    <3> SUFFICES ASSUME Shared \in objects', Shared \notin retained'
                 PROVE  \E v \in Captures : /\ at'[v] = "put" \/ artifacts'[v] \in {"flushed", "live"}
                                            /\ \A r \in Removers : v \notin removal'[r].erased
      OBVIOUS
    <3>1. Shared \in objects /\ Shared \notin retained
      BY <1>1
    <3>2. PICK v \in Captures : /\ at[v] = "put" \/ artifacts[v] \in {"flushed", "live"}
                                /\ \A r \in Removers : v \notin removal[r].erased
      BY <3>1 DEF KeysAccounted
    <3>3. v \in Writers /\ v # w
      BY <1>1
    <3> QED BY <1>1, <3>2, <3>3 DEF Moves
  <2> QED BY <2>1, <2>2, <2>3 DEF KeysAccounted
<1> QED BY <1>2, <1>3, <1>4, <1>5, <1>6

\* The answer commits the rows whose keys are pending, or none of them.
LEMMA EndAnswerStep ==
    ASSUME ArtifactInv, EndAnswer
    PROVE  ArtifactInv'
<1> USE KeyFacts DEF ArtifactInv
<1>1. /\ answer = "open" /\ answer' \in {"ended", "doubt"}
      /\ \/ AtInterrupted /\ Settled("none") /\ answer' = "ended"
         \/ at' = at /\ Settled("live") /\ AllSettled
         \/ at' = at /\ artifacts' = artifacts /\ AllSettled
      /\ UNCHANGED <<objects, pendingKeys, session, removal, torn, parted, late, retained>>
  BY SettledShape, InterruptedShape DEF EndAnswer, artifactHistory
<1>2. ArtifactTypeOK'
  BY <1>1 DEF ArtifactTypeOK, Settled, AtInterrupted, AllSettled
<1>3. RemovalTypes'
  BY <1>1 DEF RemovalTypes, Settled, AtInterrupted, AllSettled
<1>4. Progress'
  <2> SUFFICES ASSUME NEW v \in Writers PROVE ProgressOf(v)'
    BY DEF Progress
  <2> QED BY <1>1 DEF Progress, ProgressOf, Settled, AtInterrupted, AllSettled
<1>5. BytesKept'
  <2> SUFFICES ASSUME NEW v \in Writers PROVE BytesOf(v)'
    BY DEF BytesKept
  <2>1. Removing(v)' = Removing(v)
    BY <1>1 DEF Removing
  <2>2. CASE AtInterrupted /\ Settled("none")
    BY <1>1, <2>1, <2>2 DEF BytesKept, BytesOf, AtInterrupted, Settled
  <2>3. CASE at' = at /\ Settled("live")
    <3>1. CASE v \in Calls /\ artifacts[v] = "flushed"
      <4>1. v \in pendingKeys
        BY <1>1, <3>1 DEF Progress, ProgressOf
      <4> QED BY <1>1, <2>1, <2>3, <3>1, <4>1 DEF BytesKept, BytesOf, Settled
    <3>2. CASE ~(v \in Calls /\ artifacts[v] = "flushed")
      BY <1>1, <2>1, <2>3, <3>2 DEF BytesKept, BytesOf, Settled
    <3> QED BY <3>1, <3>2
  <2>4. CASE at' = at /\ artifacts' = artifacts
    BY <1>1, <2>1, <2>4 DEF BytesKept, BytesOf
  <2> QED BY <1>1, <2>2, <2>3, <2>4
<1>6. KeysAccounted'
  BY <1>1 DEF KeysAccounted, Settled, AtInterrupted, AllSettled
<1> QED BY <1>2, <1>3, <1>4, <1>5, <1>6

\* A commit in doubt lands; where the read-back came first the history says so.
LEMMA CommitLandsStep ==
    ASSUME ArtifactInv, CommitLands
    PROVE  ArtifactInv'
<1> USE KeyFacts DEF ArtifactInv
<1>1. /\ answer \in {"doubt", "ended", "closed"} /\ answer' = IF answer = "doubt" THEN "ended" ELSE answer
      /\ \/ Settled("live") /\ late' = late \cup {w \in Flushed : w \notin pendingKeys}
         \/ Settled("none") /\ late' = late
      /\ UNCHANGED <<objects, at, pendingKeys, session, removal, torn, parted, retained>>
  BY SettledShape DEF CommitLands
<1>2. ArtifactTypeOK'
  BY <1>1 DEF ArtifactTypeOK, Settled, Flushed
<1>3. RemovalTypes'
  BY <1>1 DEF RemovalTypes, Settled
<1>4. Progress'
  <2> SUFFICES ASSUME NEW v \in Writers PROVE ProgressOf(v)'
    BY DEF Progress
  <2> QED BY <1>1 DEF Progress, ProgressOf, Settled
<1>5. BytesKept'
  <2> SUFFICES ASSUME NEW v \in Writers PROVE BytesOf(v)'
    BY DEF BytesKept
  <2>1. Removing(v)' = Removing(v)
    BY <1>1 DEF Removing
  <2>2. CASE Settled("none") /\ late' = late
    <3>1. CASE artifacts'[v] = artifacts[v]
      BY <1>1, <2>1, <2>2, <3>1 DEF BytesKept, BytesOf
    <3>2. CASE artifacts'[v] # artifacts[v]
      <4>1. artifacts[v] = "flushed" /\ artifacts'[v] = "none"
        BY <2>2, <3>2 DEF Settled
      <4>2. at'[v] = "written"
        BY <1>1, <4>1 DEF Progress, ProgressOf
      <4> QED BY <4>1, <4>2 DEF BytesOf
    <3> QED BY <3>1, <3>2
  <2>3. CASE Settled("live") /\ late' = late \cup {w \in Flushed : w \notin pendingKeys}
    BY <1>1, <2>1, <2>3 DEF BytesKept, BytesOf, Settled, Flushed
  <2> QED BY <1>1, <2>2, <2>3
<1>6. KeysAccounted'
  BY <1>1 DEF KeysAccounted, Settled
<1> QED BY <1>2, <1>3, <1>4, <1>5, <1>6

\* The session closes, with or without knowing.
LEMMA LeaveInDoubtStep ==
    ASSUME ArtifactInv, LeaveInDoubt \/ CloseAnswer
    PROVE  ArtifactInv'
<1> USE KeyFacts DEF ArtifactInv
<1>1. /\ answer \in {"doubt", "ended"} /\ answer' \in {"ended", "closed"} /\ (answer' = "closed" => pendingKeys = {})
      /\ UNCHANGED <<artifacts, objects, at, pendingKeys, session, removal, torn, parted, late, retained>>
  BY DEF LeaveInDoubt, CloseAnswer, artifactHistory
<1>2. ArtifactTypeOK'
  BY <1>1 DEF ArtifactTypeOK
<1>3. RemovalTypes'
  BY <1>1 DEF RemovalTypes
<1>4. Progress'
  <2> SUFFICES ASSUME NEW v \in Writers PROVE ProgressOf(v)'
    BY DEF Progress
  <2> QED BY <1>1 DEF Progress, ProgressOf
<1>5. BytesKept'
  <2> SUFFICES ASSUME NEW v \in Writers PROVE BytesOf(v)'
    BY DEF BytesKept
  <2> QED BY <1>1 DEF BytesKept, BytesOf, Removing
<1>6. KeysAccounted'
  BY <1>1 DEF KeysAccounted
<1> QED BY <1>2, <1>3, <1>4, <1>5, <1>6

\* Compensation that fails leaves every pending key behind.
LEMMA CompensationFailsStep ==
    ASSUME ArtifactInv, CompensationFails
    PROVE  ArtifactInv'
<1> USE KeyFacts DEF ArtifactInv
<1>1. /\ answer \in {"open", "ended"} /\ answer' = "closed" /\ pendingKeys' = {} /\ retained' = retained \cup pendingKeys
      /\ \/ answer = "ended" /\ artifacts' = artifacts /\ at' = at
         \/ AtInterrupted /\ Settled("none")
      /\ UNCHANGED <<objects, session, removal, torn, parted, late>>
  BY SettledShape, InterruptedShape DEF CompensationFails
<1>2. ArtifactTypeOK'
  BY <1>1 DEF ArtifactTypeOK, Settled, AtInterrupted
<1>3. RemovalTypes'
  BY <1>1 DEF RemovalTypes, Settled, AtInterrupted
<1>4. Progress'
  <2> SUFFICES ASSUME NEW v \in Writers PROVE ProgressOf(v)'
    BY DEF Progress
  <2> QED BY <1>1 DEF Progress, ProgressOf, Settled, AtInterrupted
<1>5. BytesKept'
  <2> SUFFICES ASSUME NEW v \in Writers PROVE BytesOf(v)'
    BY DEF BytesKept
  <2> QED BY <1>1 DEF BytesKept, BytesOf, Removing, Settled, AtInterrupted
<1>6. KeysAccounted'
  BY <1>1 DEF KeysAccounted, Settled, AtInterrupted
<1> QED BY <1>2, <1>3, <1>4, <1>5, <1>6

\* A removal begins with committed rows.
LEMMA BeginRemovalStep ==
    ASSUME ArtifactInv, NEW q \in Removers, NEW S \in SUBSET Writers, BeginRemoval(q, S)
    PROVE  ArtifactInv'
<1> USE KeyFacts DEF ArtifactInv
<1>1. /\ \A w \in S : artifacts[w] = "live"
      /\ removal[q].erased = {} /\ RemovalBecomes(q, S, {})
      /\ UNCHANGED <<artifacts, objects, at, pendingKeys, answer, session, torn, parted, late, retained>>
  <2>1. /\ removal[q] = NoRemoval /\ S \subseteq Live /\ removal' = [removal EXCEPT ![q].todo = S]
        /\ UNCHANGED <<artifacts, objects, at, pendingKeys, answer, session, torn, parted, late, retained>>
    BY DEF BeginRemoval, artifactHistory
  <2>2. removal' = [removal EXCEPT ![q] = [todo |-> S, erased |-> {}]]
    <3>1. [NoRemoval EXCEPT !.todo = S] = [todo |-> S, erased |-> {}]
      BY DEF NoRemoval
    <3> QED BY <2>1, <3>1
  <2>3. RemovalBecomes(q, S, {})
    BY <2>2, RemovalShape
  <2> QED BY <2>1, <2>3 DEF Live, NoRemoval
<1>2. ArtifactTypeOK'
  BY <1>1 DEF ArtifactTypeOK, RemovalBecomes
<1>3. RemovalTypes'
  BY <1>1 DEF RemovalTypes, RemovalBecomes
<1>4. Progress'
  <2> SUFFICES ASSUME NEW v \in Writers PROVE ProgressOf(v)'
    BY DEF Progress
  <2> QED BY <1>1 DEF Progress, ProgressOf, RemovalBecomes
<1>5. BytesKept'
  <2> SUFFICES ASSUME NEW v \in Writers PROVE BytesOf(v)'
    BY DEF BytesKept
  <2> QED BY <1>1 DEF BytesKept, BytesOf, Removing, RemovalBecomes
<1>6. KeysAccounted'
  BY <1>1 DEF KeysAccounted, RemovalBecomes
<1> QED BY <1>2, <1>3, <1>4, <1>5, <1>6

\* The erased object's row is being removed; its twins part from their bytes.
LEMMA EraseObjectStep ==
    ASSUME ArtifactInv, NEW q \in Removers, NEW w \in Writers, EraseObject(q, w)
    PROVE  ArtifactInv'
<1> USE KeyFacts DEF ArtifactInv
<1>1. /\ w \in removal[q].todo /\ objects' = objects \ {Key(w)}
      /\ parted' = parted \cup {v \in Writers \ {w} : Key(v) = Key(w)}
      /\ RemovalBecomes(q, removal[q].todo \ {w}, removal[q].erased \cup {w})
      /\ UNCHANGED <<artifacts, at, pendingKeys, answer, session, torn, late, retained>>
  BY RemovalShape DEF EraseObject, RemovalTypes
<1>2. ArtifactTypeOK'
  BY <1>1 DEF ArtifactTypeOK, RemovalBecomes
<1>3. RemovalTypes'
  BY <1>1 DEF RemovalTypes, RemovalBecomes
<1>4. Progress'
  <2> SUFFICES ASSUME NEW v \in Writers PROVE ProgressOf(v)'
    BY DEF Progress
  <2> QED BY <1>1 DEF Progress, ProgressOf, RemovalBecomes
<1>5. BytesKept'
  <2> SUFFICES ASSUME NEW v \in Writers PROVE BytesOf(v)'
    BY DEF BytesKept
  <2> QED BY <1>1 DEF BytesKept, BytesOf, Removing, RemovalBecomes
<1>6. KeysAccounted'
  BY <1>1 DEF KeysAccounted, RemovalBecomes
<1> QED BY <1>2, <1>3, <1>4, <1>5, <1>6

\* The rows removed are those whose objects are gone.
LEMMA FinishRemovalStep ==
    ASSUME ArtifactInv, NEW q \in Removers, FinishRemoval(q)
    PROVE  ArtifactInv'
<1> USE KeyFacts DEF ArtifactInv
<1>1. /\ RemovalBecomes(q, {}, {})
      /\ artifacts' \in [Writers -> {"none", "flushed", "live", "gone"}]
      /\ \A w \in Writers : artifacts'[w] = IF w \in removal[q].erased THEN "gone" ELSE artifacts[w]
      /\ UNCHANGED <<objects, at, pendingKeys, answer, session, torn, parted, late, retained>>
  BY RemovalShape DEF FinishRemoval, RemoveRows, NoRemoval, artifactHistory, RemovalTypes, ArtifactTypeOK
<1>2. ArtifactTypeOK'
  BY <1>1 DEF ArtifactTypeOK, RemovalBecomes
<1>3. RemovalTypes'
  BY <1>1 DEF RemovalTypes, RemovalBecomes
<1>4. Progress'
  <2> SUFFICES ASSUME NEW v \in Writers PROVE ProgressOf(v)'
    BY DEF Progress
  <2> QED BY <1>1 DEF Progress, ProgressOf, RemovalBecomes
<1>5. BytesKept'
  <2> SUFFICES ASSUME NEW v \in Writers PROVE BytesOf(v)'
    BY DEF BytesKept
  <2>1. CASE v \in removal[q].erased
    <3>1. at'[v] = "written" /\ artifacts'[v] = "gone"
      BY <1>1, <2>1 DEF Progress, ProgressOf
    <3> QED BY <3>1 DEF BytesOf
  <2>2. CASE v \notin removal[q].erased
    <3>1. Removing(v) => Removing(v)'
      BY <1>1, <2>2 DEF Removing, RemovalBecomes
    <3> QED BY <1>1, <2>2, <3>1 DEF BytesKept, BytesOf
  <2> QED BY <2>1, <2>2
<1>6. KeysAccounted'
  BY <1>1 DEF KeysAccounted, RemovalBecomes
<1> QED BY <1>2, <1>3, <1>4, <1>5, <1>6

\* A removal that rolls back leaves torn rows.
LEMMA RemovalFailsStep ==
    ASSUME ArtifactInv, NEW q \in Removers, RemovalFails(q)
    PROVE  ArtifactInv'
<1> USE KeyFacts DEF ArtifactInv
<1>1. /\ RemovalBecomes(q, {}, {}) /\ torn' = torn \cup removal[q].erased
      /\ UNCHANGED <<artifacts, objects, at, pendingKeys, answer, session, parted, late, retained>>
  BY RemovalShape DEF RemovalFails, NoRemoval, RemovalTypes
<1>2. ArtifactTypeOK'
  BY <1>1 DEF ArtifactTypeOK, RemovalBecomes
<1>3. RemovalTypes'
  BY <1>1 DEF RemovalTypes, RemovalBecomes
<1>4. Progress'
  <2> SUFFICES ASSUME NEW v \in Writers PROVE ProgressOf(v)'
    BY DEF Progress
  <2> QED BY <1>1 DEF Progress, ProgressOf, RemovalBecomes
<1>5. BytesKept'
  <2> SUFFICES ASSUME NEW v \in Writers PROVE BytesOf(v)'
    BY DEF BytesKept
  <2>1. Removing(v) => Removing(v)' \/ v \in torn'
    BY <1>1 DEF Removing, RemovalBecomes
  <2> QED BY <1>1, <2>1 DEF BytesKept, BytesOf
<1>6. KeysAccounted'
  BY <1>1 DEF KeysAccounted, RemovalBecomes
<1> QED BY <1>2, <1>3, <1>4, <1>5, <1>6

\* The cascade leaves the objects behind.
LEMMA DeleteSessionStep ==
    ASSUME ArtifactInv, DeleteSession
    PROVE  ArtifactInv'
<1> USE KeyFacts DEF ArtifactInv
<1>1. /\ session' = FALSE /\ artifacts' \in [Writers -> {"none", "flushed", "live", "gone"}]
      /\ \A w \in Writers : artifacts'[w] = IF artifacts[w] = "live" THEN "gone" ELSE artifacts[w]
      /\ retained \subseteq retained' /\ retained' \subseteq ObjectKeys
      /\ \A w \in Writers : artifacts[w] = "live" => Key(w) \in retained'
      /\ UNCHANGED <<objects, at, pendingKeys, answer, removal, torn, parted, late>>
  BY DEF DeleteSession, Live, ArtifactTypeOK
<1>2. ArtifactTypeOK'
  BY <1>1 DEF ArtifactTypeOK
<1>3. RemovalTypes'
  BY <1>1 DEF RemovalTypes
<1>4. Progress'
  <2> SUFFICES ASSUME NEW v \in Writers PROVE ProgressOf(v)'
    BY DEF Progress
  <2> QED BY <1>1 DEF Progress, ProgressOf
<1>5. BytesKept'
  <2> SUFFICES ASSUME NEW v \in Writers PROVE BytesOf(v)'
    BY DEF BytesKept
  <2> QED BY <1>1 DEF BytesKept, BytesOf, Removing
<1>6. KeysAccounted'
  BY <1>1 DEF KeysAccounted
<1> QED BY <1>2, <1>3, <1>4, <1>5, <1>6

\* However writes, the end of the answer, its compensation, lost acknowledgements,
\* both removers and the deletion of the chat interleave: a committed artifact has its
\* bytes and, once the answer is settled, bytes have their row, but for what the
\* history names.
THEOREM ArtifactsAgree == ArtifactSpec => []ArtifactsMatchObjects
<1>1. ArtifactInit => ArtifactInv
  <2> SUFFICES ASSUME ArtifactInit PROVE ArtifactInv
    OBVIOUS
  <2>1. ArtifactTypeOK /\ RemovalTypes
    BY DEF ArtifactInit, ArtifactTypeOK, RemovalTypes, NoRemoval
  <2>2. Progress
    BY DEF ArtifactInit, Progress, ProgressOf, NoRemoval
  <2>3. BytesKept
    BY DEF ArtifactInit, BytesKept, BytesOf
  <2>4. KeysAccounted
    BY DEF ArtifactInit, KeysAccounted, NoRemoval
  <2> QED BY <2>1, <2>2, <2>3, <2>4 DEF ArtifactInv
<1>2. ArtifactInv /\ [ArtifactNext]_artifactVars => ArtifactInv'
  <2> SUFFICES ASSUME ArtifactInv, [ArtifactNext]_artifactVars PROVE ArtifactInv'
    OBVIOUS
  <2>1. CASE UNCHANGED artifactVars
    <3>1. ArtifactTypeOK' /\ RemovalTypes'
      BY <2>1 DEF artifactVars, ArtifactInv, ArtifactTypeOK, RemovalTypes
    <3>2. Progress' /\ BytesKept'
      BY <2>1 DEF artifactVars, ArtifactInv, Progress, ProgressOf, BytesKept, BytesOf, Removing
    <3>3. KeysAccounted'
      BY <2>1 DEF artifactVars, ArtifactInv, KeysAccounted
    <3> QED BY <3>1, <3>2, <3>3 DEF ArtifactInv
  <2>2. ASSUME NEW w \in Writers,
               SendBytes(w) \/ PutArtifact(w) \/ WriteFails(w) \/ Register(w) \/ EndCapture(w) \/ Compensate(w) \/ ArriveLate(w)
        PROVE  ArtifactInv'
    BY <2>2, SendBytesStep, PutArtifactStep, WriteFailsStep, RegisterStep, EndCaptureStep, CompensateStep, ArriveLateStep
  <2>3. CASE EndAnswer \/ CommitLands \/ LeaveInDoubt \/ CompensationFails \/ CloseAnswer \/ DeleteSession
    BY <2>3, EndAnswerStep, CommitLandsStep, LeaveInDoubtStep, CompensationFailsStep, DeleteSessionStep
  <2>4. ASSUME NEW r \in Removers, \/ \E S \in SUBSET Writers : BeginRemoval(r, S)
                                   \/ \E w \in Writers : EraseObject(r, w)
                                   \/ FinishRemoval(r) \/ RemovalFails(r)
        PROVE  ArtifactInv'
    BY <2>4, BeginRemovalStep, EraseObjectStep, FinishRemovalStep, RemovalFailsStep
  <2> QED BY <2>1, <2>2, <2>3, <2>4 DEF ArtifactNext
<1>3. ArtifactInv => ArtifactsMatchObjects
  <2> SUFFICES ASSUME ArtifactInv PROVE ArtifactHasBytes /\ NothingLeaks
    BY DEF ArtifactInv, ArtifactsMatchObjects
  <2>1. ArtifactHasBytes
    BY DEF ArtifactInv, BytesKept, BytesOf, ArtifactHasBytes, Live
  <2>2. NothingLeaks
    <3> SUFFICES ASSUME answer = "closed", \A w \in Writers : at[w] \notin {"sent", "put", "adrift"}, NEW k \in objects
                 PROVE  Referenced(k) \/ k \in retained
      BY DEF NothingLeaks
    <3>1. pendingKeys = {} /\ k \in ObjectKeys
      BY DEF ArtifactInv, ArtifactTypeOK
    <3>2. CASE k \in Calls
      BY <3>1, <3>2, KeyFacts DEF ArtifactInv, KeysAccounted, Referenced
    <3>3. CASE k = Shared
      BY <3>3, KeyFacts DEF ArtifactInv, KeysAccounted, Referenced
    <3> QED BY <3>1, <3>2, <3>3 DEF ObjectKeys
  <2> QED BY <2>1, <2>2
<1> QED BY <1>1, <1>2, <1>3, PTL DEF ArtifactSpec

-----------------------------------------------------------------------------
(* The assistant.  A request under way carries what was checked when it read  *)
(* the row, and a conversation its pin.                                        *)

EditRows == [op : EditOps, snap : HeadRows, number : Nat, target : Nat, arg : Members \cup {Nobody}]

\* What a request read is still good when it writes, or the assistant is gone.
EditIsSound(e) ==
    /\ e.op \in {"publish", "rollback"} => e.number <= MaxVersions
    /\ e.op = "publish" => ValidWebMode(e.snap.config)
    /\ e.op = "rollback" /\ head.live => e.target \in DOMAIN versions
    /\ e.op = "transfer" => e.arg \in Members

\* What an answer under a cap is given of a configuration.
AnswerOf(c, l) == Clamped([c EXCEPT !.web = c.web /\ ~c.offline], l)

\* It is a configuration, and what a higher cap gives, clamped, is what the lower gives.
LEMMA AnswersAgree ==
    ASSUME NEW c \in Configs, NEW l \in Levels, NEW h \in Levels
    PROVE  /\ AnswerOf(c, l) \in Configs
           /\ l <= h => AnswerOf(c, l) = Clamped(AnswerOf(c, h), l)
<1>1. PICK k : k = [c EXCEPT !.web = c.web /\ ~c.offline]
  OBVIOUS
<1>2. k \in [autonomy: 1..2, web: BOOLEAN, offline: BOOLEAN] /\ l \in 1..2 /\ h \in 1..2
  BY <1>1 DEF Configs, Levels
<1>3. ASSUME NEW d \in [autonomy: 1..2, web: BOOLEAN, offline: BOOLEAN], NEW n \in 1..2
      PROVE  /\ Clamped(d, n) = [autonomy |-> IF d.autonomy <= n THEN d.autonomy ELSE n, web |-> d.web, offline |-> d.offline]
             /\ Clamped(d, n) \in [autonomy: 1..2, web: BOOLEAN, offline: BOOLEAN]
  <2>1. Clamped(d, n) = [autonomy |-> IF d.autonomy <= n THEN d.autonomy ELSE n, web |-> d.web, offline |-> d.offline]
    BY DEF Clamped
  <2>2. (IF d.autonomy <= n THEN d.autonomy ELSE n) \in 1..2 /\ d.web \in BOOLEAN /\ d.offline \in BOOLEAN
    OBVIOUS
  <2> QED BY <2>1, <2>2
<1>4. PICK u : u = Clamped(k, h)
  OBVIOUS
<1>5. /\ u \in [autonomy: 1..2, web: BOOLEAN, offline: BOOLEAN] /\ u.web = k.web /\ u.offline = k.offline
      /\ u.autonomy = IF k.autonomy <= h THEN k.autonomy ELSE h
  <2>1. /\ u = [autonomy |-> IF k.autonomy <= h THEN k.autonomy ELSE h, web |-> k.web, offline |-> k.offline]
        /\ u \in [autonomy: 1..2, web: BOOLEAN, offline: BOOLEAN]
    BY <1>2, <1>3, <1>4, Zenon
  <2> QED BY <2>1
<1>6. ASSUME l <= h PROVE Clamped(k, l) = Clamped(u, l)
  <2>1. (IF k.autonomy <= l THEN k.autonomy ELSE l) = (IF u.autonomy <= l THEN u.autonomy ELSE l)
    BY <1>2, <1>5, <1>6
  <2>2. Clamped(k, l) = [autonomy |-> IF k.autonomy <= l THEN k.autonomy ELSE l, web |-> k.web, offline |-> k.offline]
    BY <1>2, <1>3, Zenon
  <2>3. Clamped(u, l) = [autonomy |-> IF u.autonomy <= l THEN u.autonomy ELSE l, web |-> u.web, offline |-> u.offline]
    BY <1>2, <1>3, <1>5, Zenon
  <2> QED BY <1>5, <2>1, <2>2, <2>3
<1>7. Clamped(k, l) \in [autonomy: 1..2, web: BOOLEAN, offline: BOOLEAN]
  BY <1>2, <1>3
<1> QED BY <1>1, <1>4, <1>6, <1>7 DEF AnswerOf, Configs, Levels

\* A conversation answers with its pin, and not before it has one.
PinIsSound(b) ==
    /\ b.version <= Len(versions)
    /\ b.state # "open" => b.version = 0 /\ b.ran = {}
    /\ b.version # 0 => \A x \in b.ran : x.config = AnswerOf(versions[b.version], x.under)
    /\ \A x, y \in b.ran : x.under <= y.under => x.config = Clamped(y.config, x.under)

LibraryInv ==
    /\ head \in HeadRows /\ versions \in Seq(Configs) /\ Len(versions) <= MaxVersions /\ cap \in Levels
    /\ edits \in [Members -> EditRows] /\ \A m \in Members : EditIsSound(edits[m])
    /\ bound \in [Sessions -> Conversations] /\ \A s \in Sessions : PinIsSound(bound[s])
    /\ VersionsAreCoherent /\ PublishedHasVersion

\* No request under way: some row that exists, and nothing to write.
LEMMA NoEditIsSound ==
    ASSUME NEW m \in Members
    PROVE  NoEdit \in EditRows /\ NoEdit.op = "none"
<1>1. PICK n \in Members : n = CHOOSE x \in Members : TRUE
  OBVIOUS
<1>2. [autonomy |-> 1, web |-> FALSE, offline |-> FALSE] \in Configs
  BY DEF Configs, Levels
<1>3. PICK c \in Configs : c = CHOOSE x \in Configs : TRUE
  BY <1>2
<1>4. PICK h \in HeadRows : h = CreatedBy(n, Nobody, c)
  BY DEF CreatedBy, HeadRows
<1>5. NoEdit = [op |-> "none", snap |-> h, number |-> 0, target |-> 0, arg |-> Nobody]
  BY <1>1, <1>3, <1>4 DEF NoEdit, Edit
<1> QED BY <1>5 DEF EditRows, EditOps

\* The head becomes h, with the versions and the conversations as they were.
LEMMA HeadKeeps ==
    ASSUME LibraryInv, NEW h \in HeadRows, head' = h, UNCHANGED <<versions, bound>>,
           h.live => head.live, cap' \in Levels,
           h.live /\ h.status = "published" => head.status = "published",
           edits' \in [Members -> EditRows],
           \A m \in Members : edits'[m] = edits[m] \/ edits'[m].op = "none" 
    PROVE  LibraryInv'
<1>1. \A m \in Members : EditIsSound(edits[m])'
  BY DEF LibraryInv, EditIsSound
<1>2. \A s \in Sessions : PinIsSound(bound[s])'
  BY DEF LibraryInv, PinIsSound
<1>3. VersionsAreCoherent' /\ PublishedHasVersion'
  BY DEF LibraryInv, VersionsAreCoherent, PublishedHasVersion
<1> QED BY <1>1, <1>2, <1>3 DEF LibraryInv

\* The requests that write the head at once, and the cap.
LEMMA HeadStep ==
    ASSUME LibraryInv,
           \/ \E m \in Members : \/ \E c \in Configs : Patch(m, c)
                                 \/ \E n \in Members \cup {Nobody} : PatchBackup(m, n)
           \/ \E l \in Levels : SetCap(l)
    PROVE  LibraryInv'
<1>1. ASSUME NEW m \in Members, NEW c \in Configs, Patch(m, c) PROVE LibraryInv'
  <2>1. PICK h : h = [head EXCEPT !.config = c]
    OBVIOUS
  <2>2. h \in HeadRows /\ h.live = head.live /\ h.status = head.status
    BY <2>1 DEF LibraryInv, HeadRows
  <2>3. head' = h /\ UNCHANGED <<versions, cap, edits, bound>>
    BY <1>1, <2>1 DEF Patch, HeadBecomes
  <2> QED BY <2>2, <2>3, HeadKeeps DEF LibraryInv
<1>2. ASSUME NEW m \in Members, NEW n \in Members \cup {Nobody}, PatchBackup(m, n) PROVE LibraryInv'
  <2>1. PICK h : h = [head EXCEPT !.backup = n]
    OBVIOUS
  <2>2. h \in HeadRows /\ h.live = head.live /\ h.status = head.status
    BY <2>1 DEF LibraryInv, HeadRows
  <2>3. head' = h /\ UNCHANGED <<versions, cap, edits, bound>>
    BY <1>2, <2>1 DEF PatchBackup, HeadBecomes
  <2> QED BY <2>2, <2>3, HeadKeeps DEF LibraryInv
<1>3. ASSUME NEW l \in Levels, SetCap(l) PROVE LibraryInv'
  BY <1>3, HeadKeeps DEF SetCap, LibraryInv
<1> QED BY <1>1, <1>2, <1>3

\* The versions and the pins go with the assistant; what conversations ran stays.
LEMMA DeleteStep ==
    ASSUME LibraryInv, NEW m \in Members, DeleteAssistant(m)
    PROVE  LibraryInv'
<1>1. PICK h : h = [head EXCEPT !.live = FALSE]
  OBVIOUS
<1>2. h \in HeadRows /\ h.live = FALSE
  BY <1>1 DEF LibraryInv, HeadRows
<1>3. head' = h /\ versions' = <<>> /\ UNCHANGED <<cap, edits>>
      /\ bound' = [s \in Sessions |-> [bound[s] EXCEPT !.version = 0]]
  BY <1>1 DEF DeleteAssistant
<1>4. Len(<<>>) = 0 /\ <<>> \in Seq(Configs) /\ MaxVersions \in Nat /\ DOMAIN <<>> = {}
  BY LibraryAssumption
<1>5. ASSUME NEW s \in Sessions PROVE bound'[s] \in Conversations /\ PinIsSound(bound[s])'
  <2>1. PICK b : b = bound'[s]
    OBVIOUS
  <2>2. /\ b \in Conversations /\ b.version = 0 /\ b.state = bound[s].state /\ b.ran = bound[s].ran
    <3>1. bound[s] \in Conversations /\ 0 \in 0..MaxVersions
      BY <1>4 DEF LibraryInv
    <3>2. b = [bound[s] EXCEPT !.version = 0]
      BY <1>3, <2>1
    <3> QED BY <3>1, <3>2 DEF Conversations
  <2>3. PinIsSound(bound[s])
    BY DEF LibraryInv
  <2>4. Len(versions') = 0
    BY <1>3, <1>4
  <2> QED BY <2>1, <2>2, <2>3, <2>4 DEF PinIsSound
<1>6. \A n \in Members : EditIsSound(edits[n])'
  BY <1>2, <1>3 DEF LibraryInv, EditIsSound
<1>7. VersionsAreCoherent' /\ PublishedHasVersion'
  BY <1>2, <1>3, <1>4 DEF VersionsAreCoherent, PublishedHasVersion
<1>8. bound' \in [Sessions -> Conversations]
  BY <1>3, <1>5
<1> QED BY <1>2, <1>3, <1>4, <1>5, <1>6, <1>7, <1>8 DEF LibraryInv

\* A request reads the row and is checked against it.
LEMMA BeginEditKeeps ==
    ASSUME LibraryInv, NEW m \in Members, NEW e \in EditRows, EditIsSound(e), BeginEdit(m, e)
    PROVE  LibraryInv'
<1>1. edits' = [edits EXCEPT ![m] = e] /\ UNCHANGED <<head, versions, cap, bound>>
  BY DEF BeginEdit
<1>2. ASSUME NEW n \in Members PROVE EditIsSound(edits[n])'
  <2>1. PICK f \in EditRows : f = edits'[n]
    BY <1>1 DEF LibraryInv
  <2>2. EditIsSound(f)
    BY <1>1, <2>1 DEF LibraryInv
  <2> QED BY <1>1, <2>1, <2>2 DEF EditIsSound
<1>3. \A s \in Sessions : PinIsSound(bound[s])'
  BY <1>1 DEF LibraryInv, PinIsSound
<1>4. VersionsAreCoherent' /\ PublishedHasVersion'
  BY <1>1 DEF LibraryInv, VersionsAreCoherent, PublishedHasVersion
<1> QED BY <1>1, <1>2, <1>3, <1>4 DEF LibraryInv

\* Publication, rollback and governance begin with a sound request.
LEMMA BeginStep ==
    ASSUME LibraryInv, NEW m \in Members,
           \/ BeginPublish(m) \/ \E v \in 1..MaxVersions : BeginRollback(m, v)
           \/ \E op \in {"disable", "enable", "certify", "transfer"}, n \in Members : BeginGovern(m, op, n)
    PROVE  LibraryInv'
<1>1. NextVersion \in Nat /\ head \in HeadRows
  BY DEF LibraryInv, NextVersion
<1>2. CASE BeginPublish(m)
  <2>1. PICK e : e = Edit("publish", head, NextVersion, 0, Nobody)
    OBVIOUS
  <2>2. BeginEdit(m, e) /\ NextVersion <= MaxVersions /\ ValidWebMode(head.config)
    BY <1>2, <2>1 DEF BeginPublish, Publishable
  <2>3. e \in EditRows /\ EditIsSound(e)
    BY <1>1, <2>1, <2>2 DEF Edit, EditRows, EditOps, EditIsSound
  <2> QED BY <2>2, <2>3, BeginEditKeeps
<1>3. ASSUME NEW v \in 1..MaxVersions, BeginRollback(m, v) PROVE LibraryInv'
  <2>1. PICK e : e = Edit("rollback", head, NextVersion, v, Nobody)
    OBVIOUS
  <2>2. BeginEdit(m, e) /\ NextVersion <= MaxVersions /\ v \in DOMAIN versions
    BY <1>3, <2>1 DEF BeginRollback
  <2>3. e \in EditRows /\ EditIsSound(e)
    BY <1>1, <2>1, <2>2 DEF Edit, EditRows, EditOps, EditIsSound
  <2> QED BY <2>2, <2>3, BeginEditKeeps
<1>4. ASSUME NEW op \in {"disable", "enable", "certify", "transfer"}, NEW n \in Members, BeginGovern(m, op, n)
      PROVE  LibraryInv'
  <2>1. PICK e : e = Edit(op, head, 0, 0, n)
    OBVIOUS
  <2>2. BeginEdit(m, e)
    BY <1>4, <2>1 DEF BeginGovern
  <2>3. e \in EditRows /\ EditIsSound(e)
    BY <1>1, <2>1 DEF Edit, EditRows, EditOps, EditIsSound
  <2> QED BY <2>2, <2>3, BeginEditKeeps
<1> QED BY <1>2, <1>3, <1>4

\* A coherent configuration is appended as the next version: pins and the targets of
\* requests keep their place.
LEMMA AppendKeeps ==
    ASSUME LibraryInv, head.live, NEW c \in Configs, ValidWebMode(c), versions' = Append(versions, c),
           Len(versions) + 1 <= MaxVersions, NEW h \in HeadRows, head' = h, NEW m \in Members, EndEdit(m),
           UNCHANGED <<cap, bound>>
    PROVE  LibraryInv'
<1>1. /\ versions \in Seq(Configs) /\ Len(versions) \in Nat
      /\ versions' \in Seq(Configs) /\ Len(versions') = Len(versions) + 1
      /\ \A i \in 1..Len(versions) : versions'[i] = versions[i]
      /\ versions'[Len(versions) + 1] = c /\ versions' # <<>>
      /\ DOMAIN versions = 1..Len(versions) /\ DOMAIN versions' = 1..(Len(versions) + 1)
  BY DEF LibraryInv
<1>2. edits' \in [Members -> EditRows] /\ \A n \in Members : edits'[n] = edits[n] \/ edits'[n].op = "none"
  BY NoEditIsSound DEF EndEdit, LibraryInv
<1>3. ASSUME NEW n \in Members PROVE EditIsSound(edits[n])'
  <2>1. EditIsSound(edits[n])
    BY DEF LibraryInv
  <2> QED BY <1>1, <1>2, <2>1 DEF EditIsSound
<1>4. ASSUME NEW s \in Sessions PROVE PinIsSound(bound[s])'
  <2>1. PinIsSound(bound[s]) /\ bound[s].version \in Nat
    BY LibraryAssumption DEF LibraryInv, Conversations
  <2> QED BY <1>1, <2>1 DEF PinIsSound
<1>5. VersionsAreCoherent'
  BY <1>1 DEF LibraryInv, VersionsAreCoherent
<1>6. PublishedHasVersion'
  BY <1>1 DEF PublishedHasVersion
<1> QED BY <1>1, <1>2, <1>3, <1>4, <1>5, <1>6 DEF LibraryInv

\* The write of a request, or its failure.
LEMMA WriteStep ==
    ASSUME LibraryInv, NEW m \in Members, Publish(m) \/ Rollback(m) \/ Govern(m) \/ EditFails(m)
    PROVE  LibraryInv'
<1>1. edits[m] \in EditRows /\ EditIsSound(edits[m]) /\ head \in HeadRows /\ versions \in Seq(Configs)
  BY DEF LibraryInv
<1>2. edits[m].snap \in HeadRows /\ edits[m].snap.config \in Configs
  BY <1>1 DEF EditRows, HeadRows
<1>3. EndEdit(m) => /\ edits' \in [Members -> EditRows]
                    /\ \A n \in Members : edits'[n] = edits[n] \/ edits'[n].op = "none"
  BY NoEditIsSound DEF EndEdit, LibraryInv
<1>4. CASE Publish(m)
  <2>1. PICK c \in Configs : c = edits[m].snap.config
    BY <1>2
  <2>2. PICK h : h = head'
    OBVIOUS
  <2>3. h \in HeadRows
    BY <1>1, <1>4, <2>2 DEF Publish, HeadRows, Column
  <2>4. /\ head.live /\ versions' = Append(versions, c) /\ EndEdit(m) /\ UNCHANGED <<cap, bound>>
        /\ Len(versions) + 1 <= MaxVersions /\ ValidWebMode(c)
    BY <1>1, <1>4, <2>1 DEF Publish, Inserts, NextVersion, EditIsSound
  <2> QED BY <2>2, <2>3, <2>4, AppendKeeps
<1>5. CASE Rollback(m)
  <2>1. edits[m].target \in DOMAIN versions /\ head.live
    BY <1>1, <1>5 DEF Rollback, Inserts, EditIsSound
  <2>2. PICK c \in Configs : c = versions[edits[m].target]
    BY <1>1, <2>1
  <2>3. ValidWebMode(c)
    BY <2>1, <2>2 DEF LibraryInv, VersionsAreCoherent
  <2>4. RestoredConfig(m) \in Configs
    <3>1. head.config \in Configs /\ DOMAIN head.config = {"autonomy", "web", "offline"}
      BY <1>1 DEF HeadRows, Configs
    <3>2. PICK t : t = RestoredConfig(m)
      OBVIOUS
    <3>3. /\ t = [f \in {"autonomy", "web", "offline"} |-> t[f]]
          /\ t["autonomy"] \in Levels /\ t["web"] \in BOOLEAN /\ t["offline"] \in BOOLEAN
      BY <1>2, <2>2, <3>1, <3>2 DEF RestoredConfig, Column, Configs
    <3>4. t = [autonomy |-> t["autonomy"], web |-> t["web"], offline |-> t["offline"]]
      BY <3>3
    <3> QED BY <3>2, <3>3, <3>4 DEF Configs
  <2>5. PICK h : h = head'
    OBVIOUS
  <2>6. h \in HeadRows
    <3>1. PICK y : y = [head EXCEPT !.config = RestoredConfig(m)]
      OBVIOUS
    <3>2. y \in HeadRows
      BY <1>1, <2>4, <3>1 DEF HeadRows
    <3>3. h = [y EXCEPT !.status = Column(edits[m].snap.status, "published", head.status)]
      BY <1>1, <1>5, <2>5, <3>1 DEF Rollback, HeadRows
    <3>4. Column(edits[m].snap.status, "published", head.status) \in {"draft", "published", "disabled"}
      BY <1>1 DEF Column, HeadRows
    <3> QED BY <3>2, <3>3, <3>4 DEF HeadRows
  <2>7. /\ versions' = Append(versions, c) /\ EndEdit(m) /\ UNCHANGED <<cap, bound>> /\ Len(versions) + 1 <= MaxVersions
    BY <1>1, <1>5, <2>2 DEF Rollback, Inserts, NextVersion, EditIsSound
  <2> QED BY <2>1, <2>3, <2>5, <2>6, <2>7, AppendKeeps
<1>6. CASE Govern(m)
  <2>1. head' = Governed(m) /\ EndEdit(m) /\ UNCHANGED <<versions, cap, bound>>
    BY <1>6 DEF Govern
  <2>2. PICK st \in {"draft", "published", "disabled"}, ce \in BOOLEAN, ow \in Members :
            /\ head' = [head EXCEPT !.status = st, !.certified = ce, !.owner = ow]
            /\ st = "published" => head.status = "published"
    <3>1. PICK st : st = IF edits[m].op = "disable" THEN Column(edits[m].snap.status, "disabled", head.status)
                         ELSE IF edits[m].op = "enable" THEN Column(edits[m].snap.status, "draft", head.status)
                         ELSE head.status
      OBVIOUS
    <3>2. PICK ce : ce = IF edits[m].op = "certify" THEN ~edits[m].snap.certified ELSE head.certified
      OBVIOUS
    <3>3. PICK ow : ow = IF edits[m].op = "transfer" THEN Column(edits[m].snap.owner, edits[m].arg, head.owner)
                         ELSE head.owner
      OBVIOUS
    <3>4. st \in {"draft", "published", "disabled"} /\ (st = "published" => head.status = "published")
      BY <1>1, <3>1 DEF Column, HeadRows
    <3>5. ce \in BOOLEAN /\ ow \in Members
      BY <1>1, <1>2, <3>2, <3>3 DEF Column, HeadRows, EditIsSound
    <3>6. head' = [head EXCEPT !.status = st, !.certified = ce, !.owner = ow]
      BY <1>1, <2>1, <3>1, <3>2, <3>3 DEF Governed, HeadRows
    <3> QED BY <3>4, <3>5, <3>6
  <2>3. PICK h : h = head'
    OBVIOUS
  <2>4. h \in HeadRows /\ h.live = head.live /\ (h.status = "published" => head.status = "published")
    BY <1>1, <2>2, <2>3 DEF HeadRows
  <2> QED BY <1>3, <2>1, <2>3, <2>4, HeadKeeps DEF LibraryInv
<1>7. CASE EditFails(m)
  BY <1>1, <1>3, <1>7, HeadKeeps DEF EditFails, LibraryInv
<1> QED BY <1>4, <1>5, <1>6, <1>7

\* A conversation moves on.
LEMMA BoundKeeps ==
    ASSUME LibraryInv, NEW s \in Sessions, NEW b \in Conversations, PinIsSound(b),
           bound' = [bound EXCEPT ![s] = b], UNCHANGED <<head, versions, cap, edits>>
    PROVE  LibraryInv'
<1>1. ASSUME NEW t \in Sessions PROVE PinIsSound(bound[t])'
  <2>1. PICK d \in Conversations : d = bound'[t]
    BY DEF LibraryInv
  <2>2. PinIsSound(d)
    BY <2>1 DEF LibraryInv
  <2> QED BY <2>1, <2>2 DEF PinIsSound
<1>2. \A m \in Members : EditIsSound(edits[m])'
  BY DEF LibraryInv, EditIsSound
<1>3. VersionsAreCoherent' /\ PublishedHasVersion'
  BY DEF LibraryInv, VersionsAreCoherent, PublishedHasVersion
<1> QED BY <1>1, <1>2, <1>3 DEF LibraryInv

\* The steps of a conversation.
LEMMA SessionStep ==
    ASSUME LibraryInv, NEW s \in Sessions, LoadForUse(s) \/ PinVersion(s) \/ Answer(s)
    PROVE  LibraryInv'
<1>1. bound[s] \in Conversations /\ PinIsSound(bound[s]) /\ versions \in Seq(Configs) /\ Len(versions) \in 0..MaxVersions
  BY LibraryAssumption DEF LibraryInv
<1>2. CASE LoadForUse(s)
  <2>1. PICK b : b = [bound[s] EXCEPT !.state = "loaded"]
    OBVIOUS
  <2>2. bound' = [bound EXCEPT ![s] = b] /\ UNCHANGED <<head, versions, cap, edits>> /\ bound[s].state = "none"
    BY <1>2, <2>1 DEF LoadForUse
  <2>3. b \in Conversations /\ PinIsSound(b)
    BY <1>1, <2>1, <2>2 DEF Conversations, PinIsSound
  <2> QED BY <2>2, <2>3, BoundKeeps
<1>3. CASE PinVersion(s)
  <2>1. bound[s].state = "loaded" /\ UNCHANGED <<head, versions, cap, edits>>
    BY <1>3 DEF PinVersion
  <2>2. CASE head.live /\ GetHead # 0
    <3>1. PICK b : b = [bound[s] EXCEPT !.state = "open", !.bound = TRUE, !.version = Len(versions)]
      OBVIOUS
    <3>2. bound' = [bound EXCEPT ![s] = b]
      BY <1>3, <2>2, <3>1 DEF PinVersion, GetHead
    <3>3. /\ b \in Conversations /\ b.state = "open" /\ b.version = Len(versions) /\ b.ran = bound[s].ran
      BY <1>1, <3>1 DEF Conversations
    <3>4. PinIsSound(b)
      BY <1>1, <2>1, <3>3 DEF PinIsSound
    <3> QED BY <2>1, <3>2, <3>3, <3>4, BoundKeeps
  <2>3. CASE ~(head.live /\ GetHead # 0)
    <3>1. PICK b : b = [bound[s] EXCEPT !.state = "none"]
      OBVIOUS
    <3>2. bound' = [bound EXCEPT ![s] = b]
      BY <1>3, <2>3, <3>1 DEF PinVersion
    <3>3. b \in Conversations /\ PinIsSound(b)
      BY <1>1, <2>1, <3>1 DEF Conversations, PinIsSound
    <3> QED BY <2>1, <3>2, <3>3, BoundKeeps
  <2> QED BY <2>2, <2>3
<1>4. CASE Answer(s)
  <2>1. PICK v \in 1..Len(versions) : v = bound[s].version
    BY <1>1, <1>4 DEF Answer, VersionOf, PinIsSound, Conversations
  <2>2. PICK k \in Configs : k = versions[v]
    BY <1>1, <2>1
  <2>3. PICK x : x = [config |-> AnswerOf(k, cap), under |-> cap]
    OBVIOUS
  <2>4. cap \in Levels /\ x \in Answers /\ x.config = AnswerOf(k, cap) /\ x.under = cap
    BY <2>3, AnswersAgree DEF LibraryInv, Answers
  <2>5. PICK b : b = [bound[s] EXCEPT !.ran = bound[s].ran \cup {x}]
    OBVIOUS
  <2>6. bound' = [bound EXCEPT ![s] = b] /\ UNCHANGED <<head, versions, cap, edits>> /\ bound[s].state = "open"
    <3>1. RunConfig(k) = AnswerOf(k, cap)
      BY DEF RunConfig, AnswerOf
    <3> QED BY <1>4, <2>1, <2>2, <2>3, <2>5, <3>1 DEF Answer, VersionOf
  <2>7. b \in Conversations /\ b.version = v /\ b.state = "open" /\ b.ran = bound[s].ran \cup {x}
    BY <1>1, <2>1, <2>4, <2>5, <2>6 DEF Conversations
  <2>8. \A y \in b.ran : y.under \in Levels /\ y.config = AnswerOf(k, y.under)
    <3>1. \A y \in bound[s].ran : y.under \in Levels
      BY <1>1 DEF Conversations, Answers
    <3>2. \A y \in bound[s].ran : y.config = AnswerOf(k, y.under)
      BY <1>1, <2>1, <2>2 DEF PinIsSound
    <3> QED BY <2>4, <2>7, <3>1, <3>2
  <2>9. \A y, z \in b.ran : y.under <= z.under => y.config = Clamped(z.config, y.under)
    BY <2>8, AnswersAgree
  <2>10. PinIsSound(b)
    BY <1>1, <2>1, <2>2, <2>7, <2>8, <2>9 DEF PinIsSound
  <2> QED BY <2>6, <2>7, <2>10, BoundKeeps
<1> QED BY <1>2, <1>3, <1>4

\* Whatever patches, publications, rollbacks, administrators' acts and the deletion of the
\* assistant overlap: every version is coherent, a published assistant has one, and all the
\* answers of a conversation run with the configuration it pinned, clamped to the cap of the
\* moment.
THEOREM VersionsSound == LibrarySpec => []VersionsAreSound
<1>1. LibraryInit => LibraryInv
  <2> SUFFICES ASSUME LibraryInit PROVE LibraryInv
    OBVIOUS
  <2>1. PICK m \in Members, n \in Members, c \in Configs : head = CreatedBy(m, n, c)
    BY DEF LibraryInit
  <2>2. head \in HeadRows /\ head.status = "draft"
    BY <2>1 DEF CreatedBy, HeadRows
  <2>3. versions \in Seq(Configs) /\ Len(versions) = 0 /\ DOMAIN versions = {} /\ MaxVersions \in Nat
    BY LibraryAssumption DEF LibraryInit
  <2>4. edits \in [Members -> EditRows] /\ \A x \in Members : edits[x].op = "none"
    BY NoEditIsSound DEF LibraryInit
  <2>5. /\ Blank \in Conversations /\ Blank.state = "none" /\ Blank.version = 0 /\ Blank.ran = {}
    BY <2>3 DEF Blank, Conversations
  <2>6. bound \in [Sessions -> Conversations] /\ \A s \in Sessions : PinIsSound(bound[s])
    BY <2>3, <2>5 DEF LibraryInit, PinIsSound
  <2>7. \A x \in Members : EditIsSound(edits[x])
    BY <2>4 DEF EditIsSound
  <2>8. VersionsAreCoherent /\ PublishedHasVersion
    BY <2>2, <2>3 DEF VersionsAreCoherent, PublishedHasVersion
  <2>9. cap \in Levels
    BY DEF LibraryInit, Levels
  <2> QED BY <2>2, <2>3, <2>4, <2>6, <2>7, <2>8, <2>9 DEF LibraryInv
<1>2. LibraryInv /\ [LibraryNext]_libraryVars => LibraryInv'
  <2> SUFFICES ASSUME LibraryInv, [LibraryNext]_libraryVars PROVE LibraryInv'
    OBVIOUS
  <2>1. CASE UNCHANGED libraryVars
    <3>1. \A m \in Members : EditIsSound(edits[m])'
      BY <2>1 DEF libraryVars, LibraryInv, EditIsSound
    <3>2. \A s \in Sessions : PinIsSound(bound[s])'
      BY <2>1 DEF libraryVars, LibraryInv, PinIsSound
    <3> QED BY <2>1, <3>1, <3>2 DEF libraryVars, LibraryInv, VersionsAreCoherent, PublishedHasVersion
  <2>2. CASE LibraryNext
    BY <2>2, HeadStep, DeleteStep, BeginStep, WriteStep, SessionStep DEF LibraryNext
  <2> QED BY <2>1, <2>2
<1>3. LibraryInv => VersionsAreSound
  BY DEF LibraryInv, EditRows, PinIsSound, VersionsAreSound, LibraryTypeOK, RunsOneConfig
<1> QED BY <1>1, <1>2, <1>3, PTL DEF LibrarySpec

-----------------------------------------------------------------------------
(* Credentials.  A request remembers the row as it was: what it may still    *)
(* rely on is that a provider's row is locked (RowLocked), that an unlocked row *)
(* which nobody else wrote is the one it read (SnapFresh), and that the secret   *)
(* it read stays where it is and keeps its name (SnapPoints).                  *)

VaultRequests == [op : Ops, row : Rows \cup {None}, snap : RowOf, change : Changes, stale : BOOLEAN]
VaultTypes ==
    /\ rows \in [Rows -> RowOf] /\ secrets \in Seq(SecretOf)
    /\ req \in [Users -> VaultRequests] /\ holder \in [Rows -> Users \cup {None}]
    /\ sent \subseteq Rows \X Keys /\ shed \subseteq DOMAIN secrets /\ ops \in 0..MaxOps

Writing(q) == q.op \notin {"none", "use"}

\* Every request but a use has the lock of a provider's row, and is an administrator's.
RowLocked ==
    /\ \A u \in Users : Writing(req[u]) /\ req[u].row \in Providers => holder[req[u].row] = u /\ u \in Admins
    /\ \A r \in Rows : holder[r] # None =>
          r \in Providers /\ Writing(req[holder[r]]) /\ req[holder[r]].row = r

\* A row that nobody wrote since a request read it is the one it read.
SnapFresh ==
    \A u \in Users : req[u].op # "none" =>
        /\ req[u].row \in Rows /\ (req[u].snap.live <=> req[u].op # "create")
        /\ Writing(req[u]) /\ (~req[u].stale \/ req[u].row \in Providers) => rows[req[u].row] = req[u].snap

\* A row that is not there has no secret.
RowBlank == \A r \in Rows : rows[r].live \/ rows[r].ref = 0

\* The secret a request read, dead or alive, is one of its row.
SnapPoints ==
    \A u \in Users : req[u].op # "none" /\ req[u].snap.ref # 0 =>
        req[u].snap.ref \in DOMAIN secrets /\ secrets[req[u].snap.ref].name = req[u].row

\* A key is kept under the row it was entered for, once for each owner.
KeptApart ==
    /\ \A s \in DOMAIN secrets : secrets[s].key[1] = secrets[s].name
    /\ \A s, t \in DOMAIN secrets :
          secrets[s].live /\ secrets[t].live /\ secrets[s].owner = secrets[t].owner
          /\ secrets[s].name = secrets[t].name => s = t

\* A provider's catalog that passed its check is the one of its endpoint.
Catalogued ==
    /\ \A r \in Providers : rows[r].checked => rows[r].catalog = rows[r].url
    /\ \A u \in Users : req[u].op = "test" /\ req[u].row \in Providers => req[u].snap.checked
    /\ \A u \in Users : req[u].change \in ChangesOf(req[u].op)

VaultInv == /\ VaultTypes /\ RowLocked /\ SnapFresh /\ RowBlank /\ SnapPoints /\ KeptApart /\ Catalogued
            /\ ReadyIsTested /\ SecretsAreReferenced /\ KeysStayWithTheirRow


\* What a request may do to the vault for row r: other rows' secrets stay as they
\* are, none moves, changes hands or comes back, and keys stay apart.
VaultLaw(r, vault) ==
    /\ vault \in Seq(SecretOf) /\ DOMAIN secrets \subseteq DOMAIN vault
    /\ \A s \in DOMAIN secrets :
          /\ vault[s].name = secrets[s].name /\ vault[s].owner = secrets[s].owner
          /\ vault[s].live => secrets[s].live
          /\ secrets[s].name # r => vault[s] = secrets[s]
    /\ \A s \in DOMAIN vault : s \in DOMAIN secrets \/ vault[s].name = r
    /\ \A s \in DOMAIN vault : vault[s].key[1] = vault[s].name
    /\ \A s, t \in DOMAIN vault :
          vault[s].live /\ vault[t].live /\ vault[s].owner = vault[t].owner
          /\ vault[s].name = vault[t].name => s = t

\* The secret that row r may point at when u leaves it so.
RefLaw(u, r, ref, vault) ==
    /\ ref # 0 => ref \in DOMAIN vault /\ vault[ref].live /\ vault[ref].name = r
    /\ \A s \in DOMAIN vault :
          (vault[s].live /\ vault[s].name = r /\ vault[s].owner = u /\ ~req[u].stale /\ s # ref) => s \in shed

\* The verdict on a provider's row: what ReadyIsTested and Catalogued ask of it.
Verdict(row, vault) ==
    /\ row.checked => row.catalog = row.url
    /\ row.status = "ready" => row.proved = <<row.url, KeyIn(vault, row.ref)>> /\ row.catalog = row.url

\* Secrets stand in a sequence: their places are positive.
LEMMA PlacesPositive ==
    ASSUME VaultTypes
    PROVE  /\ DOMAIN secrets = 1..Len(secrets) /\ Len(secrets) \in Nat /\ 0 \notin DOMAIN secrets
           /\ \A s \in DOMAIN secrets : s \in Nat /\ secrets[s] \in SecretOf
BY DEF VaultTypes

\* A function over the places of the vault is a vault.
LEMMA VaultSeq ==
    ASSUME VaultTypes, NEW f, f = [s \in DOMAIN secrets |-> f[s]], \A s \in DOMAIN secrets : f[s] \in SecretOf
    PROVE  f \in Seq(SecretOf) /\ DOMAIN f = DOMAIN secrets
<1>1. f \in [1..Len(secrets) -> SecretOf] /\ Len(secrets) \in Nat
  BY PlacesPositive
<1> QED BY <1>1, PlacesPositive

\* Leaving the vault alone is lawful.
LEMMA SameVault ==
    ASSUME VaultTypes, KeptApart, NEW r
    PROVE  VaultLaw(r, secrets)
BY PlacesPositive DEF VaultLaw, KeptApart, VaultTypes

\* store_secret adds a secret under a new name or rotates the one of that name;
\* it is then the owner's only one of that name.
LEMMA StoredLawful ==
    ASSUME VaultTypes, KeptApart, NEW u \in Users, NEW r \in Rows, NEW k \in Values
    PROVE  /\ VaultLaw(r, Stored(u, r, <<r, k>>))
           /\ LET ref == RefStored(u, r) v == Stored(u, r, <<r, k>>) IN
              /\ ref \in DOMAIN v /\ ref # 0 /\ v[ref].live /\ v[ref].name = r
              /\ \A s \in DOMAIN v : v[s].live /\ v[s].name = r /\ v[s].owner = u => s = ref
           /\ \A s \in DOMAIN secrets : secrets[s].live => Stored(u, r, <<r, k>>)[s].live
<1> DEFINE v == Stored(u, r, <<r, k>>)
           ref == RefStored(u, r)
<1>0. <<r, k>> \in Keys /\ <<r, k>>[1] = r
  BY DEF Keys
<1>1. CASE Named(u, r) = {}
  <2>1. PICK e : e = [live |-> TRUE, owner |-> u, name |-> r, key |-> <<r, k>>]
    OBVIOUS
  <2>2. e \in SecretOf /\ e.live = TRUE /\ e.owner = u /\ e.name = r /\ e.key = <<r, k>>
    BY <1>0, <2>1 DEF SecretOf
  <2>3. v = Append(secrets, e) /\ ref = Len(secrets) + 1
    BY <1>1, <2>1 DEF Stored, RefStored
  <2> HIDE DEF v, ref
  <2>4. /\ v \in Seq(SecretOf) /\ DOMAIN v = 1..(Len(secrets) + 1) /\ v[ref] = e
        /\ \A s \in DOMAIN secrets : v[s] = secrets[s]
    BY <2>2, <2>3, PlacesPositive DEF VaultTypes
  <2>5. DOMAIN v = DOMAIN secrets \cup {ref} /\ ref # 0 /\ ref \notin DOMAIN secrets
    BY <2>3, <2>4, PlacesPositive
  <2>6. \A s \in DOMAIN secrets : ~(secrets[s].live /\ secrets[s].owner = u /\ secrets[s].name = r)
    BY <1>1 DEF Named
  <2>7. VaultLaw(r, v)
    <3>1. \A s \in DOMAIN v : v[s].key[1] = v[s].name
      BY <1>0, <2>2, <2>4, <2>5 DEF KeptApart
    <3>2. ASSUME NEW s \in DOMAIN v, NEW t \in DOMAIN v, v[s].live, v[t].live,
                 v[s].owner = v[t].owner, v[s].name = v[t].name
          PROVE  s = t
      <4>1. CASE s \in DOMAIN secrets /\ t \in DOMAIN secrets
        BY <2>4, <3>2, <4>1 DEF KeptApart
      <4>2. CASE ~(s \in DOMAIN secrets /\ t \in DOMAIN secrets)
        BY <2>2, <2>4, <2>5, <2>6, <3>2, <4>2
      <4> QED BY <4>1, <4>2
    <3> QED BY <2>2, <2>4, <2>5, <3>1, <3>2 DEF VaultLaw
  <2>8. \A s \in DOMAIN v : v[s].live /\ v[s].name = r /\ v[s].owner = u => s = ref
    BY <2>4, <2>5, <2>6
  <2>9. \A s \in DOMAIN secrets : secrets[s].live => v[s].live
    BY <2>4
  <2>10. ref \in DOMAIN v /\ ref # 0 /\ v[ref].live /\ v[ref].name = r
    BY <2>2, <2>4, <2>5
  <2> QED BY <2>7, <2>8, <2>9, <2>10 DEF v, ref
<1>2. CASE Named(u, r) # {}
  <2>1. ref \in Named(u, r)
    BY <1>2 DEF RefStored
  <2>2. \A s \in Named(u, r) : s = ref
    BY <2>1 DEF Named, KeptApart
  <2>3. v = [s \in DOMAIN secrets |-> IF s \in Named(u, r) THEN [secrets[s] EXCEPT !.key = <<r, k>>]
                                                           ELSE secrets[s]]
    BY <1>2 DEF Stored
  <2>4. ref \in DOMAIN secrets /\ secrets[ref].live /\ secrets[ref].owner = u /\ secrets[ref].name = r
    BY <2>1 DEF Named
  <2> HIDE DEF v, ref
  <2>5. v = [s \in DOMAIN secrets |-> IF s = ref THEN [secrets[ref] EXCEPT !.key = <<r, k>>] ELSE secrets[s]]
    BY <2>1, <2>2, <2>3
  <2>6. PICK e : e = [secrets[ref] EXCEPT !.key = <<r, k>>]
    OBVIOUS
  <2>7. /\ e \in SecretOf /\ (e.live <=> secrets[ref].live) /\ e.owner = secrets[ref].owner
        /\ e.name = secrets[ref].name /\ e.key = <<r, k>>
    BY <1>0, <2>4, <2>6, PlacesPositive DEF SecretOf
  <2>8. /\ v[ref] = e /\ \A s \in DOMAIN secrets : s # ref => v[s] = secrets[s]
        /\ v = [s \in DOMAIN secrets |-> v[s]]
    BY <2>4, <2>5, <2>6
  <2>9. v \in Seq(SecretOf) /\ DOMAIN v = DOMAIN secrets
    BY <2>7, <2>8, VaultSeq, PlacesPositive
  <2>10. \A s \in DOMAIN secrets : /\ v[s].name = secrets[s].name /\ v[s].owner = secrets[s].owner
                                   /\ v[s].live <=> secrets[s].live
                                   /\ secrets[s].name # r => v[s] = secrets[s]
                                   /\ v[s].key[1] = v[s].name
    BY <1>0, <2>4, <2>7, <2>8 DEF KeptApart
  <2>11. VaultLaw(r, v)
    BY <2>9, <2>10 DEF VaultLaw, KeptApart
  <2>12. \A s \in DOMAIN v : v[s].live /\ v[s].name = r /\ v[s].owner = u => s = ref
    BY <2>4, <2>9, <2>10 DEF KeptApart
  <2>13. ref \in DOMAIN v /\ ref # 0 /\ v[ref].live /\ v[ref].name = r
    BY <2>4, <2>9, <2>10, PlacesPositive
  <2> QED BY <2>10, <2>11, <2>12, <2>13 DEF v, ref
<1> QED BY <1>1, <1>2

\* delete_secret kills the secret it is given, if the user may.
LEMMA DroppedLawful ==
    ASSUME VaultTypes, KeptApart, NEW u \in Users, NEW r, NEW d \in DOMAIN secrets, secrets[d].name = r
    PROVE  /\ VaultLaw(r, Dropped(u, d)) /\ DOMAIN Dropped(u, d) = DOMAIN secrets
           /\ \A s \in DOMAIN secrets : s # d => Dropped(u, d)[s] = secrets[s]
           /\ Dropped(u, d)[d].live => secrets[d].owner # u
<1> DEFINE v == Dropped(u, d)
<1>1. v = [t \in DOMAIN secrets |-> IF t = d /\ MayAccess(u, t) THEN [secrets[t] EXCEPT !.live = FALSE]
                                                                ELSE secrets[t]]
  BY DEF Dropped
<1> HIDE DEF v
<1>2. PICK e : e = [secrets[d] EXCEPT !.live = FALSE]
  OBVIOUS
<1>3. /\ e \in SecretOf /\ e.live = FALSE /\ e.owner = secrets[d].owner
      /\ e.name = secrets[d].name /\ e.key = secrets[d].key
  BY <1>2, PlacesPositive DEF SecretOf
<1>4. /\ v[d] = IF MayAccess(u, d) THEN e ELSE secrets[d]
      /\ \A s \in DOMAIN secrets : s # d => v[s] = secrets[s]
      /\ v = [s \in DOMAIN secrets |-> v[s]]
  BY <1>1, <1>2
<1>5. v \in Seq(SecretOf) /\ DOMAIN v = DOMAIN secrets
  BY <1>3, <1>4, VaultSeq, PlacesPositive
<1>6. \A s \in DOMAIN secrets : /\ v[s].name = secrets[s].name /\ v[s].owner = secrets[s].owner
                                /\ v[s].live => secrets[s].live
                                /\ secrets[s].name # r => v[s] = secrets[s]
                                /\ v[s].key[1] = v[s].name
  BY <1>3, <1>4 DEF KeptApart
<1>7. VaultLaw(r, v)
  BY <1>5, <1>6 DEF VaultLaw, KeptApart
<1>8. v[d].live => secrets[d].owner # u
  BY <1>3, <1>4 DEF MayAccess
<1> QED BY <1>4, <1>5, <1>7, <1>8 DEF v

\* The row a commit leaves: the columns its request changed over those it finds.
RowLeft(u, new) == IF new.live THEN Flush(req[u].snap, new, rows[req[u].row]) ELSE new

\* The columns a flush leaves, and that it leaves a row.
LEMMA FlushTyped ==
    ASSUME NEW snap \in RowOf, NEW new \in RowOf, NEW row \in RowOf
    PROVE  /\ Flush(snap, new, row) \in RowOf
           /\ Flush(snap, new, row).ref = Written(snap.ref, new.ref, row.ref)
           /\ Flush(snap, new, row).live = Written(snap.live, new.live, row.live)
BY DEF Flush, Written, RowOf

\* Over the row its request read, a flush leaves what the request computed.
LEMMA FlushFresh ==
    ASSUME NEW snap \in RowOf, NEW new \in RowOf
    PROVE  Flush(snap, new, snap) = new
<1>1. Flush(snap, new, snap) =
        [live |-> new.live, owner |-> new.owner, url |-> new.url, ref |-> new.ref,
         enabled |-> new.enabled, status |-> new.status, catalog |-> new.catalog,
         checked |-> new.checked, proved |-> new.proved]
  BY DEF Flush, Written
<1> QED BY <1>1 DEF RowOf

\* No request is a request.
LEMMA IdleTyped == Idle \in VaultRequests /\ NoRow \in RowOf
<1>1. NoRow \in RowOf
  BY DEF NoRow, RowOf
<1>2. NoChange \in Changes
  BY DEF NoChange, Changes
<1> QED BY <1>1, <1>2 DEF Idle, VaultRequests, Ops

\* A lawful commit keeps the invariant.
LEMMA CommitStep ==
    ASSUME VaultInv, NEW u \in Users, Writing(req[u]), NEW new \in RowOf, NEW vault, NEW key,
           Commit(u, new, vault, key),
           VaultLaw(req[u].row, vault),
           RefLaw(u, req[u].row, RowLeft(u, new).ref, vault),
           new.live => (rows[req[u].row].live \/ ~req[u].snap.live),
           ~new.live => new.ref = 0,
           key = None \/ (key \in Keys /\ key[1] = req[u].row),
           req[u].row \in Providers => Verdict(new, vault)
    PROVE  VaultInv'
<1> DEFINE r == req[u].row
           row == RowLeft(u, new)
<1>0. /\ VaultTypes /\ RowLocked /\ SnapFresh /\ RowBlank /\ SnapPoints /\ KeptApart /\ Catalogued
      /\ ReadyIsTested /\ SecretsAreReferenced /\ KeysStayWithTheirRow
  BY DEF VaultInv
<1>1. r \in Rows /\ req[u] \in VaultRequests /\ rows[r] \in RowOf /\ req[u].snap \in RowOf
  BY <1>0 DEF SnapFresh, Writing, VaultTypes, VaultRequests
<1>2. /\ rows' = [rows EXCEPT ![r] = row] /\ secrets' = vault
      /\ sent' = IF key = None THEN sent ELSE sent \cup {<<r, key>>}
      /\ shed' = shed \cup Left(u, r, row.ref, vault)
      /\ req' = [v \in Users |-> IF v = u THEN Idle
                                 ELSE IF req[v].row = r THEN [req[v] EXCEPT !.stale = TRUE] ELSE req[v]]
      /\ holder' = [holder EXCEPT ![r] = IF holder[r] = u THEN None ELSE holder[r]]
      /\ ops' = ops
  BY DEF Commit, RowLeft
<1>3. /\ row \in RowOf /\ (row.live \/ row.ref = 0)
      /\ r \in Providers => row = new
  <2>1. CASE ~new.live
    BY <2>1 DEF RowLeft
  <2>2. CASE new.live
    <3>1. row = Flush(req[u].snap, new, rows[r])
      BY <2>2 DEF RowLeft
    <3>2. row \in RowOf /\ row.live = Written(req[u].snap.live, new.live, rows[r].live)
      BY <1>1, <3>1, FlushTyped
    <3>3. row.live
      BY <2>2, <3>2 DEF Written
    <3>4. ASSUME r \in Providers PROVE row = new
      <4>1. rows[r] = req[u].snap
        BY <1>0, <3>4 DEF SnapFresh, Writing
      <4> QED BY <1>1, <3>1, <4>1, FlushFresh
    <3> QED BY <3>2, <3>3, <3>4
  <2> QED BY <2>1, <2>2
<1> HIDE DEF row
<1>4. rows' \in [Rows -> RowOf] /\ rows'[r] = row /\ \A t \in Rows \ {r} : rows'[t] = rows[t]
  BY <1>0, <1>1, <1>2, <1>3 DEF VaultTypes
<1>5. \A v \in Users \ {u} :
        /\ req'[v] \in VaultRequests /\ req'[v].op = req[v].op /\ req'[v].row = req[v].row
        /\ req'[v].snap = req[v].snap /\ req'[v].change = req[v].change
        /\ IF req[v].row = r THEN req'[v].stale = TRUE ELSE req'[v] = req[v]
  <2> SUFFICES ASSUME NEW v \in Users \ {u}
               PROVE  /\ req'[v] \in VaultRequests /\ req'[v].op = req[v].op /\ req'[v].row = req[v].row
                      /\ req'[v].snap = req[v].snap /\ req'[v].change = req[v].change
                      /\ IF req[v].row = r THEN req'[v].stale = TRUE ELSE req'[v] = req[v]
    OBVIOUS
  <2>1. req[v] \in VaultRequests /\ req'[v] = IF req[v].row = r THEN [req[v] EXCEPT !.stale = TRUE] ELSE req[v]
    BY <1>0, <1>2 DEF VaultTypes
  <2> QED BY <2>1 DEF VaultRequests
<1>6. req' \in [Users -> VaultRequests] /\ req'[u] = Idle
  <2>1. req'[u] = Idle /\ \A v \in Users : req'[v] \in VaultRequests
    BY <1>2, <1>5, IdleTyped
  <2> QED BY <1>2, <2>1
<1>7. /\ holder' \in [Rows -> Users \cup {None}] /\ \A t \in Rows \ {r} : holder'[t] = holder[t]
      /\ holder'[r] = IF holder[r] = u THEN None ELSE holder[r]
  BY <1>0, <1>1, <1>2 DEF VaultTypes
<1>8. /\ vault \in Seq(SecretOf) /\ DOMAIN secrets \subseteq DOMAIN vault
      /\ Left(u, r, row.ref, vault) \subseteq DOMAIN vault
  BY DEF VaultLaw, Left
<1>9. VaultTypes'
  <2>1. sent' \subseteq Rows \X Keys
    BY <1>0, <1>1, <1>2 DEF VaultTypes
  <2>2. shed' \subseteq DOMAIN secrets'
    BY <1>0, <1>2, <1>8 DEF VaultTypes
  <2> QED BY <1>0, <1>2, <1>4, <1>6, <1>7, <1>8, <2>1, <2>2 DEF VaultTypes
<1>10. r \in Providers => holder[r] = u
  BY <1>0 DEF RowLocked
<1>11. ~Writing(Idle) /\ Idle.op = "none" /\ Idle.change = NoChange
  BY DEF Writing, Idle
<1>12. RowLocked'
  <2>1. ASSUME NEW v \in Users, Writing(req'[v]), req'[v].row \in Providers
        PROVE  holder'[req'[v].row] = v /\ v \in Admins
    <3>1. v # u /\ Writing(req[v]) /\ req'[v].row = req[v].row
      BY <1>5, <1>6, <1>11, <2>1 DEF Writing
    <3>2. holder[req[v].row] = v /\ v \in Admins /\ req[v].row \in Rows
      BY <1>0, <2>1, <3>1, VaultAssumption DEF RowLocked
    <3> QED BY <1>7, <1>10, <2>1, <3>1, <3>2
  <2>2. ASSUME NEW t \in Rows, holder'[t] # None
        PROVE  t \in Providers /\ Writing(req'[holder'[t]]) /\ req'[holder'[t]].row = t
    <3>1. holder'[t] = holder[t] /\ holder[t] # u
      BY <1>0, <1>1, <1>7, <2>2 DEF RowLocked
    <3>2. holder[t] \in Users \ {u} /\ t \in Providers /\ Writing(req[holder[t]]) /\ req[holder[t]].row = t
      BY <1>0, <2>2, <3>1 DEF RowLocked, VaultTypes
    <3> QED BY <1>5, <3>1, <3>2 DEF Writing
  <2> QED BY <2>1, <2>2 DEF RowLocked
<1>13. SnapFresh'
  <2> SUFFICES ASSUME NEW v \in Users, req'[v].op # "none"
               PROVE  /\ req'[v].row \in Rows /\ (req'[v].snap.live <=> req'[v].op # "create")
                      /\ Writing(req'[v]) /\ (~req'[v].stale \/ req'[v].row \in Providers)
                            => rows'[req'[v].row] = req'[v].snap
    BY DEF SnapFresh
  <2>1. /\ v \in Users \ {u} /\ req'[v].op = req[v].op /\ req'[v].row = req[v].row
        /\ req'[v].snap = req[v].snap /\ (Writing(req'[v]) <=> Writing(req[v]))
    BY <1>5, <1>6, <1>11 DEF Writing
  <2>2. req[v].row \in Rows /\ (req[v].snap.live <=> req[v].op # "create")
    BY <1>0, <2>1 DEF SnapFresh
  <2>3. CASE req[v].row = r
    <3>1. req'[v].stale /\ ~(Writing(req[v]) /\ r \in Providers)
      BY <1>0, <1>5, <1>10, <2>1, <2>3 DEF RowLocked
    <3> QED BY <2>1, <2>2, <2>3, <3>1
  <2>4. CASE req[v].row # r
    <3>1. req'[v] = req[v] /\ rows'[req[v].row] = rows[req[v].row]
      BY <1>4, <1>5, <2>1, <2>2, <2>4
    <3> QED BY <1>0, <2>1, <2>2, <3>1 DEF SnapFresh
  <2> QED BY <2>3, <2>4
<1>14. RowBlank'
  BY <1>0, <1>3, <1>4 DEF RowBlank
<1>15. SnapPoints'
  <2> SUFFICES ASSUME NEW v \in Users, req'[v].op # "none", req'[v].snap.ref # 0
               PROVE  /\ req'[v].snap.ref \in DOMAIN secrets'
                      /\ secrets'[req'[v].snap.ref].name = req'[v].row
    BY DEF SnapPoints
  <2>1. v \in Users \ {u} /\ req'[v].op = req[v].op /\ req'[v].row = req[v].row /\ req'[v].snap = req[v].snap
    BY <1>5, <1>6, <1>11
  <2>2. req[v].snap.ref \in DOMAIN secrets /\ secrets[req[v].snap.ref].name = req[v].row
    BY <1>0, <2>1 DEF SnapPoints
  <2> QED BY <1>2, <1>8, <2>1, <2>2 DEF VaultLaw
<1>16. KeptApart'
  BY <1>2 DEF KeptApart, VaultLaw
<1>17. Catalogued'
  <2>1. \A t \in Providers : rows'[t].checked => rows'[t].catalog = rows'[t].url
    BY <1>0, <1>3, <1>4, VaultAssumption DEF Catalogued, Verdict
  <2>2. \A v \in Users : req'[v].op = "test" /\ req'[v].row \in Providers => req'[v].snap.checked
    BY <1>0, <1>5, <1>6, <1>11 DEF Catalogued
  <2>3. \A v \in Users : req'[v].change \in ChangesOf(req'[v].op)
    <3>1. NoChange \in ChangesOf("none")
      BY DEF ChangesOf
    <3> QED BY <1>0, <1>5, <1>6, <1>11, <3>1 DEF Catalogued
  <2> QED BY <2>1, <2>2, <2>3 DEF Catalogued
<1>18. ReadyIsTested'
  <2> SUFFICES ASSUME NEW t \in Providers, rows'[t].status = "ready"
               PROVE  /\ rows'[t].proved = <<rows'[t].url, KeyIn(secrets', rows'[t].ref)>>
                      /\ rows'[t].catalog = rows'[t].url
    BY DEF ReadyIsTested
  <2>1. CASE t = r
    BY <1>2, <1>3, <1>4, <2>1 DEF Verdict
  <2>2. CASE t # r
    <3>1. t \in Rows /\ rows'[t] = rows[t]
      BY <1>4, <2>2, VaultAssumption
    <3>2. rows[t].proved = <<rows[t].url, KeyIn(secrets, rows[t].ref)>> /\ rows[t].catalog = rows[t].url
      BY <1>0, <3>1 DEF ReadyIsTested
    <3>3. KeyIn(vault, rows[t].ref) = KeyIn(secrets, rows[t].ref)
      <4>1. CASE rows[t].ref = 0
        BY <4>1 DEF KeyIn
      <4>2. CASE rows[t].ref # 0
        <5>1. rows[t].ref \in DOMAIN secrets /\ secrets[rows[t].ref].name = t
          BY <1>0, <3>1, <4>2 DEF SecretsAreReferenced, Held
        <5>2. vault[rows[t].ref] = secrets[rows[t].ref]
          BY <2>2, <5>1 DEF VaultLaw
        <5> QED BY <4>2, <5>2 DEF KeyIn
      <4> QED BY <4>1, <4>2
    <3> QED BY <1>2, <3>1, <3>2, <3>3
  <2> QED BY <2>1, <2>2
<1>19. SecretsAreReferenced'
  <2>1. ASSUME NEW t \in Rows, rows'[t].ref # 0
        PROVE  rows'[t].ref \in DOMAIN vault /\ vault[rows'[t].ref].live /\ vault[rows'[t].ref].name = t
    <3>1. CASE t = r
      BY <1>4, <2>1, <3>1 DEF RefLaw, row
    <3>2. CASE t # r
      <4>1. rows'[t].ref \in DOMAIN secrets /\ secrets[rows'[t].ref].live /\ secrets[rows'[t].ref].name = t
        BY <1>0, <1>4, <2>1, <3>2 DEF SecretsAreReferenced, Held
      <4> QED BY <1>8, <3>2, <4>1 DEF VaultLaw
    <3> QED BY <3>1, <3>2
  <2>2. ASSUME NEW s \in DOMAIN vault, vault[s].live
        PROVE  rows'[vault[s].name].ref = s \/ s \in shed'
    <3>1. CASE vault[s].name = r
      <4>1. CASE row.ref = s
        BY <1>4, <3>1, <4>1
      <4>2. CASE row.ref # s /\ (vault[s].owner # u \/ req[u].stale)
        BY <1>2, <2>2, <3>1, <4>2 DEF Left
      <4>3. CASE row.ref # s /\ vault[s].owner = u /\ ~req[u].stale
        BY <1>2, <2>2, <3>1, <4>3 DEF RefLaw, row
      <4> QED BY <4>1, <4>2, <4>3
    <3>2. CASE vault[s].name # r
      <4>1. s \in DOMAIN secrets /\ vault[s] = secrets[s]
        BY <3>2 DEF VaultLaw
      <4>2. secrets[s].name \in Rows /\ (rows[secrets[s].name].ref = s \/ s \in shed)
        BY <1>0, <2>2, <4>1, PlacesPositive DEF SecretsAreReferenced, Held, SecretOf
      <4> QED BY <1>2, <1>4, <3>2, <4>1, <4>2
    <3> QED BY <3>1, <3>2
  <2> QED BY <1>2, <2>1, <2>2 DEF SecretsAreReferenced, Held
<1>20. KeysStayWithTheirRow'
  BY <1>0, <1>2 DEF KeysStayWithTheirRow
<1> QED BY <1>9, <1>12, <1>13, <1>14, <1>15, <1>16, <1>17, <1>18, <1>19, <1>20 DEF VaultInv

\* A request that is ready to write is on a row, as it read it or found there.
LEMMA ReadyFacts ==
    ASSUME VaultInv, NEW u \in Users, NEW op, Writing([op |-> op]), NEW kind \in BOOLEAN, Ready(u, op, kind)
    PROVE  /\ req[u].op = op /\ Writing(req[u]) /\ req[u].row \in Rows /\ req[u] \in VaultRequests
           /\ rows[req[u].row] \in RowOf /\ req[u].snap \in RowOf /\ req[u].change \in ChangesOf(op)
           /\ req[u].change \in Changes
           /\ (kind <=> req[u].row \in Providers) /\ (op # "create" => rows[req[u].row].live /\ req[u].snap.live)
           /\ op = "create" => ~req[u].snap.live
           /\ (req[u].row \in Providers \/ ~req[u].stale) => rows[req[u].row] = req[u].snap
           /\ req[u].row \in Providers => u \in Admins
<1>1. req[u].op = op /\ Writing(req[u]) /\ op # "none" /\ (kind <=> req[u].row \in Providers)
  BY DEF Ready, Writing
<1>2. req[u] \in VaultRequests /\ req[u].row \in Rows /\ req[u].snap \in RowOf /\ req[u].change \in Changes
  BY <1>1 DEF VaultInv, VaultTypes, VaultRequests, SnapFresh
<1>3. rows[req[u].row] \in RowOf
  BY <1>2 DEF VaultInv, VaultTypes
<1>4. /\ (req[u].snap.live <=> op # "create")
      /\ (req[u].row \in Providers \/ ~req[u].stale) => rows[req[u].row] = req[u].snap
  BY <1>1 DEF VaultInv, SnapFresh
<1>5. req[u].change \in ChangesOf(op) /\ (req[u].row \in Providers => u \in Admins)
  BY <1>1 DEF VaultInv, Catalogued, RowLocked
<1>6. op # "create" => rows[req[u].row].live
  BY DEF Ready
<1> QED BY <1>1, <1>2, <1>3, <1>4, <1>5, <1>6

\* A live secret of the row a request read is the row's or was left behind.
LEMMA SecretOfRow ==
    ASSUME VaultInv, NEW u \in Users, req[u].row \in Rows, rows[req[u].row] = req[u].snap,
           NEW s \in DOMAIN secrets, secrets[s].live, secrets[s].name = req[u].row
    PROVE  s = req[u].snap.ref \/ s \in shed
BY DEF VaultInv, SecretsAreReferenced, Held

\* What a change of the key does to the vault and to the row's reference to it.
LEMMA ChangeLawful ==
    ASSUME VaultInv, NEW u \in Users, NEW op \in {"create", "update"}, NEW kind \in BOOLEAN, Ready(u, op, kind),
           NEW ref, ref = RefChanged(u, IF op = "create" THEN 0 ELSE req[u].snap.ref)
    PROVE  /\ VaultLaw(req[u].row, Vault(u)) /\ ref \in Nat
           /\ RefLaw(u, req[u].row, Written(req[u].snap.ref, ref, rows[req[u].row].ref), Vault(u))
           /\ KeyIn(Vault(u), ref) = None
                 \/ (KeyIn(Vault(u), ref) \in Keys /\ KeyIn(Vault(u), ref)[1] = req[u].row)
<1> DEFINE r == req[u].row
           snap == req[u].snap
           c == req[u].change
           left == Written(snap.ref, ref, rows[r].ref)
<1>0. Writing([op |-> op])
  BY DEF Writing
<1>1. /\ r \in Rows /\ c \in Changes /\ c \in ChangesOf(op) /\ snap \in RowOf /\ rows[r] \in RowOf
      /\ (~req[u].stale => rows[r] = snap) /\ req[u].op = op
      /\ op = "create" => ~snap.live
  BY <1>0, ReadyFacts
<1>2. /\ c.auth \in Values \cup {None, Clear} /\ snap.ref \in Nat
      /\ op = "create" => c.auth # Clear
  BY <1>1 DEF Changes, RowOf, ChangesOf
<1>3. /\ VaultTypes /\ KeptApart
      /\ snap.ref # 0 => snap.ref \in DOMAIN secrets /\ secrets[snap.ref].name = r
      /\ rows[r].ref # 0 => rows[r].ref \in DOMAIN secrets /\ secrets[rows[r].ref].live
                            /\ secrets[rows[r].ref].name = r
  BY <1>1 DEF VaultInv, SnapPoints, SecretsAreReferenced, Held
<1>4. op = "create" /\ ~req[u].stale => snap.ref = 0
  BY <1>1 DEF VaultInv, RowBlank
<1>5. \A s \in DOMAIN secrets :
         (secrets[s].live /\ secrets[s].name = r /\ ~req[u].stale) => s = snap.ref \/ s \in shed
  BY <1>1, SecretOfRow
<1>6. CASE c.auth \in Values
  <2>1. c.auth # Clear /\ c.auth # None
    BY <1>6, VaultAssumption
  <2>2. Vault(u) = Stored(u, r, <<r, c.auth>>) /\ ref = RefStored(u, r)
    BY <1>6, <2>1 DEF Vault, RefChanged
  <2>3. /\ VaultLaw(r, Vault(u))
        /\ ref \in DOMAIN Vault(u) /\ ref # 0 /\ Vault(u)[ref].live /\ Vault(u)[ref].name = r
        /\ \A s \in DOMAIN Vault(u) : Vault(u)[s].live /\ Vault(u)[s].name = r /\ Vault(u)[s].owner = u => s = ref
        /\ \A s \in DOMAIN secrets : secrets[s].live => Vault(u)[s].live
    BY <1>1, <1>3, <1>6, <2>2, StoredLawful
  <2>4. ref \in Nat /\ Vault(u)[ref].key \in Keys /\ Vault(u)[ref].key[1] = r
    <3>1. Vault(u) \in Seq(SecretOf) /\ Vault(u)[ref].key[1] = r
      BY <2>3 DEF VaultLaw
    <3>2. ref \in Nat /\ Vault(u)[ref] \in SecretOf
      BY <2>3, <3>1
    <3> QED BY <3>1, <3>2 DEF SecretOf
  <2>5. left # 0 => left \in DOMAIN Vault(u) /\ Vault(u)[left].live /\ Vault(u)[left].name = r
    BY <1>3, <2>3 DEF VaultLaw, Written
  <2>6. ~req[u].stale => left = ref
    BY <1>1 DEF Written
  <2>7. RefLaw(u, r, left, Vault(u))
    BY <2>3, <2>5, <2>6 DEF RefLaw
  <2> QED BY <2>3, <2>4, <2>7 DEF KeyIn
<1>7. CASE c.auth = None \/ (c.auth = Clear /\ snap.ref = 0)
  <2>1. Vault(u) = secrets /\ ref = IF op = "create" THEN 0 ELSE snap.ref
    BY <1>2, <1>7, VaultAssumption DEF Vault, RefChanged
  <2>2. VaultLaw(r, secrets)
    BY <1>3, SameVault
  <2>3. left = 0 \/ left = rows[r].ref
    BY <2>1 DEF Written
  <2>4. ~req[u].stale => left = snap.ref
    BY <1>1, <1>4, <2>1 DEF Written
  <2>5. RefLaw(u, r, left, secrets)
    BY <1>3, <1>5, <2>3, <2>4 DEF RefLaw
  <2>6. ref \in Nat /\ (KeyIn(secrets, ref) = None \/ (KeyIn(secrets, ref) \in Keys /\ KeyIn(secrets, ref)[1] = r))
    BY <1>2, <1>3, <2>1, PlacesPositive DEF KeyIn, KeptApart, SecretOf
  <2> QED BY <2>1, <2>2, <2>5, <2>6
<1>8. CASE c.auth = Clear /\ snap.ref # 0
  <2>1. Vault(u) = Dropped(u, snap.ref) /\ ref = 0
    BY <1>8, VaultAssumption DEF Vault, RefChanged
  <2>2. left = 0
    BY <1>8, <2>1 DEF Written
  <2>3. /\ VaultLaw(r, Vault(u)) /\ DOMAIN Vault(u) = DOMAIN secrets
        /\ \A s \in DOMAIN secrets : s # snap.ref => Vault(u)[s] = secrets[s]
        /\ Vault(u)[snap.ref].live => secrets[snap.ref].owner # u
    BY <1>3, <1>8, <2>1, DroppedLawful
  <2>4. RefLaw(u, r, left, Vault(u))
    <3>1. ASSUME NEW s \in DOMAIN Vault(u), Vault(u)[s].live, Vault(u)[s].name = r, Vault(u)[s].owner = u,
                 ~req[u].stale
          PROVE  s \in shed
      <4>1. s \in DOMAIN secrets /\ secrets[s].live /\ secrets[s].name = r /\ secrets[s].owner = u
        BY <2>3, <3>1 DEF VaultLaw
      <4>2. s # snap.ref
        BY <2>3, <3>1, <4>1
      <4> QED BY <1>5, <3>1, <4>1, <4>2
    <3> QED BY <2>2, <3>1 DEF RefLaw
  <2> QED BY <2>1, <2>3, <2>4, SMTT(30) DEF KeyIn
<1> QED BY <1>2, <1>6, <1>7, <1>8

\* A probe leaves the row's columns but its status, catalog and check.
LEMMA DiscoveredRow ==
    ASSUME NEW row \in RowOf, NEW ok \in BOOLEAN
    PROVE  /\ Discovered(row, ok) \in RowOf /\ Discovered(row, ok).ref = row.ref
           /\ (Discovered(row, ok).live <=> row.live)
           /\ Discovered(row, ok).status # "ready"
           /\ Discovered(row, ok).checked => Discovered(row, ok).catalog = Discovered(row, ok).url
<1>1. CASE ok
  <2>1. PICK e : e = [row EXCEPT !.status = "reachable", !.catalog = row.url, !.checked = TRUE]
    OBVIOUS
  <2>2. e \in RowOf /\ e.ref = row.ref /\ (e.live <=> row.live) /\ e.status = "reachable" /\ e.catalog = e.url
    BY <2>1 DEF RowOf
  <2> QED BY <1>1, <2>1, <2>2 DEF Discovered
<1>2. CASE ~ok
  <2>1. PICK e : e = [row EXCEPT !.status = "error", !.checked = FALSE]
    OBVIOUS
  <2>2. e \in RowOf /\ e.ref = row.ref /\ (e.live <=> row.live) /\ e.status = "error" /\ e.checked = FALSE
    BY <2>1 DEF RowOf
  <2> QED BY <1>2, <2>1, <2>2 DEF Discovered
<1> QED BY <1>1, <1>2

\* The row of a registration.
LEMMA CreatedRow ==
    ASSUME NEW u \in Users, req[u].change \in ChangesOf("create"), RefChanged(u, 0) \in Nat
    PROVE  Created(u) \in RowOf /\ Created(u).live /\ Created(u).ref = RefChanged(u, 0)
           /\ Created(u).status # "ready" /\ ~Created(u).checked
<1>1. req[u].change.url \in Urls
  BY DEF ChangesOf, Changes
<1>2. NoRow \in RowOf /\ NoRow.status = "unknown" /\ NoRow.checked = FALSE
  BY IdleTyped DEF NoRow
<1>3. PICK e : e = [NoRow EXCEPT !.live = TRUE, !.owner = u, !.url = req[u].change.url, !.ref = RefChanged(u, 0)]
  OBVIOUS
<1>4. /\ e \in RowOf /\ e.live = TRUE /\ e.ref = RefChanged(u, 0)
      /\ e.status = NoRow.status /\ e.checked = NoRow.checked
  BY <1>1, <1>2, <1>3 DEF RowOf
<1> QED BY <1>2, <1>3, <1>4 DEF Created

\* The row of an update.
LEMMA UpdatedRow ==
    ASSUME NEW u \in Users, req[u].snap \in RowOf, req[u].change \in Changes,
           RefChanged(u, req[u].snap.ref) \in Nat
    PROVE  /\ Updated(u) \in RowOf /\ (Updated(u).live <=> req[u].snap.live)
           /\ Updated(u).ref = RefChanged(u, req[u].snap.ref)
           /\ Updated(u).status = req[u].snap.status /\ Updated(u).catalog = req[u].snap.catalog
           /\ (Updated(u).checked <=> req[u].snap.checked) /\ Updated(u).proved = req[u].snap.proved
           /\ req[u].change.url = None => Updated(u).url = req[u].snap.url
<1> DEFINE url == IF req[u].change.url = None THEN req[u].snap.url ELSE req[u].change.url
           on == (req[u].snap.enabled # req[u].change.toggle)
           ref == RefChanged(u, req[u].snap.ref)
<1>1. Updated(u) = [req[u].snap EXCEPT !.url = url, !.enabled = on, !.ref = ref]
  BY DEF Updated
<1>2. url \in Urls \cup {None} /\ on \in BOOLEAN /\ ref \in Nat
        /\ (req[u].change.url = None => url = req[u].snap.url)
  BY DEF RowOf, Changes
<1> HIDE DEF url, on, ref
<1>3. PICK e : e = [req[u].snap EXCEPT !.url = url, !.enabled = on, !.ref = ref]
  OBVIOUS
<1>4. /\ e \in RowOf /\ (e.live <=> req[u].snap.live) /\ e.ref = ref /\ e.url = url
      /\ e.status = req[u].snap.status /\ e.catalog = req[u].snap.catalog
      /\ (e.checked <=> req[u].snap.checked) /\ e.proved = req[u].snap.proved
  BY <1>2, <1>3 DEF RowOf
<1> QED BY <1>1, <1>2, <1>3, <1>4 DEF ref

\* The reference of the row a commit leaves.
LEMMA RefLeft ==
    ASSUME VaultInv, NEW u \in Users, req[u].row \in Rows, NEW new \in RowOf, new.live
    PROVE  RowLeft(u, new).ref = Written(req[u].snap.ref, new.ref, rows[req[u].row].ref)
<1>1. req[u].snap \in RowOf /\ rows[req[u].row] \in RowOf
  BY DEF VaultInv, VaultTypes, VaultRequests
<1> QED BY <1>1, FlushTyped DEF RowLeft

\* Registering a provider or an MCP server.
LEMMA CreateSteps ==
    ASSUME VaultInv, NEW u \in Users, NEW ok \in BOOLEAN, CreateProvider(u, ok) \/ RegisterServer(u)
    PROVE  VaultInv'
<1>0. Writing([op |-> "create"])
  BY DEF Writing
<1>1. PICK kind \in BOOLEAN : /\ Ready(u, "create", kind)
                              /\ kind <=> CreateProvider(u, ok)
  BY DEF CreateProvider, RegisterServer, Ready
<1>2. PICK ref : ref = RefChanged(u, IF "create" = "create" THEN 0 ELSE req[u].snap.ref)
  OBVIOUS
<1>3. ref = RefChanged(u, 0)
  BY <1>2
<1>4. /\ Writing(req[u]) /\ req[u].row \in Rows /\ req[u].change \in ChangesOf("create")
      /\ ~req[u].snap.live /\ (kind <=> req[u].row \in Providers)
  BY <1>0, <1>1, ReadyFacts
<1>5. /\ VaultLaw(req[u].row, Vault(u)) /\ ref \in Nat
      /\ RefLaw(u, req[u].row, Written(req[u].snap.ref, ref, rows[req[u].row].ref), Vault(u))
      /\ KeyIn(Vault(u), ref) = None
            \/ (KeyIn(Vault(u), ref) \in Keys /\ KeyIn(Vault(u), ref)[1] = req[u].row)
  BY <1>1, <1>2, ChangeLawful
<1>6. /\ Created(u) \in RowOf /\ Created(u).live /\ Created(u).ref = ref
      /\ Created(u).status # "ready" /\ ~Created(u).checked
  BY <1>3, <1>4, <1>5, CreatedRow
<1>7. CASE CreateProvider(u, ok)
  <2>1. PICK new : new = Discovered(Created(u), ok)
    OBVIOUS
  <2>2. /\ new \in RowOf /\ new.ref = ref /\ new.live /\ new.status # "ready"
        /\ new.checked => new.catalog = new.url
    BY <1>6, <2>1, DiscoveredRow
  <2>3. Commit(u, new, Vault(u), KeyIn(Vault(u), ref))
    BY <1>6, <1>7, <2>1 DEF CreateProvider
  <2>4. RefLaw(u, req[u].row, RowLeft(u, new).ref, Vault(u)) /\ Verdict(new, Vault(u))
    BY <1>4, <1>5, <2>2, RefLeft DEF Verdict
  <2> QED BY <1>4, <1>5, <2>2, <2>3, <2>4, CommitStep
<1>8. CASE RegisterServer(u) /\ ~CreateProvider(u, ok)
  <2>1. Commit(u, Created(u), Vault(u), None)
    BY <1>8 DEF RegisterServer
  <2>2. RefLaw(u, req[u].row, RowLeft(u, Created(u)).ref, Vault(u)) /\ req[u].row \notin Providers
    BY <1>1, <1>4, <1>5, <1>6, <1>8, RefLeft
  <2> QED BY <1>4, <1>5, <1>6, <2>1, <2>2, CommitStep
<1> QED BY <1>7, <1>8

\* Updating either: a provider's verdict survives only a change of nothing it is about.
LEMMA UpdateSteps ==
    ASSUME VaultInv, NEW u \in Users, NEW ok \in BOOLEAN, UpdateProvider(u, ok) \/ UpdateServer(u)
    PROVE  VaultInv'
<1>0. Writing([op |-> "update"])
  BY DEF Writing
<1>1. PICK kind \in BOOLEAN : /\ Ready(u, "update", kind)
                              /\ kind <=> UpdateProvider(u, ok)
  BY DEF UpdateProvider, UpdateServer, Ready
<1>2. PICK ref : ref = RefChanged(u, IF "update" = "create" THEN 0 ELSE req[u].snap.ref)
  OBVIOUS
<1>3. ref = RefChanged(u, req[u].snap.ref)
  BY <1>2
<1>4. /\ Writing(req[u]) /\ req[u].row \in Rows /\ req[u].change \in Changes /\ req[u].snap \in RowOf
      /\ req[u].snap.live /\ rows[req[u].row].live /\ (kind <=> req[u].row \in Providers)
      /\ kind => rows[req[u].row] = req[u].snap
  BY <1>0, <1>1, ReadyFacts
<1>5. /\ VaultLaw(req[u].row, Vault(u)) /\ ref \in Nat
      /\ RefLaw(u, req[u].row, Written(req[u].snap.ref, ref, rows[req[u].row].ref), Vault(u))
      /\ KeyIn(Vault(u), ref) = None
            \/ (KeyIn(Vault(u), ref) \in Keys /\ KeyIn(Vault(u), ref)[1] = req[u].row)
  BY <1>1, <1>2, ChangeLawful
<1>6. /\ Updated(u) \in RowOf /\ Updated(u).live /\ Updated(u).ref = ref
      /\ Updated(u).status = req[u].snap.status /\ Updated(u).catalog = req[u].snap.catalog
      /\ (Updated(u).checked <=> req[u].snap.checked) /\ Updated(u).proved = req[u].snap.proved
      /\ req[u].change.url = None => Updated(u).url = req[u].snap.url
  BY <1>3, <1>4, <1>5, UpdatedRow
<1>7. CASE UpdateProvider(u, ok) /\ Reprobes(u)
  <2>1. PICK new : new = Discovered(Updated(u), ok)
    OBVIOUS
  <2>2. /\ new \in RowOf /\ new.ref = ref /\ new.live /\ new.status # "ready"
        /\ new.checked => new.catalog = new.url
    BY <1>6, <2>1, DiscoveredRow
  <2>3. Commit(u, new, Vault(u), KeyIn(Vault(u), ref))
    BY <1>6, <1>7, <2>1 DEF UpdateProvider
  <2>4. RefLaw(u, req[u].row, RowLeft(u, new).ref, Vault(u)) /\ Verdict(new, Vault(u))
    BY <1>4, <1>5, <2>2, RefLeft DEF Verdict
  <2> QED BY <1>4, <1>5, <2>2, <2>3, <2>4, CommitStep
<1>8. CASE UpdateServer(u) \/ (UpdateProvider(u, ok) /\ ~Reprobes(u))
  <2>1. Commit(u, Updated(u), Vault(u), None)
    BY <1>8 DEF UpdateServer, UpdateProvider
  <2>2. RefLaw(u, req[u].row, RowLeft(u, Updated(u)).ref, Vault(u))
    BY <1>4, <1>5, <1>6, RefLeft
  <2>3. ASSUME req[u].row \in Providers PROVE Verdict(Updated(u), Vault(u))
    <3>1. UpdateProvider(u, ok) /\ ~Reprobes(u)
      BY <1>8, <2>3 DEF UpdateServer, Ready
    <3>2. Vault(u) = secrets /\ ref = req[u].snap.ref /\ req[u].change.url = None
      BY <1>3, <3>1, VaultAssumption DEF Reprobes, Vault, RefChanged
    <3>3. Verdict(req[u].snap, secrets)
      BY <1>1, <1>4, <2>3 DEF VaultInv, Catalogued, ReadyIsTested, Verdict
    <3> QED BY <1>6, <3>2, <3>3 DEF Verdict
  <2> QED BY <1>4, <1>5, <1>6, <2>1, <2>2, <2>3, CommitStep
<1> QED BY <1>7, <1>8

\* What a commit that leaves the key alone may leave.
LEMMA KeyKept ==
    ASSUME VaultInv, NEW u \in Users, Writing(req[u]), req[u].row \in Rows, rows[req[u].row].live,
           ~req[u].stale => rows[req[u].row] = req[u].snap,
           NEW new \in RowOf, new.live, new.ref = req[u].snap.ref
    PROVE  VaultLaw(req[u].row, secrets) /\ RefLaw(u, req[u].row, RowLeft(u, new).ref, secrets)
<1>1. VaultTypes /\ KeptApart
  BY DEF VaultInv
<1>2. RowLeft(u, new).ref = rows[req[u].row].ref
  BY RefLeft DEF Written
<1>3. \A s \in DOMAIN secrets :
        (secrets[s].live /\ secrets[s].name = req[u].row) => rows[req[u].row].ref = s \/ s \in shed
  BY DEF VaultInv, SecretsAreReferenced, Held
<1>4. rows[req[u].row].ref # 0 =>
        /\ rows[req[u].row].ref \in DOMAIN secrets /\ secrets[rows[req[u].row].ref].live
        /\ secrets[rows[req[u].row].ref].name = req[u].row
  BY DEF VaultInv, SecretsAreReferenced, Held
<1>5. RefLaw(u, req[u].row, rows[req[u].row].ref, secrets)
  BY <1>3, <1>4 DEF RefLaw
<1> QED BY <1>1, <1>2, <1>5, SameVault

\* A key that a request reads is one of its row.
LEMMA KeyRead ==
    ASSUME VaultInv, NEW u \in Users, req[u].op # "none", NEW key,
           key \in {KeyIn(secrets, req[u].snap.ref), Plaintext(u, req[u].snap.ref)}
    PROVE  key = None \/ (key \in Keys /\ key[1] = req[u].row)
<1>1. VaultTypes /\ KeptApart
  BY DEF VaultInv
<1>2. req[u].snap.ref # 0 => /\ req[u].snap.ref \in DOMAIN secrets
                            /\ secrets[req[u].snap.ref].name = req[u].row
  BY DEF VaultInv, SnapPoints
<1>3. CASE req[u].snap.ref = 0
  BY <1>1, <1>3, PlacesPositive DEF KeyIn, Plaintext, Held
<1>4. CASE req[u].snap.ref # 0
  <2>1. secrets[req[u].snap.ref].key \in Keys /\ secrets[req[u].snap.ref].key[1] = req[u].row
    BY <1>1, <1>2, <1>4, PlacesPositive DEF KeptApart, SecretOf
  <2> QED BY <1>4, <2>1 DEF KeyIn, Plaintext
<1> QED BY <1>3, <1>4

\* Refreshing a provider's catalog.
LEMMA RefreshStep ==
    ASSUME VaultInv, NEW u \in Users, NEW ok \in BOOLEAN, RefreshProvider(u, ok)
    PROVE  VaultInv'
<1>0. /\ Writing([op |-> "refresh"]) /\ req[u].row \in Providers
      /\ \E kind \in BOOLEAN : Ready(u, "refresh", kind)
  BY DEF Writing, RefreshProvider, Ready
<1>1. /\ Writing(req[u]) /\ req[u].row \in Rows /\ req[u].snap \in RowOf /\ req[u].op = "refresh"
      /\ req[u].snap.live /\ rows[req[u].row].live /\ rows[req[u].row] = req[u].snap
  BY <1>0, ReadyFacts
<1>2. PICK new : new = Discovered(req[u].snap, ok)
  OBVIOUS
<1>3. /\ new \in RowOf /\ new.ref = req[u].snap.ref /\ new.live /\ Verdict(new, secrets)
  BY <1>1, <1>2, DiscoveredRow DEF Verdict
<1>4. PICK key : key = KeyIn(secrets, req[u].snap.ref)
  OBVIOUS
<1>5. Commit(u, new, secrets, key)
  BY <1>2, <1>4 DEF RefreshProvider
<1>6. key = None \/ (key \in Keys /\ key[1] = req[u].row)
  BY <1>1, <1>4, KeyRead
<1>7. VaultLaw(req[u].row, secrets) /\ RefLaw(u, req[u].row, RowLeft(u, new).ref, secrets)
  BY <1>1, <1>3, KeyKept
<1> QED BY <1>1, <1>3, <1>5, <1>6, <1>7, CommitStep

\* Testing a provider: under the lock, at the endpoint and with the key it has.
LEMMA TestProviderStep ==
    ASSUME VaultInv, NEW u \in Users, NEW ok \in BOOLEAN, TestProvider(u, ok)
    PROVE  VaultInv'
<1>0. /\ Writing([op |-> "test"]) /\ req[u].row \in Providers
      /\ \E kind \in BOOLEAN : Ready(u, "test", kind)
  BY DEF Writing, TestProvider, Ready
<1>1. /\ Writing(req[u]) /\ req[u].row \in Rows /\ req[u].snap \in RowOf /\ req[u].op = "test"
      /\ req[u].snap.live /\ rows[req[u].row].live /\ rows[req[u].row] = req[u].snap
      /\ req[u].row \in Providers /\ u \in Admins
  BY <1>0, ReadyFacts
<1>2. PICK key : key = Plaintext(u, req[u].snap.ref)
  OBVIOUS
<1>3. key = None \/ (key \in Keys /\ key[1] = req[u].row)
  BY <1>1, <1>2, KeyRead
<1>4. key = KeyIn(secrets, req[u].snap.ref)
  <2>1. CASE req[u].snap.ref = 0
    BY <1>2, <2>1, PlacesPositive DEF VaultInv, KeyIn, Plaintext, Held
  <2>2. CASE req[u].snap.ref # 0
    BY <1>1, <1>2, <2>2 DEF VaultInv, SecretsAreReferenced, KeyIn, Plaintext, MayAccess
  <2> QED BY <2>1, <2>2
<1>5. req[u].snap.checked /\ req[u].snap.catalog = req[u].snap.url
  BY <1>1 DEF VaultInv, Catalogued
<1>6. PICK new : new = Tested(req[u].snap, key, ok)
  OBVIOUS
<1>7. new \in RowOf /\ new.ref = req[u].snap.ref /\ new.live /\ Verdict(new, secrets)
  <2>1. CASE ok
    <3>1. PICK e : e = [req[u].snap EXCEPT !.status = "ready", !.checked = TRUE,
                                           !.proved = <<req[u].snap.url, key>>]
      OBVIOUS
    <3>2. <<req[u].snap.url, key>> \in (Urls \cup {None}) \X (Keys \cup {None})
      BY <1>1, <1>3 DEF RowOf
    <3>3. /\ e \in RowOf /\ e.ref = req[u].snap.ref /\ (e.live <=> req[u].snap.live) /\ e.url = req[u].snap.url
          /\ e.catalog = req[u].snap.catalog /\ e.proved = <<req[u].snap.url, key>>
      BY <1>1, <3>1, <3>2 DEF RowOf
    <3> QED BY <1>1, <1>4, <1>5, <1>6, <2>1, <3>1, <3>3 DEF Tested, Verdict
  <2>2. CASE ~ok
    <3>1. PICK e : e = [req[u].snap EXCEPT !.status = "error", !.checked = TRUE]
      OBVIOUS
    <3>2. /\ e \in RowOf /\ e.ref = req[u].snap.ref /\ (e.live <=> req[u].snap.live) /\ e.url = req[u].snap.url
          /\ e.catalog = req[u].snap.catalog /\ e.status = "error"
      BY <1>1, <3>1 DEF RowOf
    <3> QED BY <1>1, <1>5, <1>6, <2>2, <3>1, <3>2 DEF Tested, Verdict
  <2> QED BY <2>1, <2>2
<1>8. Commit(u, new, secrets, key)
  BY <1>2, <1>6 DEF TestProvider
<1>9. VaultLaw(req[u].row, secrets) /\ RefLaw(u, req[u].row, RowLeft(u, new).ref, secrets)
  BY <1>1, <1>7, KeyKept
<1> QED BY <1>1, <1>3, <1>7, <1>8, <1>9, CommitStep

\* Testing an MCP server, without a lock.
LEMMA TestServerStep ==
    ASSUME VaultInv, NEW u \in Users, NEW ok \in BOOLEAN, NEW listed \in BOOLEAN, TestServer(u, ok, listed)
    PROVE  VaultInv'
<1>0. /\ Writing([op |-> "test"]) /\ req[u].row \notin Providers
      /\ \E kind \in BOOLEAN : Ready(u, "test", kind)
  BY DEF Writing, TestServer, Ready
<1>1. /\ Writing(req[u]) /\ req[u].row \in Rows /\ req[u].snap \in RowOf /\ req[u].op = "test"
      /\ req[u].snap.live /\ rows[req[u].row].live /\ req[u].row \notin Providers
      /\ ~req[u].stale => rows[req[u].row] = req[u].snap
  BY <1>0, ReadyFacts
<1>2. PICK key : key = Plaintext(u, req[u].snap.ref)
  OBVIOUS
<1>3. key = None \/ (key \in Keys /\ key[1] = req[u].row)
  BY <1>1, <1>2, KeyRead
<1>4. PICK new : new = Probed(req[u].snap, ok, listed)
  OBVIOUS
<1>5. new \in RowOf /\ new.ref = req[u].snap.ref /\ new.live
  <2>1. \A c \in Urls \cup {None} : LET e == [req[u].snap EXCEPT !.status = "ready", !.catalog = c] IN
          e \in RowOf /\ e.ref = req[u].snap.ref /\ (e.live <=> req[u].snap.live)
    BY <1>1 DEF RowOf
  <2>2. LET e == [req[u].snap EXCEPT !.status = "error"] IN
          e \in RowOf /\ e.ref = req[u].snap.ref /\ (e.live <=> req[u].snap.live)
    BY <1>1 DEF RowOf
  <2>3. (IF listed THEN req[u].snap.url ELSE None) \in Urls \cup {None}
    BY <1>1 DEF RowOf
  <2> QED BY <1>1, <1>4, <2>1, <2>2, <2>3 DEF Probed
<1>6. Commit(u, new, secrets, key)
  BY <1>2, <1>4 DEF TestServer
<1>7. VaultLaw(req[u].row, secrets) /\ RefLaw(u, req[u].row, RowLeft(u, new).ref, secrets)
  BY <1>1, <1>5, KeyKept
<1> QED BY <1>1, <1>3, <1>5, <1>6, <1>7, CommitStep

\* Deleting a provider or a server: the secret it read goes, then the row.
LEMMA DeleteSteps ==
    ASSUME VaultInv, NEW u \in Users, DeleteProvider(u) \/ DeleteServer(u)
    PROVE  VaultInv'
<1>0. Writing([op |-> "delete"]) /\ \E kind \in BOOLEAN : Ready(u, "delete", kind)
  BY DEF Writing, DeleteProvider, DeleteServer
<1>1. /\ Writing(req[u]) /\ req[u].row \in Rows /\ req[u].snap \in RowOf /\ req[u].op = "delete"
      /\ ~req[u].stale => rows[req[u].row] = req[u].snap
  BY <1>0, ReadyFacts
<1>2. Commit(u, Deleted(u), VaultWithout(u), None)
  BY DEF DeleteProvider, DeleteServer
<1>3. PICK new : new = Deleted(u)
  OBVIOUS
<1>4. new \in RowOf /\ ~new.live /\ new.ref = 0 /\ new.status = "unknown" /\ ~new.checked
  <2>1. NoRow \in RowOf /\ ~NoRow.live /\ NoRow.ref = 0 /\ NoRow.status = "unknown" /\ ~NoRow.checked
    BY IdleTyped DEF NoRow
  <2>2. new = [NoRow EXCEPT !.owner = req[u].snap.owner] /\ req[u].snap.owner \in Users \cup {None}
    BY <1>1, <1>3 DEF Deleted, RowOf
  <2> QED BY <2>1, <2>2 DEF RowOf
<1>5. RowLeft(u, new).ref = 0 /\ Verdict(new, VaultWithout(u))
  BY <1>4 DEF RowLeft, Verdict
<1>6. VaultTypes /\ KeptApart
  BY DEF VaultInv
<1>7. CASE req[u].snap.ref = 0
  <2>1. VaultWithout(u) = secrets /\ VaultLaw(req[u].row, secrets)
    BY <1>6, <1>7, SameVault DEF VaultWithout
  <2>2. ASSUME NEW s \in DOMAIN secrets, secrets[s].live, secrets[s].name = req[u].row, ~req[u].stale
        PROVE  s \in shed
    BY <1>1, <1>6, <1>7, <2>2, SecretOfRow, PlacesPositive
  <2>3. RefLaw(u, req[u].row, 0, secrets)
    BY <2>2 DEF RefLaw
  <2> QED BY <1>1, <1>2, <1>3, <1>4, <1>5, <2>1, <2>3, CommitStep
<1>8. CASE req[u].snap.ref # 0
  <2>1. req[u].snap.ref \in DOMAIN secrets /\ secrets[req[u].snap.ref].name = req[u].row
    BY <1>1, <1>8 DEF VaultInv, SnapPoints
  <2>2. PICK v : v = VaultWithout(u)
    OBVIOUS
  <2>3. /\ VaultLaw(req[u].row, v) /\ DOMAIN v = DOMAIN secrets
        /\ \A s \in DOMAIN secrets : s # req[u].snap.ref => v[s] = secrets[s]
        /\ v[req[u].snap.ref].live => secrets[req[u].snap.ref].owner # u
    BY <1>6, <1>8, <2>1, <2>2, DroppedLawful DEF VaultWithout
  <2>4. ASSUME NEW s \in DOMAIN v, v[s].live, v[s].name = req[u].row, v[s].owner = u, ~req[u].stale
        PROVE  s \in shed
    <3>1. s \in DOMAIN secrets /\ secrets[s].live /\ secrets[s].name = req[u].row /\ secrets[s].owner = u
      BY <2>3, <2>4 DEF VaultLaw
    <3>2. s # req[u].snap.ref
      BY <2>3, <2>4, <3>1
    <3> QED BY <1>1, <2>4, <3>1, <3>2, SecretOfRow
  <2>5. RefLaw(u, req[u].row, 0, v)
    BY <2>4 DEF RefLaw
  <2> QED BY <1>1, <1>2, <1>3, <1>4, <1>5, <2>2, <2>3, <2>5, CommitStep
<1> QED BY <1>7, <1>8

\* What a request is admitted for.
LEMMA AdmittedFor ==
    ASSUME NEW u \in Users, NEW r \in Rows, NEW op \in Ops \ {"none"}, Admitted(u, r, op),
           NEW change \in ChangesOf(op)
    PROVE  /\ rows[r].live <=> op # "create"
           /\ (op # "use" /\ r \in Providers) => u \in Admins
           /\ (op = "test" /\ r \in Providers) => rows[r].checked
           /\ change \in Changes
<1>1. change \in Changes
  <2>1. NoChange \in Changes
    BY DEF NoChange, Changes
  <2>2. CASE op = "create"
    BY <2>2 DEF ChangesOf
  <2>3. CASE op = "update"
    BY <2>3 DEF ChangesOf
  <2>4. CASE op \notin {"create", "update"}
    BY <2>1, <2>4 DEF ChangesOf
  <2> QED BY <2>2, <2>3, <2>4
<1>2. CASE op = "create"
  BY <1>1, <1>2 DEF Admitted, Unregistered
<1>3. CASE op = "use"
  BY <1>1, <1>3 DEF Admitted
<1>4. CASE op = "test"
  BY <1>1, <1>4 DEF Admitted, MayManage, Testable
<1>5. CASE op \in {"update", "refresh", "delete"}
  BY <1>1, <1>5 DEF Admitted, MayManage
<1> QED BY <1>2, <1>3, <1>4, <1>5 DEF Ops

\* A request reads its row and locks a provider's.
LEMMA VaultBeginStep ==
    ASSUME VaultInv, NEW u \in Users, NEW r \in Rows, NEW op \in Ops \ {"none"}, NEW change \in ChangesOf(op),
           Begin(u, r, op, change)
    PROVE  VaultInv'
<1>0. /\ VaultTypes /\ RowLocked /\ SnapFresh /\ RowBlank /\ SnapPoints /\ KeptApart /\ Catalogued
      /\ ReadyIsTested /\ SecretsAreReferenced /\ KeysStayWithTheirRow
  BY DEF VaultInv
<1>1. /\ (rows[r].live <=> op # "create") /\ ((op # "use" /\ r \in Providers) => u \in Admins)
      /\ ((op = "test" /\ r \in Providers) => rows[r].checked) /\ change \in Changes
  BY AdmittedFor DEF Begin
<1>2. PICK q : q = [op |-> op, row |-> r, snap |-> rows[r], change |-> change, stale |-> FALSE]
  OBVIOUS
<1>3. /\ q \in VaultRequests /\ q.op = op /\ q.row = r /\ q.snap = rows[r] /\ q.change = change
      /\ (Writing(q) <=> op # "use")
  BY <1>0, <1>1, <1>2 DEF VaultRequests, VaultTypes, Writing
<1>4. /\ req[u] = Idle /\ req' = [req EXCEPT ![u] = q] /\ UNCHANGED <<rows, secrets, sent, shed>>
      /\ holder' = [holder EXCEPT ![r] = IF r \in Providers /\ op # "use" THEN u ELSE holder[r]]
      /\ (r \in Providers /\ op # "use") => holder[r] = None
      /\ ops' = ops + 1 /\ ops < MaxOps
  BY <1>2 DEF Begin, LockFree
<1>5. /\ req' \in [Users -> VaultRequests] /\ req'[u] = q /\ \A v \in Users \ {u} : req'[v] = req[v]
      /\ holder' \in [Rows -> Users \cup {None}] /\ \A t \in Rows \ {r} : holder'[t] = holder[t]
      /\ holder'[r] = IF r \in Providers /\ op # "use" THEN u ELSE holder[r]
  BY <1>0, <1>3, <1>4 DEF VaultTypes
<1>6. VaultTypes'
  <2>1. ops' \in 0..MaxOps
    BY <1>0, <1>4, VaultAssumption DEF VaultTypes
  <2> QED BY <1>0, <1>4, <1>5, <2>1 DEF VaultTypes
<1>7. ~Writing(req[u])
  BY <1>4 DEF Writing, Idle
<1>8. RowLocked'
  <2>1. ASSUME NEW v \in Users, Writing(req'[v]), req'[v].row \in Providers
        PROVE  holder'[req'[v].row] = v /\ v \in Admins
    <3>1. CASE v = u
      BY <1>1, <1>3, <1>5, <2>1, <3>1
    <3>2. CASE v # u
      <4>1. holder[req[v].row] = v /\ v \in Admins /\ req'[v] = req[v] /\ req[v].row \in Rows
        BY <1>0, <1>5, <2>1, <3>2, VaultAssumption DEF RowLocked
      <4> QED BY <1>4, <1>5, <2>1, <4>1, VaultAssumption
    <3> QED BY <3>1, <3>2
  <2>2. ASSUME NEW t \in Rows, holder'[t] # None
        PROVE  t \in Providers /\ Writing(req'[holder'[t]]) /\ req'[holder'[t]].row = t
    <3>1. CASE t = r /\ r \in Providers /\ op # "use"
      BY <1>3, <1>5, <3>1
    <3>2. CASE ~(t = r /\ r \in Providers /\ op # "use")
      <4>1. holder'[t] = holder[t]
        BY <1>5, <3>2
      <4>2. t \in Providers /\ Writing(req[holder[t]]) /\ req[holder[t]].row = t /\ holder[t] \in Users
        BY <1>0, <2>2, <4>1 DEF RowLocked, VaultTypes
      <4> QED BY <1>5, <1>7, <4>1, <4>2
    <3> QED BY <3>1, <3>2
  <2> QED BY <2>1, <2>2 DEF RowLocked
<1>9. SnapFresh'
  <2> SUFFICES ASSUME NEW v \in Users, req'[v].op # "none"
               PROVE  /\ req'[v].row \in Rows /\ (req'[v].snap.live <=> req'[v].op # "create")
                      /\ Writing(req'[v]) /\ (~req'[v].stale \/ req'[v].row \in Providers)
                            => rows'[req'[v].row] = req'[v].snap
    BY DEF SnapFresh
  <2>1. CASE v = u
    BY <1>1, <1>3, <1>4, <1>5, <2>1
  <2>2. CASE v # u
    BY <1>0, <1>4, <1>5, <2>2 DEF SnapFresh
  <2> QED BY <2>1, <2>2
<1>10. SnapPoints'
  <2>1. rows[r].ref # 0 => rows[r].ref \in DOMAIN secrets /\ secrets[rows[r].ref].name = r
    BY <1>0 DEF SecretsAreReferenced, Held
  <2> QED BY <1>0, <1>3, <1>4, <1>5, <2>1 DEF SnapPoints
<1>11. Catalogued'
  BY <1>0, <1>1, <1>3, <1>4, <1>5 DEF Catalogued
<1>12. (RowBlank /\ KeptApart /\ ReadyIsTested /\ SecretsAreReferenced /\ KeysStayWithTheirRow)'
  BY <1>0, <1>4 DEF RowBlank, KeptApart, ReadyIsTested, SecretsAreReferenced, KeysStayWithTheirRow, Held, KeyIn
<1> QED BY <1>6, <1>8, <1>9, <1>10, <1>11, <1>12 DEF VaultInv

\* A request ends without writing: it used a key, or rolled back and gave its lock up.
LEMMA EndStep ==
    ASSUME VaultInv, NEW u \in Users, req[u].op # "none", UNCHANGED <<rows, secrets, shed, ops>>,
           req' = [req EXCEPT ![u] = Idle], NEW key, key = None \/ (key \in Keys /\ key[1] = req[u].row),
           sent' = IF key = None THEN sent ELSE sent \cup {<<req[u].row, key>>},
           \/ req[u].op = "use" /\ UNCHANGED holder
           \/ holder' = [holder EXCEPT ![req[u].row] = IF holder[req[u].row] = u THEN None ELSE holder[req[u].row]]
    PROVE  VaultInv'
<1>0. /\ VaultTypes /\ RowLocked /\ SnapFresh /\ RowBlank /\ SnapPoints /\ KeptApart /\ Catalogued
      /\ ReadyIsTested /\ SecretsAreReferenced /\ KeysStayWithTheirRow
  BY DEF VaultInv
<1>1. req[u].row \in Rows
  BY <1>0 DEF SnapFresh
<1>2. /\ req' \in [Users -> VaultRequests] /\ req'[u] = Idle /\ \A v \in Users \ {u} : req'[v] = req[v]
  BY <1>0, IdleTyped DEF VaultTypes
<1>3. \A t \in Rows : /\ holder'[t] \in Users \cup {None}
                      /\ holder'[t] = holder[t] \/ (holder[t] = u /\ holder'[t] = None)
                      /\ holder'[t] # u
  <2>1. CASE req[u].op = "use" /\ UNCHANGED holder
    <3>1. ~Writing(req[u])
      BY <2>1 DEF Writing
    <3> QED BY <1>0, <2>1, <3>1, VaultAssumption DEF RowLocked, VaultTypes
  <2>2. CASE holder' = [holder EXCEPT ![req[u].row] = IF holder[req[u].row] = u THEN None ELSE holder[req[u].row]]
    BY <1>0, <1>1, <2>2, VaultAssumption DEF RowLocked, VaultTypes
  <2> QED BY <2>1, <2>2
<1>4. Idle.op = "none" /\ ~Writing(Idle) /\ Idle.change = NoChange /\ NoChange \in ChangesOf("none")
  BY DEF Idle, Writing, ChangesOf
<1>5. VaultTypes'
  <2>1. sent' \subseteq Rows \X Keys
    BY <1>0, <1>1 DEF VaultTypes
  <2>2. holder' \in [Rows -> Users \cup {None}]
    BY <1>0, <1>1, <1>3 DEF VaultTypes
  <2> QED BY <1>0, <1>2, <2>1, <2>2 DEF VaultTypes
<1>6. RowLocked'
  BY <1>0, <1>2, <1>3, <1>4, VaultAssumption DEF RowLocked, VaultTypes
<1>7. SnapFresh'
  BY <1>0, <1>2, <1>4 DEF SnapFresh
<1>8. SnapPoints' /\ Catalogued'
  BY <1>0, <1>2, <1>4 DEF SnapPoints, Catalogued
<1>9. KeysStayWithTheirRow'
  BY <1>0 DEF KeysStayWithTheirRow
<1>10. (RowBlank /\ KeptApart /\ ReadyIsTested /\ SecretsAreReferenced)'
  BY <1>0 DEF RowBlank, KeptApart, ReadyIsTested, SecretsAreReferenced, Held, KeyIn
<1> QED BY <1>5, <1>6, <1>7, <1>8, <1>9, <1>10 DEF VaultInv

\* A route and a tool call send the key they read.
LEMMA UseSteps ==
    ASSUME VaultInv, NEW u \in Users, Route(u) \/ CallTool(u)
    PROVE  VaultInv'
<1>1. PICK key \in {None, CredentialOf(u)} : Use(u, key) /\ req[u].op = "use"
  BY DEF Route, CallTool
<1>2. key = None \/ (key \in Keys /\ key[1] = req[u].row)
  BY <1>1, KeyRead DEF CredentialOf
<1>3. /\ UNCHANGED <<rows, secrets, shed, ops, holder>> /\ req' = [req EXCEPT ![u] = Idle]
      /\ sent' = IF key = None THEN sent ELSE sent \cup {<<req[u].row, key>>}
  BY <1>1 DEF Use
<1> QED BY <1>1, <1>2, <1>3, EndStep

\* A rolled back request leaves nothing but its lock.
LEMMA RollBackStep ==
    ASSUME VaultInv, NEW u \in Users, RollBack(u)
    PROVE  VaultInv'
<1>1. /\ UNCHANGED <<rows, secrets, shed, ops>> /\ req' = [req EXCEPT ![u] = Idle] /\ sent' = sent
      /\ holder' = [holder EXCEPT ![req[u].row] = IF holder[req[u].row] = u THEN None ELSE holder[req[u].row]]
      /\ req[u].op # "none"
  BY DEF RollBack
<1>2. PICK key : key = None
  OBVIOUS
<1> QED BY <1>1, <1>2, EndStep

\* Providers' verdicts, references to secrets and the keys that were sent stay sound
\* however requests overlap (llm_providers_service, mcp_servers_service, secrets_service),
\* for any number of users, rows and keys.
THEOREM CredentialsSound == Spec => []CredentialsAreSound
<1>1. Init => VaultInv
  <2> SUFFICES ASSUME Init PROVE VaultInv
    OBVIOUS
  <2>1. VaultTypes
    BY IdleTyped, VaultAssumption DEF Init, VaultTypes
  <2>2. \A u \in Users : req[u].op = "none" /\ ~Writing(req[u]) /\ req[u].change = NoChange
    BY DEF Init, Idle, Writing
  <2>3. \A r \in Rows : /\ rows[r].ref = 0 /\ rows[r].status = "unknown" /\ rows[r].checked = FALSE
                        /\ holder[r] = None
    BY DEF Init, NoRow
  <2>4. DOMAIN secrets = {}
    BY DEF Init
  <2>5. NoChange \in ChangesOf("none")
    BY DEF ChangesOf
  <2>6. RowLocked /\ SnapFresh /\ RowBlank /\ SnapPoints /\ KeptApart /\ Catalogued
    BY <2>2, <2>3, <2>4, <2>5, VaultAssumption DEF RowLocked, SnapFresh, RowBlank, SnapPoints, KeptApart, Catalogued
  <2>7. ReadyIsTested /\ SecretsAreReferenced /\ KeysStayWithTheirRow
    BY <2>3, <2>4, VaultAssumption DEF ReadyIsTested, SecretsAreReferenced, KeysStayWithTheirRow, Init
  <2> QED BY <2>1, <2>6, <2>7 DEF VaultInv
<1>2. VaultInv /\ [Next]_vars => VaultInv'
  <2> SUFFICES ASSUME VaultInv, [Next]_vars PROVE VaultInv'
    OBVIOUS
  <2>1. CASE UNCHANGED vars
    BY <2>1 DEF VaultInv, VaultTypes, RowLocked, SnapFresh, RowBlank, SnapPoints, KeptApart, Catalogued,
       ReadyIsTested, SecretsAreReferenced, KeysStayWithTheirRow, Held, KeyIn, Writing, vars
  <2>2. CASE Next
    <3>1. PICK u \in Users :
            \/ \E r \in Rows, op \in Ops \ {"none"} : \E change \in ChangesOf(op) : Begin(u, r, op, change)
            \/ \E ok \in BOOLEAN : \/ CreateProvider(u, ok) \/ UpdateProvider(u, ok)
                                   \/ RefreshProvider(u, ok) \/ TestProvider(u, ok)
            \/ \E ok, listed \in BOOLEAN : TestServer(u, ok, listed)
            \/ DeleteProvider(u) \/ RegisterServer(u) \/ UpdateServer(u) \/ DeleteServer(u)
            \/ Route(u) \/ CallTool(u) \/ RollBack(u)
      BY <2>2, Zenon DEF Next
    <3>2. TRUE \in BOOLEAN
      OBVIOUS
    <3> QED BY <3>1, <3>2, VaultBeginStep, CreateSteps, UpdateSteps, RefreshStep, TestProviderStep, TestServerStep,
               DeleteSteps, UseSteps, RollBackStep
  <2> QED BY <2>1, <2>2
<1>3. VaultInv => CredentialsAreSound
  <2> SUFFICES ASSUME VaultInv PROVE CredentialsAreSound
    OBVIOUS
  <2>1. TypeOK
    <3>1. \A u \in Users : /\ req[u].op \in Ops /\ req[u].snap \in RowOf /\ req[u].change \in Changes
                           /\ req[u].row \in Rows \cup {None} /\ req[u].stale \in BOOLEAN
      BY DEF VaultInv, VaultTypes, VaultRequests
    <3>2. \A r \in Rows : holder[r] # None => req[holder[r]].row = r
      BY DEF VaultInv, RowLocked
    <3> QED BY <3>1, <3>2, PlacesPositive DEF VaultInv, VaultTypes, TypeOK
  <2> QED BY <2>1 DEF VaultInv, CredentialsAreSound
<1> QED BY <1>1, <1>2, <1>3, PTL DEF Spec

-----------------------------------------------------------------------------
(* The sandbox runner.  Where an execution stands says what may still be     *)
(* alive in its container: Leftover.                                         *)

RunnerTypes ==
    /\ box \in [Generations -> Boxes] /\ processes \subseteq ResultKeys
    /\ job \in Jobs \cup {NoJob} /\ stopped \subseteq ResultKeys

\* Code runs in a running container.
Housed == \A k \in processes : Running(Generation(k))

\* Until it starts its code and once it is settled, an execution has no process; a
\* cleanup that could not see the container left it to the expired deadline.
Unfinished == {"run", "classify", "collect", "clean"}
Leftover ==
    \/ unremoved
    \/ ~Locked /\ processes = {}
    \/ Locked /\ processes \subseteq {job.key} /\ job.pc \in Unfinished
    \/ Locked /\ processes = {}
    \/ Locked /\ processes \subseteq {job.key} /\ job.expired
       /\ (job.pc = "except" \/ (job.pc = "settle" /\ ~job.raised))

\* An exception leads to the finally and except clauses at once.
Late == {"clean", "except", "settle", "remember"}
RaisedLate == Locked /\ job.raised => job.pc \in Late

\* The only timer is the one of the execution under the lock, until it is joined.
TimersOfTheJob ==
    /\ misfires = {}
    /\ \A k \in timers : Locked /\ job.key = k /\ job.pc # "remember"

\* Nothing a teardown stopped runs, and its container does not come back under the lock.
StoppedStays ==
    \A k \in stopped : k \notin processes /\ (Locked /\ job.key = k => ~Running(Generation(k)))

RunnerInv == RunnerTypes /\ Housed /\ Leftover /\ RaisedLate /\ TimersOfTheJob /\ StoppedStays

\* A job under the lock is one.
LEMMA JobLocked ==
    ASSUME RunnerTypes, Locked
    PROVE  job \in Jobs /\ job.key \in ResultKeys /\ Mine \in Generations
<1>1. job \in Jobs
  BY DEF RunnerTypes, Locked
<1> QED BY <1>1 DEF Jobs, Mine, Generation, ResultKeys

\* Containers that go take their processes with them, and no other starts.
LEMMA Destroyed ==
    ASSUME RunnerTypes, Housed, NEW gens, Destroy(gens) \/ Keep
    PROVE  /\ box' \in [Generations -> Boxes] /\ processes' \subseteq processes /\ Housed'
           /\ \A g \in Generations : box'[g] = "running" => box[g] = "running"
           /\ Destroy(gens) => \A k \in processes' : Generation(k) \notin gens
<1>1. \A k \in processes : Generation(k) \in Generations
  BY DEF RunnerTypes, ResultKeys, Generation
<1>2. CASE Keep
  BY <1>2 DEF Keep, RunnerTypes, Housed, Running, Destroy
<1>3. CASE Destroy(gens)
  <2>1. /\ box' \in [Generations -> Boxes] /\ processes' \subseteq processes
        /\ \A g \in Generations : box'[g] = IF g \in gens THEN "absent" ELSE box[g]
        /\ \A k \in processes' : Generation(k) \notin gens
    BY <1>3 DEF Destroy, RunnerTypes, Boxes
  <2>2. Housed'
    BY <1>1, <2>1 DEF Housed, Running
  <2> QED BY <2>1, <2>2
<1> QED BY <1>2, <1>3

\* A step of the execution under the lock that starts nothing.
LEMMA LockedStep ==
    ASSUME RunnerInv, Locked, job' \in Jobs, job'.key = job.key,
           box' \in [Generations -> Boxes], processes' \subseteq processes, Housed',
           \A g \in Generations : box'[g] = "running" => box[g] = "running",
           stopped' = stopped, misfires' = misfires, timers' \subseteq timers,
           job'.pc = "remember" => job.key \notin timers', job'.raised => job'.pc \in Late, Leftover'
    PROVE  RunnerInv'
<1>1. /\ job' # NoJob /\ job.key \in ResultKeys /\ Locked'
      /\ \A k \in ResultKeys : Generation(k) \in Generations
  BY NoJobAssumption, JobLocked DEF RunnerInv, Locked, ResultKeys, Generation
<1>2. RunnerTypes'
  BY DEF RunnerInv, RunnerTypes
<1>3. TimersOfTheJob'
  BY <1>1 DEF RunnerInv, TimersOfTheJob
<1>4. StoppedStays'
  BY <1>1 DEF RunnerInv, StoppedStays, Running, RunnerTypes
<1> QED BY <1>2, <1>3, <1>4 DEF RunnerInv, RaisedLate

\* The steps that leave the containers alone but for the processes they kill.
LEMMA QuietStep ==
    ASSUME RunnerInv, Locked, job' \in Jobs, job'.key = job.key, job'.pc # "remember",
           UNCHANGED <<box, timers, stopped, misfires>>, processes' \subseteq processes,
           job'.raised => job'.pc \in Late, Leftover'
    PROVE  RunnerInv'
<1>1. box' \in [Generations -> Boxes] /\ Housed'
  BY DEF RunnerInv, RunnerTypes, Housed, Running
<1> QED BY <1>1, LockedStep

\* An execution that ran before: what its process may be.
LEMMA OwnProcess ==
    ASSUME RunnerInv, Locked
    PROVE  unremoved \/ processes \subseteq {job.key}
BY DEF RunnerInv, Leftover, Locked

\* A process of the execution is in a running container.
LEMMA NoneWithout ==
    ASSUME RunnerInv, Locked, ~Running(Mine)
    PROVE  unremoved \/ processes = {}
<1>1. \A k \in processes : Generation(k) # Mine
  BY DEF RunnerInv, Housed
<1> QED BY <1>1, OwnProcess DEF Mine

\* Preparation: nothing has run yet.
LEMMA PrepareSteps ==
    ASSUME RunnerInv, Snapshot \/ InstallPackages
    PROVE  RunnerInv'
<1>1. Locked /\ job \in Jobs /\ job.pc \in {"snapshot", "prepare"} /\ Keep /\ UNCHANGED <<StepVars, unremoved>>
  BY JobLocked DEF RunnerInv, Snapshot, InstallPackages, At
<1>2. \/ \E p \in {"prepare", "stage"} : job' = [job EXCEPT !.pc = p]
      \/ \E p \in {"except", "clean"} : job' = [job EXCEPT !.pc = p, !.raised = TRUE]
  BY DEF Snapshot, InstallPackages, Acquire, Now, Raise
<1>3. /\ job' \in Jobs /\ job'.key = job.key /\ job'.pc \in {"prepare", "stage", "except", "clean"}
      /\ job'.raised => job'.pc \in Late
  <2>1. ~job.raised
    BY <1>1 DEF RunnerInv, RaisedLate, Late
  <2> QED BY <1>1, <1>2, <2>1 DEF Jobs, Late
<1>4. unremoved \/ processes = {}
  BY <1>1 DEF RunnerInv, Leftover, Unfinished
<1>5. Leftover'
  BY <1>1, <1>3, <1>4, NoJobAssumption DEF Leftover, Keep, StepVars, Locked
<1> QED BY <1>1, <1>3, <1>5, QuietStep DEF Keep, StepVars

\* The code starts, in a container that no teardown has removed.
LEMMA StageStep ==
    ASSUME RunnerInv, Stage
    PROVE  RunnerInv'
<1>1. Locked /\ job \in Jobs /\ job.pc = "stage" /\ UNCHANGED <<StepVars, unremoved>> /\ job.key \in ResultKeys
  BY JobLocked DEF RunnerInv, Stage, At
<1>2. unremoved \/ processes = {}
  BY <1>1 DEF RunnerInv, Leftover, Unfinished
<1>3. CASE Raise("clean") /\ Keep
  <2>1. job' \in Jobs /\ job'.key = job.key /\ job'.pc = "clean" /\ job'.pc \in Late
    BY <1>1, <1>3 DEF Raise, Jobs, Late
  <2>2. Leftover'
    BY <1>1, <1>2, <1>3, <2>1, NoJobAssumption DEF Leftover, Keep, StepVars, Locked
  <2> QED BY <1>1, <1>3, <2>1, <2>2, QuietStep DEF Keep, StepVars
<1>4. CASE Running(Mine) /\ Now("run") /\ processes' = processes \cup {job.key} /\ UNCHANGED box
  <2>1. job' \in Jobs /\ job'.key = job.key /\ job'.pc = "run" /\ job' # NoJob /\ (job'.raised <=> job.raised)
    BY <1>1, <1>4, NoJobAssumption DEF Now, Jobs
  <2>2. RunnerTypes'
    BY <1>1, <1>4, <2>1 DEF RunnerInv, RunnerTypes, StepVars
  <2>3. Housed'
    BY <1>4 DEF RunnerInv, Housed, Running, Mine
  <2>4. Leftover'
    BY <1>1, <1>2, <1>4, <2>1 DEF Leftover, Locked, Unfinished
  <2>5. TimersOfTheJob'
    BY <1>1, <2>1 DEF RunnerInv, TimersOfTheJob, StepVars, Locked
  <2>6. StoppedStays'
    BY <1>1, <1>4, <2>1 DEF RunnerInv, StoppedStays, StepVars, Locked, Running, Mine
  <2>7. RaisedLate'
    BY <1>1, <2>1 DEF RunnerInv, RaisedLate, Late
  <2> QED BY <2>2, <2>3, <2>4, <2>5, <2>6, <2>7 DEF RunnerInv
<1> QED BY <1>3, <1>4 DEF Stage

\* The code ended or raised: its descendants may live.
LEMMA AfterRunSteps ==
    ASSUME RunnerInv, RunEnds \/ Classify
    PROVE  RunnerInv'
<1>1. Locked /\ job \in Jobs /\ job.pc \in {"run", "classify"} /\ Keep /\ UNCHANGED <<StepVars, unremoved>>
  BY JobLocked DEF RunnerInv, RunEnds, Classify, At
<1>2. \A o \in Outcomes : o[1] \in ResultStates /\ o[2] \in BOOLEAN
  <2>1. \A s \in ResultStates, l \in BOOLEAN : <<s, l>>[1] \in ResultStates /\ <<s, l>>[2] \in BOOLEAN
    OBVIOUS
  <2>2. \A o \in Outcomes : \E s \in ResultStates, l \in BOOLEAN : o = <<s, l>>
    BY Zenon DEF Outcomes, ResultStates
  <2> QED BY <2>1, <2>2
<1>0. ~job.raised
  BY <1>1 DEF RunnerInv, RaisedLate, Late
<1>3. /\ job' \in Jobs /\ job'.key = job.key /\ job'.pc \in {"classify", "collect", "clean"}
      /\ job'.raised => job'.pc \in Late
  <2>1. CASE \E o \in Outcomes : job' = [job EXCEPT !.pc = "collect", !.status = o[1], !.limit = o[2]]
    <3>1. PICK o \in Outcomes : job' = [job EXCEPT !.pc = "collect", !.status = o[1], !.limit = o[2]]
      BY <2>1
    <3> QED BY <1>0, <1>1, <1>2, <3>1 DEF Jobs
  <2>2. CASE job' = [job EXCEPT !.pc = "classify"]
    BY <1>0, <1>1, <2>2 DEF Jobs
  <2>3. CASE job' = [job EXCEPT !.pc = "collect", !.status = "killed"]
    BY <1>0, <1>1, <2>3 DEF Jobs, ResultStates
  <2>4. CASE job' = [job EXCEPT !.pc = "clean", !.raised = TRUE]
    BY <1>1, <2>4 DEF Jobs, Late
  <2> QED BY <2>1, <2>2, <2>3, <2>4 DEF RunEnds, Classify, Now, Raise
<1>4. Leftover'
  BY <1>1, <1>3, OwnProcess, NoJobAssumption DEF Leftover, Keep, Unfinished, Locked
<1> QED BY <1>1, <1>3, <1>4, QuietStep DEF Keep, StepVars

\* Outputs are collected after the cleanup.
LEMMA CollectStep ==
    ASSUME RunnerInv, Collect
    PROVE  RunnerInv'
<1>1. Locked /\ job \in Jobs /\ job.pc = "collect" /\ UNCHANGED <<StepVars, unremoved>> /\ box' = box
  BY JobLocked DEF RunnerInv, Collect, At, Keep
<1>2. CASE Running(Mine) /\ Raise("clean") /\ Keep
  <2>1. job' \in Jobs /\ job'.key = job.key /\ job'.pc = "clean" /\ job'.pc \in Late
    BY <1>1, <1>2 DEF Raise, Jobs, Late
  <2>2. Leftover'
    BY <1>1, <1>2, <2>1, OwnProcess, NoJobAssumption DEF Leftover, Keep, Unfinished, Locked
  <2> QED BY <1>1, <1>2, <2>1, <2>2, QuietStep DEF Keep, StepVars
<1>3. CASE /\ processes' = Cleaned(job.key)
           /\ \E partial \in Collections :
                job' = [job EXCEPT !.pc = "settle", !.limit = job.limit \/ (partial /\ job.status # "killed")]
  <2>1. PICK l \in BOOLEAN : job' = [job EXCEPT !.pc = "settle", !.limit = l]
    <3>1. \A partial \in Collections : (job.limit \/ (partial /\ job.status # "killed")) \in BOOLEAN
      OBVIOUS
    <3> QED BY <1>3, <3>1
  <2>2. job' \in Jobs /\ job'.key = job.key /\ job'.pc = "settle" /\ job'.pc \in Late
    BY <1>1, <2>1 DEF Jobs, Late
  <2>3. processes' \subseteq processes /\ (unremoved \/ processes' = {})
    BY <1>1, <1>3, OwnProcess DEF Cleaned
  <2>4. Leftover'
    BY <1>1, <2>2, <2>3, NoJobAssumption DEF Leftover, Locked
  <2> QED BY <1>1, <2>2, <2>3, <2>4, QuietStep DEF StepVars
<1>4. CASE (~Running(Mine) \/ job.expired) /\ Now("settle") /\ Keep
  <2>1. job' \in Jobs /\ job'.key = job.key /\ job'.pc = "settle" /\ (job'.expired <=> job.expired)
        /\ (job'.raised <=> job.raised) /\ job'.pc \in Late
    BY <1>1, <1>4 DEF Now, Jobs, Late
  <2>2. unremoved \/ processes = {} \/ (processes \subseteq {job.key} /\ job.expired /\ ~job.raised)
    BY <1>1, <1>4, OwnProcess, NoneWithout DEF RunnerInv, RaisedLate, Late
  <2>3. Leftover'
    BY <1>1, <1>4, <2>1, <2>2, NoJobAssumption DEF Leftover, Keep, Locked
  <2> QED BY <1>1, <1>4, <2>1, <2>3, QuietStep DEF Keep, StepVars
<1> QED BY <1>2, <1>3, <1>4 DEF Collect, Keep

\* The finally clause: the processes are killed, or the container goes with them, or
\* nobody could see it.
LEMMA CleanStep ==
    ASSUME RunnerInv, Clean
    PROVE  RunnerInv'
<1>1. Locked /\ job \in Jobs /\ job.pc = "clean" /\ UNCHANGED StepVars /\ Mine \in Generations
  BY JobLocked DEF RunnerInv, Clean, At
<1>2. CASE Now("except") /\ box' = box /\ unremoved' = unremoved /\ processes' \subseteq processes
           /\ (processes' = Cleaned(job.key) \/ ~Running(Mine) \/ job.expired)
  <2>1. /\ job' \in Jobs /\ job'.key = job.key /\ job'.pc = "except" /\ job'.pc \in Late
        /\ (job'.expired <=> job.expired)
    BY <1>1, <1>2 DEF Now, Jobs, Late
  <2>2. unremoved \/ processes' = {} \/ (processes' \subseteq {job.key} /\ job.expired)
    BY <1>1, <1>2, OwnProcess, NoneWithout DEF Cleaned
  <2>3. Leftover'
    BY <1>2, <2>1, <2>2, NoJobAssumption DEF Leftover, Locked
  <2> QED BY <1>1, <1>2, <2>1, <2>3, QuietStep DEF StepVars
<1>3. CASE /\ Running(Mine) /\ TryDestroy(Mine) /\ unremoved' = (unremoved \/ Survived(Mine))
           /\ Raise("except")
  <2>1. job' \in Jobs /\ job'.key = job.key /\ job'.pc = "except" /\ job'.pc \in Late
    BY <1>1, <1>3 DEF Raise, Jobs, Late
  <2>2. Destroy({Mine}) \/ Keep
    BY <1>3 DEF TryDestroy
  <2>3. /\ box' \in [Generations -> Boxes] /\ processes' \subseteq processes /\ Housed'
        /\ \A g \in Generations : box'[g] = "running" => box[g] = "running"
        /\ Destroy({Mine}) => \A k \in processes' : Generation(k) \notin {Mine}
    BY <2>2, Destroyed DEF RunnerInv
  <2>4. unremoved' \/ processes' = {}
    <3>1. CASE Destroy({Mine})
      BY <1>1, <1>3, <2>3, <3>1, OwnProcess DEF Mine
    <3>2. CASE Keep
      BY <1>3, <3>2 DEF Keep, Survived, Running
    <3> QED BY <2>2, <3>1, <3>2
  <2>5. Leftover'
    BY <2>1, <2>4, NoJobAssumption DEF Leftover, Locked
  <2> QED BY <1>1, <2>1, <2>3, <2>5, LockedStep DEF StepVars
<1> QED BY <1>2, <1>3 DEF Clean, Cleaned

\* The except clause: an expired deadline is a result, not an exception.
LEMMA ExceptStep ==
    ASSUME RunnerInv, Except
    PROVE  RunnerInv'
<1>1. Locked /\ job \in Jobs /\ job.pc = "except" /\ Keep /\ UNCHANGED <<StepVars, unremoved>>
  BY JobLocked DEF RunnerInv, Except, At
<1>2. /\ job' \in Jobs /\ job'.key = job.key /\ job'.pc = "settle" /\ job'.pc \in Late
      /\ (job'.expired <=> job.expired) /\ (job.expired => ~job'.raised)
  <2>1. CASE job.expired /\ job' = [job EXCEPT !.pc = "settle", !.raised = FALSE, !.status = "failed"]
    BY <1>1, <2>1 DEF Jobs, ResultStates, Late
  <2>2. CASE ~job.expired /\ job' = [job EXCEPT !.pc = "settle", !.raised = FALSE, !.status = "failed", !.limit = TRUE]
    BY <1>1, <2>2 DEF Jobs, ResultStates, Late
  <2>3. CASE ~job.expired /\ job' = [job EXCEPT !.pc = "settle"]
    BY <1>1, <2>3 DEF Jobs, Late
  <2> QED BY <2>1, <2>2, <2>3 DEF Except, Now
<1>3. unremoved \/ processes = {} \/ (processes \subseteq {job.key} /\ job.expired)
  BY <1>1 DEF RunnerInv, Leftover, Unfinished
<1>4. Leftover'
  BY <1>1, <1>2, <1>3, NoJobAssumption DEF Leftover, Keep, Locked
<1> QED BY <1>1, <1>2, <1>4, QuietStep DEF Keep, StepVars

\* The timer is joined, and a limit takes the container.
LEMMA SettleStep ==
    ASSUME RunnerInv, SettleExecution
    PROVE  RunnerInv'
<1> DEFINE limit == (job.limit \/ job.expired) /\ ~job.raised
<1>1. /\ Locked /\ job \in Jobs /\ job.pc = "settle" /\ Mine \in Generations
      /\ timers' = timers \ {job.key} /\ UNCHANGED <<stopped, misfires>>
      /\ IF limit /\ Running(Mine) THEN TryDestroy(Mine) ELSE Keep
      /\ unremoved' = (unremoved \/ (limit /\ Running(Mine) /\ Survived(Mine)))
  BY JobLocked DEF RunnerInv, SettleExecution, At, Joined
<1>2. \E l, x \in BOOLEAN, s \in ResultStates :
        job' = [job EXCEPT !.pc = "remember", !.limit = l, !.status = s, !.raised = x]
  <2>1. PICK s : s = IF limit /\ (IF job.expired THEN "timeout" ELSE job.status) = "succeeded" THEN "failed"
                     ELSE IF job.expired THEN "timeout" ELSE job.status
    OBVIOUS
  <2>2. s \in ResultStates
    BY <1>1, <2>1 DEF Jobs, ResultStates
  <2>3. PICK x \in BOOLEAN : x = (job.raised \/ (limit /\ Running(Mine) /\ Survived(Mine)))
    OBVIOUS
  <2>4. PICK l \in BOOLEAN : l = limit
    OBVIOUS
  <2>5. job' = [job EXCEPT !.pc = "remember", !.limit = l, !.status = s, !.raised = x]
    BY <2>1, <2>3, <2>4 DEF SettleExecution
  <2> QED BY <2>2, <2>5
<1>3. job' \in Jobs /\ job'.key = job.key /\ job'.pc = "remember" /\ job'.pc \in Late
  BY <1>1, <1>2 DEF Jobs, Late
<1>4. Destroy({Mine}) \/ Keep
  BY <1>1 DEF TryDestroy
<1>5. /\ box' \in [Generations -> Boxes] /\ processes' \subseteq processes /\ Housed'
      /\ \A g \in Generations : box'[g] = "running" => box[g] = "running"
      /\ Destroy({Mine}) => \A k \in processes' : Generation(k) \notin {Mine}
  BY <1>4, Destroyed DEF RunnerInv
<1>6. unremoved \/ processes = {} \/ (processes \subseteq {job.key} /\ limit)
  BY <1>1 DEF RunnerInv, Leftover, Unfinished
<1>7. unremoved' \/ processes' = {}
  <2>1. CASE processes = {} \/ unremoved
    BY <1>1, <1>5, <2>1
  <2>2. CASE ~Running(Mine)
    BY <1>1, <1>5, <2>2, NoneWithout
  <2>3. CASE processes \subseteq {job.key} /\ limit /\ Running(Mine)
    <3>1. CASE Destroy({Mine})
      BY <1>5, <2>3, <3>1 DEF Mine
    <3>2. CASE Keep
      BY <1>1, <2>3, <3>2 DEF Keep, Survived, Running
    <3> QED BY <1>4, <3>1, <3>2
  <2> QED BY <1>6, <2>1, <2>2, <2>3
<1>8. Leftover'
  BY <1>3, <1>7, NoJobAssumption DEF Leftover, Locked
<1> QED BY <1>1, <1>3, <1>5, <1>8, LockedStep

\* The lock is given up: every process of the execution is gone.
LEMMA RememberStep ==
    ASSUME RunnerInv, Remember
    PROVE  RunnerInv'
<1>1. /\ Locked /\ job.pc = "remember" /\ job' = NoJob /\ Keep
      /\ UNCHANGED <<timers, stopped, misfires, unremoved>>
  BY DEF Remember, At
<1>2. unremoved \/ processes = {}
  BY <1>1 DEF RunnerInv, Leftover, Unfinished
<1>3. RunnerTypes' /\ Housed' /\ RaisedLate'
  BY <1>1 DEF RunnerInv, RunnerTypes, Housed, Running, RaisedLate, Locked, Keep
<1>4. Leftover'
  BY <1>1, <1>2 DEF Leftover, Locked, Keep
<1>5. TimersOfTheJob'
  BY <1>1 DEF RunnerInv, TimersOfTheJob
<1>6. StoppedStays'
  BY <1>1 DEF RunnerInv, StoppedStays, Keep, Locked
<1> QED BY <1>3, <1>4, <1>5, <1>6 DEF RunnerInv

\* The timer of the execution under the lock, which is the only one.
LEMMA TimerStep ==
    ASSUME RunnerInv, NEW k \in ResultKeys, Expire(k)
    PROVE  RunnerInv'
<1>1. /\ Locked /\ job.key = k /\ job.pc # "remember" /\ job \in Jobs
      /\ timers' = timers \ {k} /\ misfires' = misfires /\ UNCHANGED <<stopped, unremoved>>
      /\ job' = [job EXCEPT !.expired = TRUE]
  BY JobLocked DEF RunnerInv, TimersOfTheJob, Expire
<1>2. /\ job' \in Jobs /\ job'.key = job.key /\ job'.pc = job.pc /\ job'.expired
      /\ (job'.raised <=> job.raised)
  BY <1>1 DEF Jobs
<1>3. Destroy({Generation(k)}) \/ Keep
  BY DEF Expire, TryDestroy
<1>4. /\ box' \in [Generations -> Boxes] /\ processes' \subseteq processes /\ Housed'
      /\ \A g \in Generations : box'[g] = "running" => box[g] = "running"
  BY <1>3, Destroyed DEF RunnerInv
<1>5. Leftover'
  <2>1. unremoved' <=> unremoved
    BY <1>1
  <2>2. Locked'
    BY <1>2, NoJobAssumption DEF Locked
  <2> QED BY <1>1, <1>2, <1>4, <2>1, <2>2 DEF RunnerInv, Leftover
<1>6. job'.raised => job'.pc \in Late
  BY <1>1, <1>2 DEF RunnerInv, RaisedLate
<1> QED BY <1>1, <1>2, <1>4, <1>5, <1>6, LockedStep

\* Without an execution, processes only end.
LEMMA IdleStep ==
    ASSUME RunnerInv, ~Locked, UNCHANGED <<job, timers, stopped, misfires, unremoved>>,
           box' \in [Generations -> Boxes], processes' \subseteq processes, Housed'
    PROVE  RunnerInv'
<1>1. RunnerTypes' /\ RaisedLate' /\ TimersOfTheJob' /\ StoppedStays'
  BY DEF RunnerInv, RunnerTypes, RaisedLate, TimersOfTheJob, StoppedStays, Locked
<1>2. Leftover'
  BY DEF RunnerInv, Leftover, Locked
<1> QED BY <1>1, <1>2 DEF RunnerInv

\* A container is reused or launched: what ran in another one is gone.
LEMMA EnsureStep ==
    ASSUME RunnerInv, NEW g \in Generations, Ensure(g)
    PROVE  RunnerInv'
<1>1. ~Locked /\ UNCHANGED <<job, timers, stopped, misfires, unremoved>>
  BY DEF Ensure
<1>2. \A k \in ResultKeys : Generation(k) \in Generations
  BY DEF ResultKeys, Generation
<1>3. /\ Ensured(g) \in [Generations -> Boxes] /\ Ensured(g)[g] = "running"
  BY DEF Ensured, Boxes
<1>4. CASE Reuse(g)
  BY <1>1, <1>2, <1>3, <1>4, IdleStep DEF Reuse, RunnerInv, Housed, Running
<1>5. CASE Launch(g)
  BY <1>1, <1>3, <1>5, IdleStep DEF Launch, Housed
<1>6. CASE LaunchFails
  BY <1>1, <1>6, IdleStep, Destroyed DEF LaunchFails, RunnerInv
<1> QED BY <1>4, <1>5, <1>6 DEF Ensure

\* A container that stops or is removed by a teardown, whoever has the lock.
LEMMA RemovalStep ==
    ASSUME RunnerInv, UNCHANGED <<job, timers, misfires, unremoved>>,
           box' \in [Generations -> Boxes], processes' \subseteq processes, Housed', StoppedStays',
           stopped' \subseteq ResultKeys
    PROVE  RunnerInv'
<1>1. RunnerTypes' /\ RaisedLate' /\ TimersOfTheJob'
  BY DEF RunnerInv, RunnerTypes, RaisedLate, TimersOfTheJob, Locked
<1>2. Leftover'
  BY DEF RunnerInv, Leftover, Locked
<1> QED BY <1>1, <1>2 DEF RunnerInv

LEMMA StopStep ==
    ASSUME RunnerInv, NEW g \in Generations, Stop(g)
    PROVE  RunnerInv'
<1>1. /\ UNCHANGED <<job, timers, misfires, unremoved, stopped>>
      /\ box' = [box EXCEPT ![g] = "stopped"]
      /\ processes' = {k \in processes : Generation(k) # g}
  BY DEF Stop
<1>2. /\ box' \in [Generations -> Boxes] /\ stopped' \subseteq ResultKeys
      /\ \A h \in Generations : h # g => box'[h] = box[h]
      /\ \A h \in Generations : box'[h] = "running" => box[h] = "running"
  BY <1>1 DEF RunnerInv, RunnerTypes, Boxes
<1>3. \A k \in ResultKeys : Generation(k) \in Generations
  BY DEF ResultKeys, Generation
<1>4. Housed'
  BY <1>1, <1>2, <1>3 DEF RunnerInv, RunnerTypes, Housed, Running
<1>5. StoppedStays'
  BY <1>1, <1>2, <1>3 DEF RunnerInv, RunnerTypes, StoppedStays, Running, Locked
<1> QED BY <1>1, <1>2, <1>4, <1>5, RemovalStep

\* An execution begins, or its budget ended in the queue.
LEMMA ExecuteStep ==
    ASSUME RunnerInv, NEW k \in ResultKeys, ExecuteExisting(k)
    PROVE  RunnerInv'
<1>1. ~Locked /\ stopped' = stopped \ {k} /\ misfires' = misfires /\ unremoved' = unremoved /\ timers = {}
  BY DEF ExecuteExisting, RunnerInv, TimersOfTheJob
<1>2. unremoved \/ processes = {}
  BY <1>1 DEF RunnerInv, Leftover
<1>3. /\ job' \in Jobs /\ job'.key = k /\ ~job'.raised /\ Locked'
      /\ job'.pc = "remember" => timers' = {}
      /\ timers' \subseteq {k}
  <2>1. CASE StartDeadline(k)
    <3>1. /\ job' = [key |-> k, pc |-> "snapshot", status |-> "none", limit |-> FALSE,
                     expired |-> FALSE, raised |-> FALSE]
          /\ timers' \subseteq timers \cup {k}
      BY <2>1 DEF StartDeadline
    <3>2. job' \in Jobs /\ job'.key = k /\ ~job'.raised /\ job'.pc = "snapshot"
      BY <3>1 DEF Jobs, ResultStates
    <3> QED BY <1>1, <3>1, <3>2, NoJobAssumption DEF Locked
  <2>2. CASE QueueExpired(k)
    <3>1. /\ job' = [key |-> k, pc |-> "remember", status |-> "timeout", limit |-> TRUE,
                     expired |-> TRUE, raised |-> FALSE]
          /\ timers' = timers
      BY <2>2 DEF QueueExpired
    <3>2. job' \in Jobs /\ job'.key = k /\ ~job'.raised
      BY <3>1 DEF Jobs, ResultStates
    <3> QED BY <1>1, <3>1, <3>2, NoJobAssumption DEF Locked
  <2> QED BY <2>1, <2>2 DEF ExecuteExisting
<1>4. Destroy({Generation(k)}) \/ Keep
  BY DEF ExecuteExisting, StartDeadline, QueueExpired
<1>5. /\ box' \in [Generations -> Boxes] /\ processes' \subseteq processes /\ Housed'
      /\ \A g \in Generations : box'[g] = "running" => box[g] = "running"
  BY <1>4, Destroyed DEF RunnerInv
<1>6. RunnerTypes'
  BY <1>1, <1>3, <1>5 DEF RunnerInv, RunnerTypes
<1>7. Leftover' /\ RaisedLate'
  BY <1>1, <1>2, <1>3, <1>5 DEF Leftover, RaisedLate
<1>8. TimersOfTheJob'
  BY <1>1, <1>3 DEF RunnerInv, TimersOfTheJob
<1>9. StoppedStays'
  BY <1>1, <1>3, <1>5 DEF RunnerInv, StoppedStays
<1> QED BY <1>5, <1>6, <1>7, <1>8, <1>9 DEF RunnerInv

\* A teardown takes the container away from whoever runs in it.
LEMMA CloseStep ==
    ASSUME RunnerInv, NEW g \in Generations, CloseRemoves(g)
    PROVE  RunnerInv'
<1>1. UNCHANGED <<job, timers, misfires, unremoved>>
  BY DEF CloseRemoves
<1>2. Destroy({g}) \/ Keep
  BY DEF CloseRemoves
<1>3. /\ box' \in [Generations -> Boxes] /\ processes' \subseteq processes /\ Housed'
      /\ \A h \in Generations : box'[h] = "running" => box[h] = "running"
      /\ Destroy({g}) => \A k \in processes' : Generation(k) \notin {g}
  BY <1>2, Destroyed DEF RunnerInv
<1>4. \A k \in ResultKeys : Generation(k) \in Generations
  BY DEF ResultKeys, Generation
<1>5. CASE UNCHANGED stopped
  <2>1. StoppedStays' /\ stopped' \subseteq ResultKeys
    BY <1>1, <1>3, <1>4, <1>5 DEF RunnerInv, RunnerTypes, StoppedStays, Running, Locked
  <2> QED BY <1>1, <1>3, <2>1, RemovalStep
<1>6. CASE Destroy({g}) /\ stopped' = stopped \cup Begun(g)
  <2>1. box'[g] = "absent"
    BY <1>6 DEF Destroy
  <2>2. \A k \in Begun(g) : k \in ResultKeys /\ Generation(k) = g
    BY DEF Begun
  <2>3. StoppedStays' /\ stopped' \subseteq ResultKeys
    BY <1>1, <1>3, <1>4, <1>6, <2>1, <2>2 DEF RunnerInv, RunnerTypes, StoppedStays, Running, Locked
  <2> QED BY <1>1, <1>3, <2>3, RemovalStep
<1> QED BY <1>5, <1>6 DEF CloseRemoves

\* What the session's lock, timers and containers leave for the next execution.
LEMMA RunnerStep ==
    ASSUME RunnerInv, [RunnerNext]_runnerVars
    PROVE  RunnerInv'
<1>1. CASE \E g \in Generations : CloseForgets(g)
  BY <1>1 DEF CloseForgets, RunnerInv, RunnerTypes, Housed, Leftover, RaisedLate, TimersOfTheJob,
              StoppedStays, Running, Locked
<1>2. CASE UNCHANGED runnerVars
  BY <1>2 DEF runnerVars, RunnerInv, RunnerTypes, Housed, Leftover, RaisedLate, TimersOfTheJob,
              StoppedStays, Running, Locked
<1> QED
  BY <1>1, <1>2, EnsureStep, StopStep, CloseStep, ExecuteStep, TimerStep, PrepareSteps, StageStep,
     AfterRunSteps, CollectStep, CleanStep, ExceptStep, SettleStep, RememberStep DEF RunnerNext

\* What is left between two naturals.
LEMMA Difference == ASSUME NEW a \in Nat, NEW b \in Nat, a <= b PROVE \E m \in Nat : b = a + m
  OBVIOUS

\* The last M of L places come after the first n.
LEMMA PlacesApart ==
    ASSUME NEW n \in Nat, NEW M \in Nat, NEW L, L = n + M
    PROVE  \A i \in 1..M : n + i \in 1..L /\ \A j \in 1..n : j \in 1..L /\ j # n + i
  OBVIOUS

\* What follows the first n elements of a sequence.
LEMMA TailOf ==
    ASSUME NEW S, NEW s \in Seq(S), NEW n \in Nat, NEW m \in Nat, Len(s) = n + m
    PROVE  /\ SubSeq(s, n + 1, n + m) \in Seq(S) /\ Len(SubSeq(s, n + 1, n + m)) = m
           /\ \A i \in 1..m : SubSeq(s, n + 1, n + m)[i] = s[n + i]
<1>1. SubSeq(s, n + 1, n + m) \in Seq(S)
  OBVIOUS
<1>2. Len(SubSeq(s, n + 1, n + m)) = m /\ \A i \in 1..m : SubSeq(s, n + 1, n + m)[i] = s[n + i]
  BY SMTT(30)
<1> QED BY <1>1, <1>2

\* The keys that have bytes on record.
BytesOnRecord(bytes) == {k \in ResultKeys : bytes[k] # 0}

\* A cache c whose results have the bytes on record.
CacheFits(c, bytes) ==
    /\ c \in Seq(ResultKeys) /\ \A i, j \in 1..Len(c) : c[i] = c[j] => i = j
    /\ bytes \in [ResultKeys -> 0..MaxResultBytes] /\ IsFiniteSet(BytesOnRecord(bytes))
    /\ \A i \in 1..Len(c) : bytes[c[i]] # 0

\* What the cached results take.
CacheCost(c, bytes) == TotalOf(bytes, {c[i] : i \in 1..Len(c)})

\* The cache is within its caps, and every result in it is on record.
CacheInv ==
    /\ CacheFits(cache, cacheBytes)
    /\ Len(cache) <= MaxCachedResults /\ CacheCost(cache, cacheBytes) <= MaxCachedResultBytes

\* What is cached is among what is on record.
LEMMA CostWithinRecord ==
    ASSUME NEW c, NEW bytes, CacheFits(c, bytes)
    PROVE  /\ CacheCost(c, bytes) \in Nat /\ TotalOf(bytes, BytesOnRecord(bytes)) \in Nat
           /\ CacheCost(c, bytes) <= TotalOf(bytes, BytesOnRecord(bytes))
           /\ IsFiniteSet({c[i] : i \in 1..Len(c)}) /\ \A i \in 1..Len(c) : bytes[c[i]] \in Nat
<1>1. \A i \in 1..Len(c) : c[i] \in ResultKeys
  BY DEF CacheFits
<1>2. {c[i] : i \in 1..Len(c)} \in SUBSET BytesOnRecord(bytes)
  BY <1>1 DEF CacheFits, BytesOnRecord
<1>3. \A k \in BytesOnRecord(bytes) : bytes[k] \in Nat
  BY RunnerAssumption DEF BytesOnRecord, CacheFits
<1>4. IsFiniteSet(BytesOnRecord(bytes))
  BY DEF CacheFits
<1>5. IsFiniteSet({c[i] : i \in 1..Len(c)}) /\ \A k \in {c[i] : i \in 1..Len(c)} : bytes[k] \in Nat
  BY <1>2, <1>3, <1>4, FS_Subset
<1>6. TotalOf(bytes, BytesOnRecord(bytes)) \in Nat
  BY <1>3, <1>4, TotalsAgree
<1>7. TotalOf(bytes, {c[i] : i \in 1..Len(c)}) \in Nat
  BY <1>5, TotalsAgree
<1>8. TotalOf(bytes, {c[i] : i \in 1..Len(c)}) <= TotalOf(bytes, BytesOnRecord(bytes))
  BY <1>2, <1>3, <1>4, TotalOfPart
<1> QED BY <1>5, <1>6, <1>7, <1>8 DEF CacheCost

\* What the loop counts is the total on record.
LEMMA CountedTotal ==
    ASSUME NEW bytes \in [ResultKeys -> 0..MaxResultBytes], IsFiniteSet(BytesOnRecord(bytes))
    PROVE  Counted(bytes) = TotalOf(bytes, BytesOnRecord(bytes))
<1> DEFINE f == [k \in BytesOnRecord(bytes) |-> bytes[k]]
<1>1. Counted(bytes) = TotalOf(f, BytesOnRecord(bytes))
  BY ZenonT(40) DEF Counted, BytesOnRecord, MapThenSumSet, MapThenFoldSet, TotalOf
<1>2. \A k \in BytesOnRecord(bytes) : f[k] = bytes[k] /\ bytes[k] \in Nat
  BY RunnerAssumption DEF BytesOnRecord
<1> HIDE DEF f
<1>3. TotalOf(f, BytesOnRecord(bytes)) = TotalOf(bytes, BytesOnRecord(bytes))
  BY <1>2, TotalsAgree
<1> QED BY <1>1, <1>3

\* The loop of _remember ends, at the first number of evictions that fits or with nothing.
LEMMA EvictionEnds ==
    ASSUME NEW entries \in Seq(ResultKeys), NEW bytes
    PROVE  /\ Evicted(entries, bytes) \in 0..Len(entries)
           /\ \/ Evicted(entries, bytes) = Len(entries)
              \/ Fits(SubSeq(entries, Evicted(entries, bytes) + 1, Len(entries)),
                      Dropping(bytes, ToSet(SubSeq(entries, 1, Evicted(entries, bytes)))))
<1> DEFINE Fit(n) == Fits(SubSeq(entries, n + 1, Len(entries)), Dropping(bytes, ToSet(SubSeq(entries, 1, n))))
           Ends(n) == (n = Len(entries) \/ Fit(n)) /\ \A i \in 0..(n - 1) : ~Fit(i)
           T == {n \in 0..Len(entries) : n = Len(entries) \/ Fit(n)}
<1> HIDE DEF Fit
<1>0. Len(entries) \in Nat
  OBVIOUS
<1>1. T \in SUBSET Nat /\ T # {}
  BY <1>0
<1>2. PICK m \in T : \A y \in T : m <= y
  BY <1>1, LeastOfSet
<1>3. m \in 0..Len(entries) /\ (m = Len(entries) \/ Fit(m))
  BY <1>2
<1>4. ASSUME NEW i \in 0..(m - 1) PROVE ~Fit(i)
  <2>1. i \in 0..Len(entries) /\ ~(m <= i)
    BY <1>0, <1>3
  <2> QED BY <1>2, <2>1
<1>5. Ends(m)
  BY <1>3, <1>4
<1>6. PICK n : n = CHOOSE e \in 0..Len(entries) : Ends(e)
  OBVIOUS
<1>7. n \in 0..Len(entries) /\ Ends(n)
  <2> HIDE DEF Ends
  <2> QED BY <1>3, <1>5, <1>6
<1>8. Evicted(entries, bytes) = n
  BY <1>6 DEF Evicted, Fit
<1> QED BY <1>7, <1>8 DEF Fit

\* What it leaves.
LEMMA EvictionFits ==
    ASSUME NEW entries, NEW bytes, CacheFits(entries, bytes), NEW n, n = Evicted(entries, bytes),
           NEW kept, kept = SubSeq(entries, n + 1, Len(entries)),
           NEW left, left = Dropping(bytes, ToSet(SubSeq(entries, 1, n)))
    PROVE  CacheFits(kept, left) /\ Len(kept) <= MaxCachedResults /\ CacheCost(kept, left) <= MaxCachedResultBytes
<1>1. entries \in Seq(ResultKeys) /\ bytes \in [ResultKeys -> 0..MaxResultBytes] /\ IsFiniteSet(BytesOnRecord(bytes))
  BY DEF CacheFits
<1>2. n \in 0..Len(entries) /\ (n = Len(entries) \/ Fits(kept, left))
  BY <1>1, EvictionEnds
<1>3. PICK L \in Nat : L = Len(entries)
  BY <1>1
<1>4. n \in Nat /\ n <= L
  BY <1>2, <1>3
<1>5. PICK M \in Nat : L = n + M
  BY <1>4, Difference
<1>6. \A i \in 1..M : n + i \in 1..L /\ \A j \in 1..n : j \in 1..L /\ j # n + i
  <2>1. n \in Nat /\ M \in Nat /\ L = n + M
    BY <1>4, <1>5
  <2> QED BY <2>1, PlacesApart
<1>7. /\ L = n + M /\ kept \in Seq(ResultKeys) /\ Len(kept) = M
      /\ \A i \in 1..M : kept[i] = entries[n + i] /\ n + i \in 1..L
  <2>1. Len(entries) = n + M /\ kept = SubSeq(entries, n + 1, n + M)
    BY <1>3, <1>5
  <2>2. kept \in Seq(ResultKeys) /\ Len(kept) = M /\ \A i \in 1..M : kept[i] = entries[n + i]
    <3>1. entries \in Seq(ResultKeys) /\ n \in Nat /\ M \in Nat /\ Len(entries) = n + M
      BY <1>1, <1>4, <2>1
    <3>2. /\ SubSeq(entries, n + 1, n + M) \in Seq(ResultKeys) /\ Len(SubSeq(entries, n + 1, n + M)) = M
          /\ \A i \in 1..M : SubSeq(entries, n + 1, n + M)[i] = entries[n + i]
      BY ONLY <3>1, TailOf, Zenon
    <3> QED BY <2>1, <3>2
  <2> QED BY <1>5, <1>6, <2>2
<1>8. ToSet(SubSeq(entries, 1, n)) = {entries[i] : i \in 1..n}
  <2>1. SubSeq(entries, 1, n) \in Seq(ResultKeys) /\ Len(SubSeq(entries, 1, n)) = n
        /\ \A i \in 1..n : SubSeq(entries, 1, n)[i] = entries[i]
    BY <1>1, <1>3, <1>4
  <2>2. DOMAIN SubSeq(entries, 1, n) = 1..n
    BY <2>1
  <2> QED BY <2>1, <2>2 DEF ToSet
<1>9. PICK D : D = {entries[i] : i \in 1..n}
  OBVIOUS
<1>10. left = [k \in ResultKeys |-> IF k \in D THEN 0 ELSE bytes[k]]
  BY <1>8, <1>9 DEF Dropping
<1>11. left \in [ResultKeys -> 0..MaxResultBytes] /\ BytesOnRecord(left) \subseteq BytesOnRecord(bytes)
  BY <1>1, <1>10, RunnerAssumption, SMTT(30) DEF BytesOnRecord
<1>12. IsFiniteSet(BytesOnRecord(left))
  BY <1>1, <1>11, FS_Subset
<1>13. ASSUME NEW i \in 1..M PROVE left[kept[i]] # 0
  <2>1. kept[i] = entries[n + i] /\ n + i \in 1..L /\ entries[n + i] \in ResultKeys /\ bytes[entries[n + i]] # 0
    BY <1>1, <1>3, <1>7, SMTT(30) DEF CacheFits
  <2>2. entries[n + i] \notin D
    <3> SUFFICES ASSUME NEW j \in 1..n, entries[j] = entries[n + i] PROVE FALSE
      BY <1>9
    <3>1. j \in 1..L /\ j # n + i
      BY <1>6
    <3> QED BY <1>3, <2>1, <3>1 DEF CacheFits
  <2> QED BY <1>10, <2>1, <2>2
<1>14. ASSUME NEW i \in 1..M, NEW j \in 1..M, kept[i] = kept[j] PROVE i = j
  <2>1. entries[n + i] = entries[n + j] /\ n + i \in 1..L /\ n + j \in 1..L
    BY <1>7, <1>14
  <2>2. n + i = n + j
    BY <1>3, <2>1 DEF CacheFits
  <2> QED BY <1>4, <2>2
<1>15. CacheFits(kept, left)
  BY <1>7, <1>11, <1>12, <1>13, <1>14 DEF CacheFits
<1>16. CASE n = Len(entries)
  <2>1. Len(kept) = 0 /\ {kept[i] : i \in 1..Len(kept)} = {}
    <3>1. M = 0
      BY <1>3, <1>4, <1>5, <1>16
    <3> QED BY <1>7, <3>1
  <2>2. CacheCost(kept, left) = 0
    BY <2>1, TotalOfNone DEF CacheCost
  <2>3. 0 <= MaxCachedResults /\ 0 <= MaxCachedResultBytes
    BY RunnerAssumption
  <2> QED BY <1>15, <2>1, <2>2, <2>3
<1>17. CASE Fits(kept, left)
  <2>1. Counted(left) = TotalOf(left, BytesOnRecord(left))
    BY <1>11, <1>12, CountedTotal
  <2>2. /\ CacheCost(kept, left) \in Nat /\ TotalOf(left, BytesOnRecord(left)) \in Nat
        /\ CacheCost(kept, left) <= TotalOf(left, BytesOnRecord(left))
    BY <1>15, CostWithinRecord
  <2>3. Len(kept) <= MaxCachedResults /\ TotalOf(left, BytesOnRecord(left)) <= MaxCachedResultBytes
    BY <1>17, <2>1 DEF Fits
  <2>4. PICK a \in Nat, b \in Nat : a = CacheCost(kept, left) /\ b = TotalOf(left, BytesOnRecord(left))
    BY <2>2
  <2>5. a <= MaxCachedResultBytes
    BY <2>2, <2>3, <2>4, RunnerAssumption
  <2> QED BY <1>15, <2>3, <2>4, <2>5
<1> QED BY <1>2, <1>16, <1>17

\* A result goes in at the young end, and the loop makes room for it.
LEMMA RememberCache ==
    ASSUME CacheInv, Remember, job.key \in ResultKeys
    PROVE  CacheInv'
<1>1. CASE UNCHANGED <<cache, cacheBytes>>
  BY <1>1 DEF CacheInv
<1>2. ASSUME NEW size \in 1..MaxResultBytes,
             LET entries == IF Cached(job.key) THEN cache ELSE Append(cache, job.key)
                 bytes   == [cacheBytes EXCEPT ![job.key] = size]
                 n       == Evicted(entries, bytes)
             IN  /\ cache' = SubSeq(entries, n + 1, Len(entries))
                 /\ cacheBytes' = Dropping(bytes, ToSet(SubSeq(entries, 1, n)))
      PROVE  CacheInv'
  <2>1. PICK key \in ResultKeys : key = job.key
    OBVIOUS
  <2>2. PICK entries : entries = IF Cached(key) THEN cache ELSE Append(cache, key)
    OBVIOUS
  <2>3. PICK bytes : bytes = [cacheBytes EXCEPT ![key] = size]
    OBVIOUS
  <2>4. PICK n : n = Evicted(entries, bytes)
    OBVIOUS
  <2>5. cache' = SubSeq(entries, n + 1, Len(entries)) /\ cacheBytes' = Dropping(bytes, ToSet(SubSeq(entries, 1, n)))
    BY <1>2, <2>1, <2>2, <2>3, <2>4
  <2>6. /\ cache \in Seq(ResultKeys) /\ (\A i, j \in 1..Len(cache) : cache[i] = cache[j] => i = j)
        /\ cacheBytes \in [ResultKeys -> 0..MaxResultBytes] /\ IsFiniteSet(BytesOnRecord(cacheBytes))
        /\ \A i \in 1..Len(cache) : cacheBytes[cache[i]] # 0
    BY DEF CacheInv, CacheFits
  <2>7. bytes \in [ResultKeys -> 0..MaxResultBytes] /\ bytes[key] = size /\ \A k \in ResultKeys : k # key => bytes[k] = cacheBytes[k]
    BY <2>3, <2>6, RunnerAssumption
  <2>8. IsFiniteSet(BytesOnRecord(bytes))
    <3>1. BytesOnRecord(bytes) \subseteq BytesOnRecord(cacheBytes) \cup {key}
      BY <2>7 DEF BytesOnRecord
    <3> QED BY <2>6, <3>1, FS_AddElement, FS_Subset
  <2>9. \A k \in ResultKeys : cacheBytes[k] # 0 \/ k = key => bytes[k] # 0
    BY <2>7, RunnerAssumption
  <2>10. CASE Cached(key)
    <3>1. entries = cache /\ \A i \in 1..Len(cache) : cache[i] \in ResultKeys
      BY <2>2, <2>6, <2>10
    <3>2. CacheFits(entries, bytes)
      BY <2>6, <2>7, <2>8, <2>9, <3>1 DEF CacheFits
    <3> QED BY <2>4, <2>5, <3>2, EvictionFits DEF CacheInv
  <2>11. CASE ~Cached(key)
    <3>1. PICK L \in Nat : L = Len(cache)
      <4>1. cache \in Seq(ResultKeys)
        BY <2>6
      <4> QED BY ONLY <4>1
    <3>2. DOMAIN cache = 1..L /\ \A i \in 1..L : cache[i] # key /\ cache[i] \in ResultKeys
      BY <2>6, <2>11, <3>1 DEF Cached, ToSet
    <3>3. /\ entries \in Seq(ResultKeys) /\ Len(entries) = L + 1 /\ entries[L + 1] = key
          /\ \A i \in 1..L : entries[i] = cache[i]
      BY <2>1, <2>2, <2>6, <2>11, <3>1
    <3>4. ASSUME NEW i \in 1..(L + 1), NEW j \in 1..(L + 1), entries[i] = entries[j] PROVE i = j
      <4>1. (i = L + 1 \/ i \in 1..L) /\ (j = L + 1 \/ j \in 1..L)
        OBVIOUS
      <4> QED BY <2>6, <3>1, <3>2, <3>3, <3>4, <4>1
    <3>5. ASSUME NEW i \in 1..(L + 1) PROVE bytes[entries[i]] # 0
      <4>1. i = L + 1 \/ i \in 1..L
        OBVIOUS
      <4> QED BY <2>6, <2>9, <3>1, <3>2, <3>3, <4>1
    <3>6. CacheFits(entries, bytes)
      BY <2>7, <2>8, <3>3, <3>4, <3>5 DEF CacheFits
    <3> QED BY <2>4, <2>5, <3>6, EvictionFits DEF CacheInv
  <2> QED BY <2>10, <2>11
<1> QED BY <1>1, <1>2 DEF Remember

\* A teardown takes results out; what it leaves on record never counts less.
LEMMA ForgetCache ==
    ASSUME CacheInv, NEW g \in Generations, CloseForgets(g)
    PROVE  CacheInv'
<1>1. PICK A : A = {k \in ResultKeys : Generation(k) # g}
  OBVIOUS
<1>2. cache' = Filtered(cache, A) /\ cacheBytes' = cacheBytes
  BY <1>1 DEF CloseForgets
<1>3. /\ cache \in Seq(ResultKeys) /\ (\A i, j \in 1..Len(cache) : cache[i] = cache[j] => i = j)
      /\ cacheBytes \in [ResultKeys -> 0..MaxResultBytes] /\ IsFiniteSet(BytesOnRecord(cacheBytes))
      /\ \A i \in 1..Len(cache) : cacheBytes[cache[i]] # 0
  BY DEF CacheInv, CacheFits
<1>4. /\ Filtered(cache, A) \in Seq(ResultKeys) /\ Len(Filtered(cache, A)) <= Len(cache)
      /\ \A i \in 1..Len(Filtered(cache, A)) : \E p \in 1..Len(cache) : cache[p] = Filtered(cache, A)[i]
      /\ \A i, j \in 1..Len(Filtered(cache, A)) : Filtered(cache, A)[i] = Filtered(cache, A)[j] => i = j
  <2>1. cache \in Seq(ResultKeys) /\ \A p, q \in 1..Len(cache) : cache[p] = cache[q] => p = q
    BY <1>3
  <2>2. Filtered(cache, A) \in Seq(ResultKeys) /\ Len(Filtered(cache, A)) <= Len(cache)
    BY <2>1, FilteredElements
  <2>3. \A i \in 1..Len(Filtered(cache, A)) : \E p \in 1..Len(cache) : cache[p] = Filtered(cache, A)[i]
    BY <2>1, FilteredElements
  <2>4. \A i, j \in 1..Len(Filtered(cache, A)) : Filtered(cache, A)[i] = Filtered(cache, A)[j] => i = j
    BY <2>1, FilteredElements
  <2> QED BY <2>2, <2>3, <2>4
<1>5. PICK c : c = Filtered(cache, A)
  OBVIOUS
<1>6. /\ c \in Seq(ResultKeys) /\ Len(c) <= Len(cache)
      /\ \A i \in 1..Len(c) : \E p \in 1..Len(cache) : cache[p] = c[i]
      /\ \A i, j \in 1..Len(c) : c[i] = c[j] => i = j
  BY <1>4, <1>5
<1>7. CacheFits(c, cacheBytes)
  BY <1>3, <1>6 DEF CacheFits
<1>8. Len(c) <= MaxCachedResults
  <2>1. Len(c) \in Nat /\ Len(cache) \in Nat
    BY <1>3, <1>6
  <2> QED BY <1>6, <2>1, RunnerAssumption DEF CacheInv
<1>9. CacheCost(c, cacheBytes) <= MaxCachedResultBytes
  <2>1. PICK S : S = {cache[i] : i \in 1..Len(cache)}
    OBVIOUS
  <2>2. PICK R : R = {c[i] : i \in 1..Len(c)}
    OBVIOUS
  <2>3. R \in SUBSET S
    BY <1>6, <2>1, <2>2
  <2>4. IsFiniteSet(S) /\ \A k \in S : cacheBytes[k] \in Nat
    BY <2>1, CostWithinRecord DEF CacheInv
  <2>5. TotalOf(cacheBytes, R) <= TotalOf(cacheBytes, S)
    BY <2>3, <2>4, TotalOfPart
  <2>6. TotalOf(cacheBytes, R) \in Nat /\ TotalOf(cacheBytes, S) \in Nat
    BY <2>1, <2>2, <1>7, CostWithinRecord DEF CacheInv, CacheCost
  <2>7. TotalOf(cacheBytes, S) <= MaxCachedResultBytes
    BY <2>1 DEF CacheInv, CacheCost
  <2> QED BY <2>2, <2>5, <2>6, <2>7, RunnerAssumption DEF CacheCost
<1>10. cache' = c /\ cacheBytes' = cacheBytes
  BY <1>2, <1>5
<1> QED BY <1>7, <1>8, <1>9, <1>10 DEF CacheInv

\* What the caps and the types say of the cache.
LEMMA CapsFollow ==
    ASSUME CacheInv
    PROVE  CacheWithinCaps /\ cache \in Seq(ResultKeys) /\ IsInjective(cache) /\ \A i \in DOMAIN cache : cacheBytes[cache[i]] # 0
<1>1. cache \in Seq(ResultKeys) /\ DOMAIN cache = 1..Len(cache)
  BY DEF CacheInv, CacheFits
<1>2. IsInjective(cache) /\ \A i \in DOMAIN cache : cacheBytes[cache[i]] # 0
  BY <1>1 DEF CacheInv, CacheFits, IsInjective
<1>3. PICK K : K = ToSet(cache)
  OBVIOUS
<1>4. K = {cache[i] : i \in 1..Len(cache)}
  BY <1>1, <1>3 DEF ToSet
<1> DEFINE f == [k \in K |-> cacheBytes[k]]
<1>5. Bytes(K) = TotalOf(f, K)
  BY DEF Bytes, MapThenSumSet, MapThenFoldSet, TotalOf
<1>6. IsFiniteSet(K) /\ \A k \in K : cacheBytes[k] \in Nat
  BY <1>4, CostWithinRecord DEF CacheInv
<1>7. \A k \in K : f[k] = cacheBytes[k]
  OBVIOUS
<1> HIDE DEF f
<1>8. TotalOf(f, K) = TotalOf(cacheBytes, K)
  BY <1>6, <1>7, TotalsAgree
<1>9. Bytes(K) <= MaxCachedResultBytes
  BY <1>4, <1>5, <1>8 DEF CacheInv, CacheCost
<1>10. CacheWithinCaps
  BY <1>3, <1>9 DEF CacheInv, CacheWithinCaps
<1> QED BY <1>1, <1>2, <1>10

\* What the steps count and note besides.
RunnerBooks ==
    /\ CacheInv /\ closing \in SUBSET Generations /\ unremoved \in BOOLEAN
    /\ requests \in 0..MaxRequests /\ closes \in 0..MaxCloses

\* One more of what has a bound.
LEMMA OneMore ==
    ASSUME NEW n, NEW most \in Nat, n \in 0..most, n < most
    PROVE  n + 1 \in 0..most
  OBVIOUS

LEMMA BooksKept ==
    ASSUME RunnerBooks, UNCHANGED <<closing, cache, cacheBytes, requests, closes>>, unremoved' \in BOOLEAN
    PROVE  RunnerBooks'
BY DEF RunnerBooks, CacheInv

LEMMA RunnerBooksStep ==
    ASSUME RunnerInv, RunnerBooks, [RunnerNext]_runnerVars
    PROVE  RunnerBooks'
<1>1. /\ CacheInv /\ closing \in SUBSET Generations /\ unremoved \in BOOLEAN
      /\ requests \in 0..MaxRequests /\ closes \in 0..MaxCloses /\ MaxRequests \in Nat /\ MaxCloses \in Nat
  BY RunnerAssumption DEF RunnerBooks
<1>2. ASSUME NEW g \in Generations, Ensure(g) PROVE RunnerBooks'
  <2>1. requests' \in 0..MaxRequests
    BY <1>1, <1>2, OneMore DEF Ensure
  <2>2. UNCHANGED <<closing, cache, cacheBytes, closes, unremoved>>
    BY <1>2 DEF Ensure
  <2> QED BY <1>1, <2>1, <2>2 DEF RunnerBooks, CacheInv
<1>3. ASSUME NEW k \in ResultKeys, ExecuteExisting(k) PROVE RunnerBooks'
  <2>1. requests' \in 0..MaxRequests
    BY <1>1, <1>3, OneMore DEF ExecuteExisting
  <2>2. UNCHANGED <<closing, cache, cacheBytes, closes, unremoved>>
    BY <1>3 DEF ExecuteExisting
  <2> QED BY <1>1, <2>1, <2>2 DEF RunnerBooks, CacheInv
<1>4. ASSUME NEW g \in Generations, CloseRemoves(g) PROVE RunnerBooks'
  <2>1. closes' \in 0..MaxCloses
    BY <1>1, <1>4, OneMore DEF CloseRemoves
  <2>2. closing' \in SUBSET Generations
    BY <1>1, <1>4 DEF CloseRemoves
  <2>3. UNCHANGED <<cache, cacheBytes, requests, unremoved>>
    BY <1>4 DEF CloseRemoves
  <2> QED BY <1>1, <2>1, <2>2, <2>3 DEF RunnerBooks, CacheInv
<1>5. ASSUME NEW g \in Generations, CloseForgets(g) PROVE RunnerBooks'
  <2>1. CacheInv'
    BY <1>1, <1>5, ForgetCache
  <2> QED BY <1>1, <1>5, <2>1 DEF RunnerBooks, CloseForgets
<1>6. CASE Remember
  <2>1. job.key \in ResultKeys
    BY <1>6, JobLocked DEF Remember, At, RunnerInv
  <2>2. CacheInv'
    BY <1>1, <1>6, <2>1, RememberCache
  <2> QED BY <1>1, <1>6, <2>2 DEF RunnerBooks, Remember
<1>7. CASE Snapshot \/ InstallPackages \/ Stage \/ RunEnds \/ Classify \/ Collect \/ Except
  <2>1. UNCHANGED <<StepVars, unremoved>>
    BY <1>7 DEF Snapshot, InstallPackages, Stage, RunEnds, Classify, Collect, Except
  <2> QED BY <1>1, <2>1, BooksKept DEF StepVars
<1>8. CASE Clean
  <2>1. unremoved' = unremoved \/ unremoved' = (unremoved \/ Survived(Mine))
    BY <1>8 DEF Clean
  <2>2. unremoved' \in BOOLEAN
    BY <1>1, <2>1
  <2> QED BY <1>8, <2>2, BooksKept DEF Clean, StepVars
<1>9. CASE SettleExecution
  <2>1. unremoved' \in BOOLEAN
    BY <1>1, <1>9 DEF SettleExecution
  <2> QED BY <1>9, <2>1, BooksKept DEF SettleExecution
<1>10. ASSUME NEW k \in ResultKeys, Expire(k) PROVE RunnerBooks'
  BY <1>1, <1>10, BooksKept DEF Expire
<1>11. ASSUME NEW g \in Generations, Stop(g) PROVE RunnerBooks'
  BY <1>1, <1>11, BooksKept DEF Stop
<1>12. CASE UNCHANGED runnerVars
  BY <1>1, <1>12, BooksKept DEF runnerVars
<1> QED BY <1>2, <1>3, <1>4, <1>5, <1>6, <1>7, <1>8, <1>9, <1>10, <1>11, <1>12 DEF RunnerNext

\* Nothing is cached at first.
LEMMA RunnerBegins ==
    ASSUME RunnerInit
    PROVE  RunnerInv /\ RunnerBooks
<1>1. RunnerInv
  BY DEF RunnerInit, RunnerInv, RunnerTypes, Housed, Leftover, RaisedLate, TimersOfTheJob,
         StoppedStays, Boxes, Locked
<1>2. cache = <<>> /\ cache \in Seq(ResultKeys) /\ Len(cache) = 0 /\ cacheBytes = [k \in ResultKeys |-> 0]
  BY DEF RunnerInit
<1>3. BytesOnRecord(cacheBytes) = {}
  BY <1>2 DEF BytesOnRecord
<1>4. CacheFits(cache, cacheBytes)
  <2>1. 1..Len(cache) = {}
    BY <1>2
  <2>2. cacheBytes \in [ResultKeys -> 0..MaxResultBytes]
    BY <1>2, RunnerAssumption
  <2>3. IsFiniteSet(BytesOnRecord(cacheBytes))
    BY <1>3, FS_EmptySet
  <2> QED BY <1>2, <2>1, <2>2, <2>3 DEF CacheFits
<1>5. {cache[i] : i \in 1..Len(cache)} = {}
  BY <1>2
<1>6. CacheCost(cache, cacheBytes) = 0
  BY <1>5, TotalOfNone DEF CacheCost
<1>7. CacheInv
  BY <1>2, <1>4, <1>6, RunnerAssumption DEF CacheInv
<1>8. RunnerBooks
  <2>1. requests \in 0..MaxRequests /\ closes \in 0..MaxCloses
    BY RunnerAssumption DEF RunnerInit
  <2>2. closing \in SUBSET Generations /\ unremoved \in BOOLEAN
    BY DEF RunnerInit
  <2> QED BY <1>7, <2>1, <2>2 DEF RunnerBooks
<1> QED BY <1>1, <1>8

\* The runner is contained, for any generations, executions, requests, teardowns and
\* sizes of results: nothing of an execution lives on in a container that the next one may
\* use unless the daemon refused to destroy it, a timer only removes its own execution's
\* container, what a finished teardown found no longer runs, and the cached results stay
\* within both caps, although a teardown leaves the bytes of what it forgets on record.
THEOREM RunnerContained ==
    RunnerSpec => []RunnerIsContained
<1>1. RunnerInit => RunnerInv /\ RunnerBooks
  BY RunnerBegins
<1>2. RunnerInv /\ RunnerBooks /\ [RunnerNext]_runnerVars => (RunnerInv /\ RunnerBooks)'
  BY RunnerStep, RunnerBooksStep
<1>3. RunnerInv /\ RunnerBooks => RunnerIsContained
  <2> SUFFICES ASSUME RunnerInv, RunnerBooks PROVE RunnerIsContained
    OBVIOUS
  <2>1. NoStrayProcesses
    BY DEF RunnerInv, Leftover, NoStrayProcesses
  <2>2. TimersHitTheirOwn
    BY DEF RunnerInv, TimersOfTheJob, TimersHitTheirOwn
  <2>3. ClosedIsStopped
    BY DEF RunnerInv, StoppedStays, ClosedIsStopped
  <2>4. /\ CacheWithinCaps /\ cache \in Seq(ResultKeys) /\ IsInjective(cache)
        /\ \A i \in DOMAIN cache : cacheBytes[cache[i]] # 0
    BY CapsFollow DEF RunnerBooks
  <2>5. timers \in SUBSET ResultKeys /\ misfires \in SUBSET (ResultKeys \X ResultKeys)
    <3>1. \A k \in timers : Locked /\ job.key = k
      BY DEF RunnerInv, TimersOfTheJob
    <3>2. Locked => job.key \in ResultKeys
      BY JobLocked DEF RunnerInv
    <3> QED BY <3>1, <3>2 DEF RunnerInv, TimersOfTheJob
  <2>6. RunnerTypeOK
    <3>1. cacheBytes \in [ResultKeys -> 0..MaxResultBytes]
      BY DEF RunnerBooks, CacheInv, CacheFits
    <3>2. /\ closing \in SUBSET Generations /\ unremoved \in BOOLEAN
          /\ requests \in 0..MaxRequests /\ closes \in 0..MaxCloses
      BY DEF RunnerBooks
    <3> QED BY <2>4, <2>5, <3>1, <3>2 DEF RunnerTypeOK, RunnerInv, RunnerTypes
  <2> QED BY <2>1, <2>2, <2>3, <2>4, <2>6 DEF RunnerIsContained
<1> QED BY <1>1, <1>2, <1>3, PTL DEF RunnerSpec

-----------------------------------------------------------------------------
(* Tenant policy.  A request that nobody overlapped has read the row that is  *)
(* still there, and a row never goes away: PatchesFit.                        *)

PatchesFit ==
    \A w \in Setters : patch[w] = NoPatch \/
        /\ patch[w].kind \in PolicyKinds /\ patch[w] \in PatchesOf(patch[w].kind)
        /\ patch[w].read # NoSetting => stored[patch[w].kind] # NoSetting
        /\ patch[w].clean => patch[w].read = stored[patch[w].kind]
        /\ patch[w].seen # NoSetting => patch[w].ask = patch[w].read
        /\ patch[w].seen # NoSetting /\ patch[w].clean => patch[w].seen = stored[patch[w].kind]
        /\ patch[w].kind = "sandbox" => patch[w].ask.level >= 1
        /\ patch[w].kind = "tenant" => IsInjective(patch[w].ask.on)

\* The tables are tables: functions of the kinds and of the requests.
PolicyShapes ==
    /\ DOMAIN stored = PolicyKinds /\ stored = [k \in PolicyKinds |-> stored[k]]
    /\ DOMAIN audited = PolicyKinds /\ audited = [k \in PolicyKinds |-> audited[k]]
    /\ DOMAIN answered = PolicyKinds /\ answered = [k \in PolicyKinds |-> answered[k]]
    /\ DOMAIN patch = Setters /\ patch = [w \in Setters |-> patch[w]]

PolicyInv ==
    /\ PolicyTypeOK /\ AuditTellsTheRow /\ PolicyIsLastRequest /\ LogoHasBytes
    /\ PatchesFit /\ PolicyShapes

\* A request in progress has a kind, a row it read and a row it asks for.
LEMMA PatchTyped ==
    ASSUME PolicyInv, NEW w \in Setters, patch[w] # NoPatch
    PROVE  /\ patch[w].kind \in PolicyKinds /\ patch[w].read \in RowsOf(patch[w].kind) \cup {NoSetting}
           /\ patch[w].ask \in RowsOf(patch[w].kind) /\ patch[w].clean \in BOOLEAN
           /\ patch[w].seen \in RowsOf(patch[w].kind) \cup {NoSetting}
           /\ patch[w].ask # NoSetting
<1>1. patch[w].kind \in PolicyKinds /\ patch[w] \in PatchesOf(patch[w].kind)
  BY DEF PolicyInv, PatchesFit
<1> QED BY <1>1, NoSettingAssumption DEF PatchesOf

\* The columns of two rows make a row.
LEMMA MergedIsRow ==
    ASSUME NEW k \in PolicyKinds, NEW read \in RowsOf(k), NEW ask \in RowsOf(k), NEW row \in RowsOf(k)
    PROVE  /\ Merged(k, read, ask, row) \in RowsOf(k)
           /\ Merged(k, read, ask, read) = ask
           /\ Merged(k, read, ask, row).on \in {ask.on, row.on}
           /\ Merged(k, read, ask, row).level \in {ask.level, row.level}
<1>1. PICK X : X = IF k = "tenant" THEN Chains ELSE BOOLEAN
  OBVIOUS
<1>2. read \in [on : X, level : PolicyLevels] /\ ask \in [on : X, level : PolicyLevels] /\ row \in [on : X, level : PolicyLevels]
  BY <1>1 DEF RowsOf
<1>3. Merged(k, read, ask, row) \in [on : X, level : PolicyLevels]
  BY <1>2 DEF Merged
<1>4. Merged(k, read, ask, read) = ask
  BY <1>2 DEF Merged
<1>5. /\ Merged(k, read, ask, row).on \in {ask.on, row.on}
      /\ Merged(k, read, ask, row).level \in {ask.level, row.level}
  BY <1>2 DEF Merged
<1> QED BY <1>1, <1>3, <1>4, <1>5 DEF RowsOf

\* A row is made of itself, and of more rows than before.
LEMMA MadeOfItself ==
    ASSUME NEW k \in PolicyKinds, NEW row \in RowsOf(k), NEW S, row \in S
    PROVE  MadeOf(row, S)
<1>1. row = [on |-> row.on, level |-> row.level]
  BY DEF RowsOf
<1> QED BY <1>1 DEF MadeOf

\* A row with the columns of one that is made of S and of another row.
LEMMA MadeOfMixture ==
    ASSUME NEW k \in PolicyKinds, NEW old \in RowsOf(k), NEW ask \in RowsOf(k), NEW row \in RowsOf(k),
           NEW S, MadeOf(old, S), row.on \in {ask.on, old.on}, row.level \in {ask.level, old.level}
    PROVE  MadeOf(row, S \cup {ask})
<1>1. PICK x \in S, y \in S : old = [on |-> x.on, level |-> y.level]
  BY DEF MadeOf
<1>2. old.on = x.on /\ old.level = y.level
  BY <1>1
<1>3. PICK p \in S \cup {ask} : row.on = p.on
  BY <1>2
<1>4. PICK q \in S \cup {ask} : row.level = q.level
  BY <1>2
<1>5. row = [on |-> row.on, level |-> row.level]
  BY DEF RowsOf
<1>6. row = [on |-> p.on, level |-> q.level]
  BY <1>3, <1>4, <1>5
<1> QED BY <1>6 DEF MadeOf

\* A request reads the row of its kind.
LEMMA ReadStep ==
    ASSUME PolicyInv, NEW w \in Setters, NEW kind \in PolicyKinds, NEW ask \in RowsOf(kind),
           ReadRow(w, kind, ask), kind = "sandbox" => ask.level >= 1, kind = "tenant" => IsInjective(ask.on)
    PROVE  PolicyInv'
<1>1. PICK e : e = Request(kind, stored[kind], ask, NoSetting, TRUE)
  OBVIOUS
<1>2. /\ patch' = [patch EXCEPT ![w] = e] /\ settings' = settings + 1 /\ settings < MaxSettings
      /\ UNCHANGED <<ceiling, usable, stored, logo, marks, audited, answered>>
  BY <1>1 DEF ReadRow
<1>3. /\ e \in PatchesOf(kind) /\ e.kind = kind /\ e.read = stored[kind] /\ e.ask = ask
      /\ e.seen = NoSetting
  BY <1>1 DEF PolicyInv, PolicyTypeOK, PatchesOf, Request
<1>4. settings' \in 0..MaxSettings
  BY <1>2, PolicyAssumption DEF PolicyInv, PolicyTypeOK
<1>5. patch'[w] = e /\ \A v \in Setters : v # w => patch'[v] = patch[v]
  BY <1>2 DEF PolicyInv, PolicyShapes
<1>6. PolicyShapes'
  BY <1>2 DEF PolicyInv, PolicyShapes
<1>7. PolicyTypeOK'
  BY <1>2, <1>3, <1>4, <1>5 DEF PolicyInv, PolicyTypeOK
<1>8. PatchesFit'
  BY <1>2, <1>3, <1>5 DEF PolicyInv, PatchesFit
<1>9. AuditTellsTheRow' /\ PolicyIsLastRequest' /\ LogoHasBytes'
  BY <1>2 DEF PolicyInv, AuditTellsTheRow, PolicyIsLastRequest, LogoHasBytes
<1> QED BY <1>6, <1>7, <1>8, <1>9 DEF PolicyInv

\* Each request asks for a row; the sandbox's limits are positive.
LEMMA PolicyUpdateSteps ==
    ASSUME PolicyInv, NEW w \in Setters, NEW level \in PolicyLevels, NEW on \in BOOLEAN,
           \/ UpdateToolPolicy(w, on, level) \/ UpdateSandboxPolicy(w, on, level)
           \/ UpdatePreferences(w, on, level) \/ UpdateAutonomyPolicy(w, level)
    PROVE  PolicyInv'
<1>1. PICK row : row = [on |-> on, level |-> level]
  OBVIOUS
<1>2. PICK lid : lid = [on |-> TRUE, level |-> level]
  OBVIOUS
<1>3. \A k \in {"tool", "sandbox", "autonomy", "preferences"} :
          row \in RowsOf(k) /\ lid \in RowsOf(k) /\ row.level = level /\ k \in PolicyKinds
  BY <1>1, <1>2 DEF RowsOf, PolicyKinds
<1>4. CASE UpdateToolPolicy(w, on, level)
  BY <1>1, <1>3, <1>4, ReadStep DEF UpdateToolPolicy
<1>5. CASE UpdateSandboxPolicy(w, on, level)
  BY <1>1, <1>3, <1>5, ReadStep DEF UpdateSandboxPolicy, WithinCeiling
<1>6. CASE UpdatePreferences(w, on, level)
  BY <1>1, <1>3, <1>6, ReadStep DEF UpdatePreferences
<1>7. CASE UpdateAutonomyPolicy(w, level)
  BY <1>2, <1>3, <1>7, ReadStep DEF UpdateAutonomyPolicy
<1> QED BY <1>4, <1>5, <1>6, <1>7

LEMMA UpdateTenantSettingsStep ==
    ASSUME PolicyInv, NEW w \in Setters, NEW list \in Chains, NEW turns \in PolicyLevels,
           UpdateTenantSettings(w, list, turns)
    PROVE  PolicyInv'
<1>1. PICK row : row = [on |-> list, level |-> turns]
  OBVIOUS
<1>2. row \in RowsOf("tenant") /\ row.on = list /\ "tenant" \in PolicyKinds
  BY <1>1 DEF RowsOf, PolicyKinds
<1>3. IsInjective(list)
  BY DEF UpdateTenantSettings, ValidatedFallbacks, PolicyInv, PolicyTypeOK
<1>4. ReadRow(w, "tenant", row)
  BY <1>1 DEF UpdateTenantSettings
<1> QED BY <1>2, <1>3, <1>4, ReadStep

\* What the two histories become, and their shape.
LEMMA RecountedOnes ==
    ASSUME PolicyInv, NEW e, e.kind \in PolicyKinds, NEW told, Recounts(e, told),
           told \subseteq RowsOf(e.kind), e.ask \in RowsOf(e.kind)
    PROVE  /\ audited'[e.kind] = IF e.clean THEN told ELSE audited[e.kind] \cup told
           /\ answered'[e.kind] = IF e.clean THEN {e.ask} ELSE answered[e.kind] \cup {e.ask}
           /\ \A k \in PolicyKinds : k # e.kind => audited'[k] = audited[k] /\ answered'[k] = answered[k]
           /\ \A k \in PolicyKinds : audited'[k] \subseteq RowsOf(k) /\ answered'[k] \subseteq RowsOf(k)
           /\ DOMAIN audited' = PolicyKinds /\ audited' = [k \in PolicyKinds |-> audited'[k]]
           /\ DOMAIN answered' = PolicyKinds /\ answered' = [k \in PolicyKinds |-> answered'[k]]
<1>1. /\ audited'[e.kind] = IF e.clean THEN told ELSE audited[e.kind] \cup told
      /\ answered'[e.kind] = IF e.clean THEN {e.ask} ELSE answered[e.kind] \cup {e.ask}
      /\ \A k \in PolicyKinds : k # e.kind => audited'[k] = audited[k] /\ answered'[k] = answered[k]
  BY DEF Recounts, PolicyInv, PolicyShapes
<1>2. \A k \in PolicyKinds : audited'[k] \subseteq RowsOf(k) /\ answered'[k] \subseteq RowsOf(k)
  BY <1>1 DEF PolicyInv, PolicyTypeOK
<1>3. /\ DOMAIN audited' = PolicyKinds /\ audited' = [k \in PolicyKinds |-> audited'[k]]
      /\ DOMAIN answered' = PolicyKinds /\ answered' = [k \in PolicyKinds |-> answered'[k]]
  BY DEF Recounts, PolicyInv, PolicyShapes
<1> QED BY <1>1, <1>2, <1>3

\* The commit: the row it leaves is what the audit tells and, unless another request
\* committed since the read, what was asked.
LEMMA CommitPatchStep ==
    ASSUME PolicyInv, NEW w \in Setters, CommitPatch(w)
    PROVE  PolicyInv'
<1>1. PICK e : e = patch[w]
  OBVIOUS
<1>2. PICK row : row = IF e.read = NoSetting THEN e.ask ELSE Merged(e.kind, e.read, e.ask, stored[e.kind])
  OBVIOUS
<1>3. PICK told : told = Tells(e.kind, e.ask, row)
  OBVIOUS
<1>4. /\ e # NoPatch /\ (e.read = NoSetting => stored[e.kind] = NoSetting)
      /\ stored' = [stored EXCEPT ![e.kind] = row] /\ Recounts(e, told)
      /\ patch' = Stale(w, e.kind)
      /\ UNCHANGED <<ceiling, usable, logo, marks, settings>>
  BY <1>1, <1>2, <1>3 DEF CommitPatch
<1>5. /\ e.kind \in PolicyKinds /\ e.read \in RowsOf(e.kind) \cup {NoSetting} /\ e.ask \in RowsOf(e.kind)
      /\ e.clean \in BOOLEAN
  BY <1>1, <1>4, PatchTyped
<1>6. /\ e.read # NoSetting => stored[e.kind] # NoSetting
      /\ e.clean => e.read = stored[e.kind]
      /\ e.kind = "sandbox" => e.ask.level >= 1
      /\ e.kind = "tenant" => IsInjective(e.ask.on)
  BY <1>1, <1>4 DEF PolicyInv, PatchesFit
<1>7. /\ row \in RowsOf(e.kind) /\ row # NoSetting
      /\ e.clean => row = e.ask
      /\ e.kind = "sandbox" => row.level >= 1
      /\ e.kind = "tenant" => IsInjective(row.on)
      /\ MadeOf(row, answered[e.kind] \cup {e.ask})
      /\ e.kind = "tool" => MadeOf(row, audited[e.kind] \cup {e.ask})
  <2>1. CASE e.read = NoSetting
    <3>1. row = e.ask
      BY <1>2, <2>1
    <3> QED BY <1>5, <1>6, <3>1, MadeOfItself, NoSettingAssumption
  <2>2. CASE e.read # NoSetting
    <3>1. PICK old : old = stored[e.kind]
      OBVIOUS
    <3>2. old \in RowsOf(e.kind) /\ e.read \in RowsOf(e.kind)
      BY <1>5, <1>6, <2>2, <3>1 DEF PolicyInv, PolicyTypeOK
    <3>3. /\ e.kind = "sandbox" => old.level >= 1
          /\ e.kind = "tenant" => IsInjective(old.on)
      BY <1>6, <2>2, <3>1 DEF PolicyInv, PolicyTypeOK
    <3>4. row = Merged(e.kind, e.read, e.ask, old)
      BY <1>2, <2>2, <3>1
    <3>5. /\ row \in RowsOf(e.kind) /\ row.on \in {e.ask.on, old.on} /\ row.level \in {e.ask.level, old.level}
          /\ Merged(e.kind, e.read, e.ask, e.read) = e.ask
      BY <1>5, <3>2, <3>4, MergedIsRow
    <3>6. MadeOf(old, answered[e.kind]) /\ (e.kind = "tool" => MadeOf(old, audited[e.kind]))
      BY <1>5, <1>6, <2>2, <3>1 DEF PolicyInv, PolicyIsLastRequest, AuditTellsTheRow
    <3>7. /\ MadeOf(row, answered[e.kind] \cup {e.ask})
          /\ e.kind = "tool" => MadeOf(row, audited[e.kind] \cup {e.ask})
      BY <1>5, <3>2, <3>5, <3>6, MadeOfMixture
    <3>8. e.clean => row = e.ask
      BY <1>6, <3>1, <3>4, <3>5
    <3> QED BY <1>5, <1>6, <3>3, <3>5, <3>7, <3>8, NoSettingAssumption
  <2> QED BY <2>1, <2>2
<1>8. /\ stored'[e.kind] = row /\ \A k \in PolicyKinds : k # e.kind => stored'[k] = stored[k]
      /\ DOMAIN stored' = PolicyKinds /\ stored' = [k \in PolicyKinds |-> stored'[k]]
  BY <1>4, <1>5 DEF PolicyInv, PolicyShapes
<1>9. /\ told \subseteq RowsOf(e.kind)
      /\ e.kind = "tool" => told = {e.ask}
      /\ e.kind \in {"sandbox", "autonomy"} => told = {row}
  BY <1>3, <1>5, <1>7 DEF Tells
<1>10. /\ audited'[e.kind] = IF e.clean THEN told ELSE audited[e.kind] \cup told
       /\ answered'[e.kind] = IF e.clean THEN {e.ask} ELSE answered[e.kind] \cup {e.ask}
       /\ \A k \in PolicyKinds : k # e.kind => audited'[k] = audited[k] /\ answered'[k] = answered[k]
       /\ \A k \in PolicyKinds : audited'[k] \subseteq RowsOf(k) /\ answered'[k] \subseteq RowsOf(k)
       /\ DOMAIN audited' = PolicyKinds /\ audited' = [k \in PolicyKinds |-> audited'[k]]
       /\ DOMAIN answered' = PolicyKinds /\ answered' = [k \in PolicyKinds |-> answered'[k]]
  BY <1>4, <1>5, <1>9, RecountedOnes
<1>11. ASSUME NEW v \in Setters
       PROVE  patch'[v] = NoPatch \/
                 /\ patch[v] # NoPatch /\ patch'[v].kind = patch[v].kind /\ patch'[v].read = patch[v].read
                 /\ patch'[v].ask = patch[v].ask /\ patch'[v].seen = patch[v].seen
                 /\ patch'[v].clean => patch[v].kind # e.kind /\ patch[v].clean
                 /\ patch'[v] \in PatchesOf(patch[v].kind)
  <2>1. CASE v = w
    BY <1>4, <2>1 DEF Stale
  <2>2. CASE v # w /\ patch[v].kind = e.kind
    <3>1. patch'[v] = [patch[v] EXCEPT !.clean = FALSE]
      BY <1>4, <2>2 DEF Stale
    <3>2. patch[v] # NoPatch
      BY <1>5, <2>2 DEF NoPatch, Request, PolicyKinds
    <3>3. patch[v] \in PatchesOf(patch[v].kind)
      BY <3>2 DEF PolicyInv, PatchesFit
    <3> QED BY <3>1, <3>2, <3>3 DEF PatchesOf
  <2>3. CASE v # w /\ patch[v].kind # e.kind
    BY <1>4, <2>3 DEF Stale, PolicyInv, PatchesFit
  <2> QED BY <2>1, <2>2, <2>3
<1>12. PolicyShapes'
  <2>1. DOMAIN patch' = Setters /\ patch' = [v \in Setters |-> patch'[v]]
    BY <1>4 DEF Stale
  <2> QED BY <1>8, <1>10, <2>1 DEF PolicyShapes
<1>13. PatchesFit'
  <2> SUFFICES ASSUME NEW v \in Setters, patch'[v] # NoPatch
               PROVE  /\ patch'[v].kind \in PolicyKinds /\ patch'[v] \in PatchesOf(patch'[v].kind)
                      /\ patch'[v].read # NoSetting => stored'[patch'[v].kind] # NoSetting
                      /\ patch'[v].clean => patch'[v].read = stored'[patch'[v].kind]
                      /\ patch'[v].seen # NoSetting => patch'[v].ask = patch'[v].read
                      /\ patch'[v].seen # NoSetting /\ patch'[v].clean => patch'[v].seen = stored'[patch'[v].kind]
                      /\ patch'[v].kind = "sandbox" => patch'[v].ask.level >= 1
                      /\ patch'[v].kind = "tenant" => IsInjective(patch'[v].ask.on)
    BY DEF PatchesFit
  <2>1. /\ patch[v] # NoPatch /\ patch'[v].kind = patch[v].kind /\ patch'[v].read = patch[v].read
        /\ patch'[v].ask = patch[v].ask /\ patch'[v].seen = patch[v].seen
        /\ patch'[v].clean => patch[v].kind # e.kind /\ patch[v].clean
        /\ patch'[v] \in PatchesOf(patch[v].kind)
    BY <1>11
  <2>2. /\ patch[v].kind \in PolicyKinds
        /\ patch[v].read # NoSetting => stored[patch[v].kind] # NoSetting
        /\ patch[v].clean => patch[v].read = stored[patch[v].kind]
        /\ patch[v].seen # NoSetting => patch[v].ask = patch[v].read
        /\ patch[v].seen # NoSetting /\ patch[v].clean => patch[v].seen = stored[patch[v].kind]
        /\ patch[v].kind = "sandbox" => patch[v].ask.level >= 1
        /\ patch[v].kind = "tenant" => IsInjective(patch[v].ask.on)
    BY <2>1 DEF PolicyInv, PatchesFit
  <2> QED BY <1>7, <1>8, <2>1, <2>2
<1>14. PolicyTypeOK'
  <2>1. \A k \in PolicyKinds : stored'[k] \in RowsOf(k) \cup {NoSetting}
    BY <1>7, <1>8 DEF PolicyInv, PolicyTypeOK
  <2>2. stored'["sandbox"] # NoSetting => stored'["sandbox"].level >= 1
    BY <1>7, <1>8 DEF PolicyInv, PolicyTypeOK, PolicyKinds
  <2>3. stored'["tenant"] # NoSetting /\ IsInjective(stored'["tenant"].on)
    BY <1>7, <1>8 DEF PolicyInv, PolicyTypeOK, PolicyKinds
  <2>4. \A v \in Setters : patch'[v].kind # "none" =>
            patch'[v].kind \in PolicyKinds /\ patch'[v] \in PatchesOf(patch'[v].kind)
    BY <1>13 DEF PatchesFit, NoPatch, Request
  <2> QED BY <1>4, <1>10, <2>1, <2>2, <2>3, <2>4 DEF PolicyInv, PolicyTypeOK
<1>15. AuditTellsTheRow'
  <2>1. ASSUME NEW k \in {"sandbox", "autonomy"}, stored'[k] # NoSetting PROVE stored'[k] \in audited'[k]
    <3>1. CASE k = e.kind
      BY <1>8, <1>9, <1>10, <2>1, <3>1
    <3>2. CASE k # e.kind
      BY <1>8, <1>10, <2>1, <3>2 DEF PolicyInv, AuditTellsTheRow, PolicyKinds
    <3> QED BY <3>1, <3>2
  <2>2. ASSUME stored'["tool"] # NoSetting PROVE MadeOf(stored'["tool"], audited'["tool"])
    <3>1. CASE e.kind = "tool" /\ e.clean
      BY <1>5, <1>7, <1>8, <1>9, <1>10, <3>1, MadeOfItself
    <3>2. CASE e.kind = "tool" /\ ~e.clean
      BY <1>7, <1>8, <1>9, <1>10, <3>2
    <3>3. CASE e.kind # "tool"
      BY <1>8, <1>10, <2>2, <3>3 DEF PolicyInv, AuditTellsTheRow, PolicyKinds
    <3> QED BY <3>1, <3>2, <3>3
  <2>3. /\ \A k \in {"sandbox", "autonomy"} : stored'[k] # NoSetting => stored'[k] \in audited'[k]
        /\ stored'["tool"] # NoSetting => \E x, y \in audited'["tool"] : stored'["tool"] = [on |-> x.on, level |-> y.level]
    BY <2>1, <2>2 DEF MadeOf
  <2> QED BY <2>3 DEF AuditTellsTheRow, MadeOf
<1>16. PolicyIsLastRequest'
  <2>1. ASSUME NEW k \in PolicyKinds, stored'[k] # NoSetting PROVE MadeOf(stored'[k], answered'[k])
    <3>1. CASE k = e.kind /\ e.clean
      BY <1>5, <1>7, <1>8, <1>10, <3>1, MadeOfItself
    <3>2. CASE k = e.kind /\ ~e.clean
      BY <1>7, <1>8, <1>10, <3>2
    <3>3. CASE k # e.kind
      BY <1>8, <1>10, <2>1, <3>3 DEF PolicyInv, PolicyIsLastRequest
    <3> QED BY <3>1, <3>2, <3>3
  <2>2. \A k \in PolicyKinds : stored'[k] # NoSetting =>
            \E x, y \in answered'[k] : stored'[k] = [on |-> x.on, level |-> y.level]
    BY <2>1 DEF MadeOf
  <2> QED BY <2>2 DEF PolicyIsLastRequest, MadeOf
<1>17. LogoHasBytes'
  BY <1>4 DEF PolicyInv, LogoHasBytes
<1> QED BY <1>12, <1>13, <1>14, <1>15, <1>16, <1>17 DEF PolicyInv

\* A request that changes nothing reads the row back and commits its audit row: the rows stay.
LEMMA ReadBackStep ==
    ASSUME PolicyInv, NEW w \in Setters, ReadBack(w)
    PROVE  PolicyInv'
<1>1. PICK e : e = [patch[w] EXCEPT !.seen = stored[patch[w].kind]]
  OBVIOUS
<1>2. /\ patch' = [patch EXCEPT ![w] = e] /\ patch[w] # NoPatch /\ patch[w].ask = patch[w].read
      /\ UNCHANGED <<ceiling, usable, stored, logo, marks, settings, audited, answered>>
  BY <1>1 DEF ReadBack
<1>3. patch[w].kind \in PolicyKinds /\ patch[w] \in PatchesOf(patch[w].kind)
  BY <1>2 DEF PolicyInv, PatchesFit
<1>4. stored[patch[w].kind] \in RowsOf(patch[w].kind) \cup {NoSetting}
  BY <1>3 DEF PolicyInv, PolicyTypeOK
<1>5. /\ e \in PatchesOf(e.kind) /\ e.kind = patch[w].kind /\ e.read = patch[w].read /\ e.ask = patch[w].ask
      /\ e.clean = patch[w].clean /\ e.seen = stored[e.kind]
  BY <1>1, <1>3, <1>4 DEF PatchesOf
<1>6. patch'[w] = e /\ \A v \in Setters : v # w => patch'[v] = patch[v]
  BY <1>2 DEF PolicyInv, PolicyShapes
<1>7. PolicyShapes'
  BY <1>2 DEF PolicyInv, PolicyShapes
<1>8. PatchesFit'
  BY <1>2, <1>3, <1>5, <1>6 DEF PolicyInv, PatchesFit
<1>9. PolicyTypeOK'
  BY <1>2, <1>3, <1>5, <1>6 DEF PolicyInv, PolicyTypeOK
<1>10. AuditTellsTheRow' /\ PolicyIsLastRequest' /\ LogoHasBytes'
  BY <1>2 DEF PolicyInv, AuditTellsTheRow, PolicyIsLastRequest, LogoHasBytes
<1> QED BY <1>7, <1>8, <1>9, <1>10 DEF PolicyInv

\* What a request that leaves the rows alone and ends keeps.
LEMMA PatchEndsKeeps ==
    ASSUME PolicyInv, NEW w \in Setters, patch' = [patch EXCEPT ![w] = NoPatch],
           UNCHANGED <<ceiling, usable, stored, logo, marks, settings>>
    PROVE  PatchesFit' /\ LogoHasBytes' /\ DOMAIN patch' = Setters /\ patch' = [v \in Setters |-> patch'[v]]
           /\ \A v \in Setters : patch'[v].kind # "none" =>
                  patch'[v].kind \in PolicyKinds /\ patch'[v] \in PatchesOf(patch'[v].kind)
<1>1. \A v \in Setters : patch'[v] = patch[v] \/ patch'[v] = NoPatch
  BY DEF PolicyInv, PolicyShapes
<1>2. DOMAIN patch' = Setters /\ patch' = [v \in Setters |-> patch'[v]]
  BY DEF PolicyInv, PolicyShapes
<1>3. PatchesFit'
  BY <1>1 DEF PolicyInv, PatchesFit
<1>4. \A v \in Setters : patch'[v].kind # "none" =>
          patch'[v].kind \in PolicyKinds /\ patch'[v] \in PatchesOf(patch'[v].kind)
  BY <1>1 DEF PolicyInv, PatchesFit, NoPatch, Request
<1> QED BY <1>2, <1>3, <1>4 DEF PolicyInv, LogoHasBytes

LEMMA CommitNothingStep ==
    ASSUME PolicyInv, NEW w \in Setters, CommitNothing(w)
    PROVE  PolicyInv'
<1>1. PICK e : e = patch[w]
  OBVIOUS
<1>2. PICK told : told = Tells(e.kind, e.ask, e.seen)
  OBVIOUS
<1>3. /\ e # NoPatch /\ e.seen # NoSetting /\ Recounts(e, told) /\ patch' = [patch EXCEPT ![w] = NoPatch]
      /\ UNCHANGED <<ceiling, usable, stored, logo, marks, settings>>
  BY <1>1, <1>2 DEF CommitNothing
<1>4. /\ e.kind \in PolicyKinds /\ e.ask \in RowsOf(e.kind) /\ e.seen \in RowsOf(e.kind) /\ e.clean \in BOOLEAN
  BY <1>1, <1>3, PatchTyped
<1>5. e.clean => stored[e.kind] = e.seen /\ stored[e.kind] = e.ask
  BY <1>1, <1>3 DEF PolicyInv, PatchesFit
<1>6. /\ told \subseteq RowsOf(e.kind)
      /\ e.kind = "tool" => told = {e.ask}
      /\ e.kind \in {"sandbox", "autonomy"} => told = {e.seen}
  BY <1>2, <1>4 DEF Tells
<1>7. /\ audited'[e.kind] = IF e.clean THEN told ELSE audited[e.kind] \cup told
      /\ answered'[e.kind] = IF e.clean THEN {e.ask} ELSE answered[e.kind] \cup {e.ask}
      /\ \A k \in PolicyKinds : k # e.kind => audited'[k] = audited[k] /\ answered'[k] = answered[k]
      /\ \A k \in PolicyKinds : audited'[k] \subseteq RowsOf(k) /\ answered'[k] \subseteq RowsOf(k)
      /\ DOMAIN audited' = PolicyKinds /\ audited' = [k \in PolicyKinds |-> audited'[k]]
      /\ DOMAIN answered' = PolicyKinds /\ answered' = [k \in PolicyKinds |-> answered'[k]]
  BY <1>3, <1>4, <1>6, RecountedOnes
<1>8. /\ PatchesFit' /\ LogoHasBytes' /\ DOMAIN patch' = Setters /\ patch' = [v \in Setters |-> patch'[v]]
      /\ \A v \in Setters : patch'[v].kind # "none" =>
             patch'[v].kind \in PolicyKinds /\ patch'[v] \in PatchesOf(patch'[v].kind)
  BY <1>3, PatchEndsKeeps
<1>9. PolicyShapes'
  BY <1>3, <1>7, <1>8 DEF PolicyInv, PolicyShapes
<1>10. PolicyTypeOK'
  BY <1>3, <1>7, <1>8 DEF PolicyInv, PolicyTypeOK
<1>11. \A k \in {"sandbox", "autonomy"} : stored[k] # NoSetting => stored[k] \in audited'[k]
  BY <1>5, <1>6, <1>7 DEF PolicyInv, AuditTellsTheRow, PolicyKinds
<1>12. ASSUME NEW k \in PolicyKinds, stored[k] # NoSetting PROVE MadeOf(stored[k], answered'[k])
  <2>1. CASE k = e.kind /\ e.clean
    BY <1>4, <1>5, <1>7, <2>1, MadeOfItself
  <2>2. CASE k # e.kind \/ ~e.clean
    <3>1. MadeOf(stored[k], answered[k]) /\ answered[k] \subseteq answered'[k]
      BY <1>7, <1>12, <2>2 DEF PolicyInv, PolicyIsLastRequest
    <3> QED BY <3>1 DEF MadeOf
  <2> QED BY <1>4, <2>1, <2>2
<1>13. ASSUME stored["tool"] # NoSetting PROVE MadeOf(stored["tool"], audited'["tool"])
  <2>1. CASE "tool" = e.kind /\ e.clean
    BY <1>4, <1>5, <1>6, <1>7, <2>1, MadeOfItself
  <2>2. CASE "tool" # e.kind \/ ~e.clean
    <3>1. MadeOf(stored["tool"], audited["tool"]) /\ audited["tool"] \subseteq audited'["tool"]
      BY <1>7, <1>13, <2>2 DEF PolicyInv, AuditTellsTheRow, PolicyKinds
    <3> QED BY <3>1 DEF MadeOf
  <2> QED BY <1>4, <2>1, <2>2
<1>14. AuditTellsTheRow' /\ PolicyIsLastRequest'
  BY <1>3, <1>11, <1>12, <1>13 DEF AuditTellsTheRow, PolicyIsLastRequest, MadeOf
<1> QED BY <1>8, <1>9, <1>10, <1>14 DEF PolicyInv

\* A transaction that rolls back leaves the rows alone.
LEMMA PatchFailsStep ==
    ASSUME PolicyInv, NEW w \in Setters, PatchFails(w)
    PROVE  PolicyInv'
<1>1. /\ patch' = [patch EXCEPT ![w] = NoPatch]
      /\ UNCHANGED <<ceiling, usable, stored, logo, marks, settings, audited, answered>>
  BY DEF PatchFails
<1>2. /\ PatchesFit' /\ LogoHasBytes' /\ DOMAIN patch' = Setters /\ patch' = [v \in Setters |-> patch'[v]]
      /\ \A v \in Setters : patch'[v].kind # "none" =>
             patch'[v].kind \in PolicyKinds /\ patch'[v] \in PatchesOf(patch'[v].kind)
  BY <1>1, PatchEndsKeeps
<1> QED BY <1>1, <1>2 DEF PolicyInv, PolicyTypeOK, PolicyShapes, AuditTellsTheRow, PolicyIsLastRequest

\* The logo, and what happens around the requests.
LEMMA SettingSteps ==
    ASSUME PolicyInv,
           \/ \E mark \in Logos : SetTenantLogo(mark)
           \/ ClearTenantLogo
           \/ \E limit \in 1..TopLevel : Redeploy(limit)
           \/ \E offer \in SUBSET FallbackModels : ModelsChange(offer)
           \/ UNCHANGED policyVars
    PROVE  PolicyInv'
<1>1. UNCHANGED <<stored, patch, audited, answered>>
  BY DEF SetTenantLogo, ClearTenantLogo, Redeploy, ModelsChange, policyVars
<1>2. settings' \in 0..MaxSettings
  BY PolicyAssumption DEF SetTenantLogo, ClearTenantLogo, Redeploy, ModelsChange, policyVars, PolicyInv, PolicyTypeOK
<1>3. logo' \in Logos \cup {NoSetting} /\ marks' \in SUBSET Logos /\ LogoHasBytes'
  BY DEF SetTenantLogo, StoredThenNamed, ClearTenantLogo, Redeploy, ModelsChange, policyVars,
         PolicyInv, PolicyTypeOK, LogoHasBytes
<1>4. ceiling' \in 1..TopLevel /\ usable' \in SUBSET FallbackModels
  BY DEF SetTenantLogo, ClearTenantLogo, Redeploy, ModelsChange, policyVars, PolicyInv, PolicyTypeOK
<1>5. PolicyTypeOK'
  BY <1>1, <1>2, <1>3, <1>4 DEF PolicyInv, PolicyTypeOK
<1> QED BY <1>1, <1>3, <1>5 DEF PolicyInv, AuditTellsTheRow, PolicyIsLastRequest, PatchesFit, PolicyShapes

LEMMA PolicyBegins ==
    ASSUME PolicyInit
    PROVE  PolicyInv
<1>1. Unset \in RowsOf("tenant") /\ IsInjective(Unset.on) /\ "tenant" \in PolicyKinds
  <2>1. <<>> \in [1..0 -> FallbackModels] /\ 0 \in 0..MaxFallbacks
    BY PolicyAssumption
  <2>2. <<>> \in Chains /\ 0 \in PolicyLevels
    BY <2>1, PolicyAssumption DEF Chains, PolicyLevels
  <2>3. IsInjective(<<>>)
    BY DEF IsInjective
  <2> QED BY <2>2, <2>3 DEF Unset, RowsOf, PolicyKinds
<1>2. \A w \in Setters : patch[w] = NoPatch /\ patch[w].kind = "none"
  BY DEF PolicyInit, NoPatch, Request
<1>3. /\ stored["tenant"] = Unset /\ answered["tenant"] = {Unset}
      /\ \A k \in PolicyKinds : k # "tenant" => stored[k] = NoSetting /\ answered[k] = {}
      /\ \A k \in PolicyKinds : audited[k] = {}
  BY <1>1 DEF PolicyInit
<1>4. Unset # NoSetting
  BY <1>1, NoSettingAssumption
<1>5. PolicyTypeOK
  BY <1>1, <1>2, <1>3, <1>4, PolicyAssumption DEF PolicyInit, PolicyTypeOK, PolicyKinds
<1>6. MadeOf(Unset, {Unset})
  BY <1>1, MadeOfItself
<1>7. AuditTellsTheRow /\ PolicyIsLastRequest
  BY <1>3, <1>6 DEF AuditTellsTheRow, PolicyIsLastRequest, PolicyKinds
<1>8. PolicyShapes
  BY DEF PolicyInit, PolicyShapes
<1> QED BY <1>2, <1>5, <1>7, <1>8 DEF PolicyInit, PolicyInv, LogoHasBytes, PatchesFit

\* For any requests, levels, ceilings and models, and however requests overlap: a policy in
\* force is made of columns that the last request, or requests at the same time, asked for;
\* the audit tells the sandbox's and the cap's row whole and the columns of a tool's; a
\* logo has its bytes.
THEOREM PolicyHonest ==
    PolicySpec => []PolicyIsHonest
<1>1. PolicyInit => PolicyInv
  BY PolicyBegins
<1>2. PolicyInv /\ [PolicyNext]_policyVars => PolicyInv'
  <2> SUFFICES ASSUME PolicyInv, [PolicyNext]_policyVars PROVE PolicyInv'
    OBVIOUS
  <2>1. CASE \E w \in Setters, on \in BOOLEAN, level \in PolicyLevels :
                UpdateToolPolicy(w, on, level) \/ UpdateSandboxPolicy(w, on, level) \/ UpdatePreferences(w, on, level)
    BY <2>1, PolicyUpdateSteps
  <2>2. CASE \E w \in Setters, level \in PolicyLevels : UpdateAutonomyPolicy(w, level)
    BY <2>2, PolicyUpdateSteps
  <2>3. CASE \E w \in Setters, list \in Chains, turns \in PolicyLevels : UpdateTenantSettings(w, list, turns)
    BY <2>3, UpdateTenantSettingsStep
  <2>4. CASE \E w \in Setters : CommitPatch(w) \/ ReadBack(w) \/ CommitNothing(w) \/ PatchFails(w)
    BY <2>4, CommitPatchStep, ReadBackStep, CommitNothingStep, PatchFailsStep
  <2> QED BY <2>1, <2>2, <2>3, <2>4, SettingSteps DEF PolicyNext
<1>3. PolicyInv => PolicyIsHonest
  BY DEF PolicyInv, PolicyIsHonest
<1> QED BY <1>1, <1>2, <1>3, PTL DEF PolicySpec
=============================================================================
