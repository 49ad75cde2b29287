---------------------------- MODULE TenantPolicy ----------------------------
(***************************************************************************)
(* What the administrators of a tenant decide: tool policy, sandbox policy,  *)
(* autonomy cap, loop budget with the fallback models, logo; and a user's    *)
(* own preferences.  Every setting is one row that a request reads, changes  *)
(* and commits.  The ORM writes only the columns the request changed against *)
(* the row it read, and a second request's UPDATE waits for the first one's  *)
(* commit and applies to what it left.  A request that changes nothing sends *)
(* no UPDATE and waits for nobody.                                           *)
(*                                                                         *)
(* A row is two columns: `on' (enabled, the model a user prefers, or the     *)
(* tenant's fallback models) and `level' (the sandbox's four limits, a       *)
(* tool's need for approval, the autonomy cap, a user's instructions, or     *)
(* max_tool_turns, 0 for the default).                                       *)
(***************************************************************************)
EXTENDS Integers, Sequences, SequencesExt

CONSTANTS
    Setters,          \* concurrent settings requests
    TopLevel,         \* the highest level of any column
    FallbackModels,   \* the models an administrator may chain
    MaxFallbacks,     \* _MAX_FALLBACK_MODELS
    Logos,            \* brand marks that may be uploaded
    MaxSettings,      \* bound: settings requests, redeployments and changes of the models
    NoSetting

ASSUME PolicyAssumption == TopLevel \in Nat \ {0} /\ MaxFallbacks \in Nat \ {0} /\ MaxSettings \in Nat

VARIABLES
    ceiling,      \* the deployment's limits for the sandbox
    usable,       \* models the registry and the enabled providers offer
    stored,       \* the row of each kind
    logo,         \* tenants.logo_key
    marks,        \* logo objects in the store
    patch,        \* the requests in progress
    settings,     \* counts what MaxSettings bounds
    audited,      \* history: what the audit rows tell of a kind, back to the last request
                  \* that overlapped no other
    answered      \* history: what those requests asked for

policyVars == <<ceiling, usable, stored, logo, marks, patch, settings, audited, answered>>

PolicyKinds == {"tool", "sandbox", "autonomy", "preferences", "tenant"}
PolicyLevels == 0..TopLevel
Chains == UNION {[1..n -> FallbackModels] : n \in 0..MaxFallbacks}
RowsOf(kind) == [on : IF kind = "tenant" THEN Chains ELSE BOOLEAN, level : PolicyLevels]

ASSUME NoSettingAssumption == \A k \in PolicyKinds : NoSetting \notin RowsOf(k)

\* A request: the row it read, the row it asks for, the row a request that changes
\* nothing has read back, and whether no other was committed since it read.
Request(kind, read, ask, seen, clean) ==
    [kind |-> kind, read |-> read, ask |-> ask, seen |-> seen, clean |-> clean]
NoPatch == Request("none", NoSetting, NoSetting, NoSetting, TRUE)
PatchesOf(kind) == [kind : {kind}, read : RowsOf(kind) \cup {NoSetting}, ask : RowsOf(kind),
                    seen : RowsOf(kind) \cup {NoSetting}, clean : BOOLEAN]

\* The rows and the requests are well formed; a stored sandbox policy was legal for some
\* ceiling, so its limits are positive, and the fallback models differ.
PolicyTypeOK ==
    /\ ceiling \in 1..TopLevel /\ usable \in SUBSET FallbackModels
    /\ \A k \in PolicyKinds : stored[k] \in RowsOf(k) \cup {NoSetting}
    /\ logo \in Logos \cup {NoSetting} /\ marks \in SUBSET Logos
    /\ \A w \in Setters : patch[w].kind # "none" =>
          patch[w].kind \in PolicyKinds /\ patch[w] \in PatchesOf(patch[w].kind)
    /\ settings \in 0..MaxSettings
    /\ \A k \in PolicyKinds : audited[k] \subseteq RowsOf(k) /\ answered[k] \subseteq RowsOf(k)
    /\ stored["sandbox"] # NoSetting => stored["sandbox"].level >= 1
    /\ stored["tenant"] # NoSetting /\ IsInjective(stored["tenant"].on)

\* Only the tenant's own row is there from the start, with no setting in it.
Unset == [on |-> <<>>, level |-> 0]
PolicyInit ==
    /\ ceiling = TopLevel /\ usable = FallbackModels
    /\ stored = [k \in PolicyKinds |-> IF k = "tenant" THEN Unset ELSE NoSetting]
    /\ logo = NoSetting /\ marks = {} /\ patch = [w \in Setters |-> NoPatch] /\ settings = 0
    /\ audited = [k \in PolicyKinds |-> {}]
    /\ answered = [k \in PolicyKinds |-> IF k = "tenant" THEN {Unset} ELSE {}]

-----------------------------------------------------------------------------
(* The requests *)

\* The request is authorised and valid, and its transaction has read the row.
ReadRow(w, kind, ask) ==
    /\ patch[w] = NoPatch /\ settings < MaxSettings
    /\ settings' = settings + 1
    /\ patch' = [patch EXCEPT ![w] = Request(kind, stored[kind], ask, NoSetting, TRUE)]
    /\ UNCHANGED <<ceiling, usable, stored, logo, marks, audited, answered>>

\* update_tool_policy: for a registered tool.
UpdateToolPolicy(w, on, level) == level <= 1 /\ ReadRow(w, "tool", [on |-> on, level |-> level])

\* update_sandbox_policy: limits are positive and within the ceiling.
WithinCeilingOnly(level) == level <= ceiling
WithinCeiling(level) == level >= 1 /\ level <= ceiling
UpdateSandboxPolicy(w, on, level) ==
    WithinCeiling(level) /\ ReadRow(w, "sandbox", [on |-> on, level |-> level])

\* update_autonomy_policy: one column.
UpdateAutonomyPolicy(w, level) == ReadRow(w, "autonomy", [on |-> TRUE, level |-> level])

\* update_preferences: either field or both; one that is left out asks for what was read.
UpdatePreferences(w, on, level) == ReadRow(w, "preferences", [on |-> on, level |-> level])

\* update_tenant_settings: the budget, and a list of models unless it is left out: no
\* duplicates, no more than the bound, every model usable when the request validates it.
ValidatedFallbacks(list) == ToSet(list) \subseteq usable /\ IsInjective(list)
UpdateTenantSettings(w, list, turns) ==
    /\ list = stored["tenant"].on \/ ValidatedFallbacks(list)
    /\ ReadRow(w, "tenant", [on |-> list, level |-> turns])

-----------------------------------------------------------------------------
(* Writing a row *)

\* The UPDATE of the columns that differ from the row that was read.  A changed list of
\* fallback models is flushed first and the row read again under its lock, so that the
\* budget is then written as asked.
MergedLevelOnly(kind, read, ask, row) == [row EXCEPT !.level = ask.level]
Merged(kind, read, ask, row) ==
    [on |-> IF ask.on # read.on THEN ask.on ELSE row.on,
     level |-> IF ask.level # read.level \/ (kind = "tenant" /\ ask.on # read.on)
               THEN ask.level ELSE row.level]

TellsRequest(kind, ask, row) == IF kind \in {"tool", "sandbox", "autonomy"} THEN {ask} ELSE {}
\* The tool policy's audit row repeats the request; the sandbox's and the cap's tell the
\* row read back.  The budget's names what the request carries, and preferences have none.
Tells(kind, ask, row) ==
    CASE kind = "tool" -> {ask}
      [] kind \in {"sandbox", "autonomy"} -> {row}
      [] OTHER -> {}

\* A request that overlapped no other ends what came before it (history).
Recounts(e, told) ==
    /\ audited' = [audited EXCEPT ![e.kind] = IF e.clean THEN told ELSE @ \cup told]
    /\ answered' = [answered EXCEPT ![e.kind] = IF e.clean THEN {e.ask} ELSE @ \cup {e.ask}]

\* Every request that had read the row before this commit is no longer alone.
Stale(w, kind) == [v \in Setters |-> IF v = w THEN NoPatch
                                     ELSE IF patch[v].kind = kind THEN [patch[v] EXCEPT !.clean = FALSE]
                                     ELSE patch[v]]

\* The UPDATE or INSERT, which locks the row, then the audit row and the commit.  An
\* insert that finds a row ends in a unique violation and changes nothing.
CommitPatch(w) ==
    LET e == patch[w]
        row == IF e.read = NoSetting THEN e.ask ELSE Merged(e.kind, e.read, e.ask, stored[e.kind])
    IN
    /\ e # NoPatch /\ e.seen = NoSetting
    /\ e.read = NoSetting => stored[e.kind] = NoSetting
    /\ stored' = [stored EXCEPT ![e.kind] = row]
    /\ Recounts(e, Tells(e.kind, e.ask, row))
    /\ patch' = Stale(w, e.kind)
    /\ UNCHANGED <<ceiling, usable, logo, marks, settings>>

\* A request that changes no column (the same administrator sends it again) reads the row
\* back without a lock, and commits its audit row later.
ReadBack(w) ==
    /\ patch[w] # NoPatch /\ patch[w].seen = NoSetting /\ patch[w].ask = patch[w].read
    /\ patch' = [patch EXCEPT ![w].seen = stored[patch[w].kind]]
    /\ UNCHANGED <<ceiling, usable, stored, logo, marks, settings, audited, answered>>
CommitNothing(w) ==
    /\ patch[w] # NoPatch /\ patch[w].seen # NoSetting
    /\ Recounts(patch[w], Tells(patch[w].kind, patch[w].ask, patch[w].seen))
    /\ patch' = [patch EXCEPT ![w] = NoPatch]
    /\ UNCHANGED <<ceiling, usable, stored, logo, marks, settings>>

\* A unique violation, a refused commit or a lost client: the transaction rolls back.
PatchFails(w) ==
    /\ patch[w] # NoPatch
    /\ patch' = [patch EXCEPT ![w] = NoPatch]
    /\ UNCHANGED <<ceiling, usable, stored, logo, marks, settings, audited, answered>>

-----------------------------------------------------------------------------
(* The logo, and what happens around the requests *)

\* set_tenant_logo stores the object, then the key; the commit may fail in between.
RowFirst(mark) == logo' = mark /\ (marks' = marks \/ marks' = marks \cup {mark})
StoredThenNamed(mark) == marks' = marks \cup {mark} /\ (logo' = mark \/ logo' = logo)
SetTenantLogo(mark) ==
    /\ settings < MaxSettings
    /\ settings' = settings + 1 /\ StoredThenNamed(mark)
    /\ UNCHANGED <<ceiling, usable, stored, patch, audited, answered>>

\* clear_tenant_logo forgets the key and leaves the object.
ClearTenantLogo ==
    /\ logo # NoSetting /\ logo' = NoSetting
    /\ UNCHANGED <<ceiling, usable, stored, marks, patch, settings, audited, answered>>

\* A deployment with other limits.
Redeploy(limit) ==
    /\ settings < MaxSettings /\ settings' = settings + 1
    /\ ceiling' = limit
    /\ UNCHANGED <<usable, stored, logo, marks, patch, audited, answered>>

\* A provider is enabled, disabled or deleted, or the registry changes.
ModelsChange(offer) ==
    /\ settings < MaxSettings /\ settings' = settings + 1
    /\ usable' = offer
    /\ UNCHANGED <<ceiling, stored, logo, marks, patch, audited, answered>>

PolicyNext ==
    \/ \E w \in Setters, on \in BOOLEAN, level \in PolicyLevels :
          UpdateToolPolicy(w, on, level) \/ UpdateSandboxPolicy(w, on, level) \/ UpdatePreferences(w, on, level)
    \/ \E w \in Setters, level \in PolicyLevels : UpdateAutonomyPolicy(w, level)
    \/ \E w \in Setters, list \in Chains, turns \in PolicyLevels : UpdateTenantSettings(w, list, turns)
    \/ \E w \in Setters : CommitPatch(w) \/ ReadBack(w) \/ CommitNothing(w) \/ PatchFails(w)
    \/ \E mark \in Logos : SetTenantLogo(mark)
    \/ ClearTenantLogo
    \/ \E limit \in 1..TopLevel : Redeploy(limit)
    \/ \E offer \in SUBSET FallbackModels : ModelsChange(offer)

PolicySpec == PolicyInit /\ [][PolicyNext]_policyVars

-----------------------------------------------------------------------------
(* Properties *)

\* The row is made of columns of these rows.
MadeOf(row, rows) == \E x, y \in rows : row = [on |-> x.on, level |-> y.level]

\* Whoever looks up later who set the policy in force finds it: a request that overlapped
\* no other left exactly what its audit row tells, and after requests that did overlap one
\* of their audit rows tells the sandbox's or the cap's row whole; a tool's row, whose
\* audit repeats the request, may be a mixture none of them tells, made of what they tell.
AuditTellsTheRow ==
    /\ \A k \in {"sandbox", "autonomy"} : stored[k] # NoSetting => stored[k] \in audited[k]
    /\ stored["tool"] # NoSetting => MadeOf(stored["tool"], audited["tool"])

\* Every column of a policy in force was asked for by the last request answered or by one
\* that overlapped it: a request alone leaves exactly what it asked, and overlapping ones
\* leave no column that none of them asked for.
PolicyIsLastRequest ==
    \A k \in PolicyKinds : stored[k] # NoSetting => MadeOf(stored[k], answered[k])

\* The tenant's logo names an object that is stored.
LogoHasBytes == logo # NoSetting => logo \in marks

\* Policy is honest: what holds is what was asked last, or by requests at the same time,
\* the audit tells it, and a logo is stored (AuditTellsTheRow, PolicyIsLastRequest,
\* LogoHasBytes).
PolicyIsHonest == PolicyTypeOK /\ AuditTellsTheRow /\ PolicyIsLastRequest /\ LogoHasBytes

=============================================================================
