---------------------------- MODULE ProviderVault ----------------------------
(***************************************************************************)
(* Registered endpoints and their credentials: the LLM providers of a       *)
(* tenant (services/llm_providers_service), its MCP servers                 *)
(* (services/mcp_servers_service), the secrets vault both write to          *)
(* (services/secrets_service), the model routes of answers                  *)
(* (services/provider_models) and the MCP tool calls of runs.               *)
(*                                                                          *)
(* A provider is written under its row lock, held over the probe of the     *)
(* endpoint; an MCP server is not locked: SQLAlchemy writes the columns     *)
(* that differ from what the request loaded.  Routes and tool calls read    *)
(* the row first and its secret in a later statement.                       *)
(***************************************************************************)
EXTENDS Naturals, Sequences

CONSTANTS Users, Admins,  \* administrators among the users
          Rows,           \* registered endpoints
          Providers,      \* the rows that are LLM providers; the others are MCP servers
          Urls,
          Values,         \* the values a row's key takes over time
          None, Clear,
          MaxOps          \* bound: requests

ASSUME VaultAssumption ==
    /\ Admins \subseteq Users /\ Providers \subseteq Rows /\ MaxOps \in Nat
    /\ None \notin Urls \cup Values \cup Users /\ Clear \notin Values \cup {None}

VARIABLES rows,     \* llm_providers, mcp_servers
          secrets,  \* the vault, in order of creation
          req,      \* the request each user has under way
          holder,   \* who holds the lock of a provider's row
          sent,     \* <<row, key>>: keys sent to the endpoint of a row (history)
          shed,     \* secrets left behind, see Left (history)
          ops

vars == <<rows, secrets, req, holder, sent, shed, ops>>

\* A key is entered for one row.
Keys == Rows \X Values
\* catalog is the endpoint whose models or tools are listed; checked, whether
\* the catalog_discovered check passed; proved, the endpoint and key of the
\* last connection test (history).
RowOf == [live: BOOLEAN, owner: Users \cup {None}, url: Urls \cup {None}, ref: Nat,
          enabled: BOOLEAN, status: {"unknown", "reachable", "ready", "error"},
          catalog: Urls \cup {None}, checked: BOOLEAN,
          proved: (Urls \cup {None}) \X (Keys \cup {None})]
\* A row before it is registered; ref 0 is NULL.
NoRow == [live |-> FALSE, owner |-> None, url |-> None, ref |-> 0, enabled |-> TRUE,
          status |-> "unknown", catalog |-> None, checked |-> FALSE, proved |-> <<None, None>>]
SecretOf == [live: BOOLEAN, owner: Users, name: Rows, key: Keys]
\* What an update asks for: None leaves a field alone, Clear drops the key,
\* toggle enables or disables the row.
Changes == [url: Urls \cup {None}, auth: Values \cup {None, Clear}, toggle: BOOLEAN]
NoChange == [url |-> None, auth |-> None, toggle |-> FALSE]
Idle == [op |-> "none", row |-> None, snap |-> NoRow, change |-> NoChange, stale |-> FALSE]
Ops == {"none", "create", "update", "refresh", "test", "delete", "use"}

Init ==
    /\ rows = [r \in Rows |-> NoRow] /\ secrets = <<>>
    /\ req = [u \in Users |-> Idle] /\ holder = [r \in Rows |-> None]
    /\ sent = {} /\ shed = {} /\ ops = 0

----------------------------------------------------------------------------
(* The vault. *)

\* A secret's value is for its owner and for administrators.
MayAccess(u, s) == u \in Admins \/ secrets[s].owner = u
Held(s) == s \in DOMAIN secrets /\ secrets[s].live
\* get_secret_plaintext: the value, or nothing where it is refused.
Plaintext(u, s) == IF Held(s) /\ MayAccess(u, s) THEN secrets[s].key ELSE None
\* A secret is found by its owner and name.
NamedByOwner(u, r) == {s \in DOMAIN secrets : secrets[s].live /\ secrets[s].owner = u}
Named(u, r) == {s \in DOMAIN secrets : secrets[s].live /\ secrets[s].owner = u /\ secrets[s].name = r}
\* store_secret rotates the value of a known name in place.
Stored(u, r, key) ==
    IF Named(u, r) = {} THEN Append(secrets, [live |-> TRUE, owner |-> u, name |-> r, key |-> key])
    ELSE [s \in DOMAIN secrets |-> IF s \in Named(u, r) THEN [secrets[s] EXCEPT !.key = key] ELSE secrets[s]]
RefStored(u, r) == IF Named(u, r) = {} THEN Len(secrets) + 1 ELSE CHOOSE s \in Named(u, r) : TRUE
\* delete_secret; a secret the user may not see stays, and the caller goes on.
DroppedNothing(u, s) == secrets
Dropped(u, s) ==
    [t \in DOMAIN secrets |-> IF t = s /\ MayAccess(u, t) THEN [secrets[t] EXCEPT !.live = FALSE] ELSE secrets[t]]

----------------------------------------------------------------------------
(* Requests: the row is read, the endpoint probed, the outcome committed. *)

\* Providers are managed by administrators, an MCP server by its owner too.
MayManage(u, r) == u \in Admins \/ (r \notin Providers /\ rows[r].owner = u)
\* SELECT ... FOR UPDATE on the row of a provider, held until the commit.
LockFreeAlways(u, r, op) == TRUE
LockFree(u, r, op) == r \in Providers /\ op # "use" => holder[r] = None

\* A test needs a model of a catalog that was discovered.
Testable(r) == r \in Providers => rows[r].checked /\ rows[r].catalog # None
\* A model route takes a provider that is enabled and READY; the tools of a
\* run come from the owner's enabled servers.
IsRoutable(r) == rows[r].enabled /\ rows[r].status = "ready"
Offered(u, r) == rows[r].owner = u /\ rows[r].enabled
Usable(u, r) == rows[r].catalog # None /\ IF r \in Providers THEN IsRoutable(r) ELSE Offered(u, r)

\* A registration inserts a row of its own.
Unregistered(r) == /\ ~rows[r].live /\ rows[r].owner = None
                   /\ \A v \in Users : req[v].op = "create" => req[v].row # r

Admitted(u, r, op) ==
    CASE op = "create" -> Unregistered(r) /\ (r \in Providers => u \in Admins)
      [] op = "use"    -> rows[r].live /\ Usable(u, r)
      [] op = "test"   -> rows[r].live /\ MayManage(u, r) /\ Testable(r)
      [] OTHER         -> rows[r].live /\ MayManage(u, r)

\* A registration names the endpoint; only registrations and updates carry a
\* change.  Bound: an update that toggles a row changes nothing else.
ChangesOf(op) ==
    CASE op = "create" -> {c \in Changes : c.url # None /\ c.auth # Clear /\ ~c.toggle}
      [] op = "update" -> {c \in Changes : c.toggle => c.url = None /\ c.auth = None} \ {NoChange}
      [] OTHER         -> {NoChange}

\* The request authorises, reads the row and, for a provider, locks it.
Begin(u, r, op, change) ==
    /\ req[u] = Idle /\ ops < MaxOps
    /\ Admitted(u, r, op) /\ LockFree(u, r, op)
    /\ op = "refresh" => r \in Providers
    /\ req' = [req EXCEPT ![u] = [op |-> op, row |-> r, snap |-> rows[r], change |-> change, stale |-> FALSE]]
    /\ holder' = [holder EXCEPT ![r] = IF r \in Providers /\ op # "use" THEN u ELSE @]
    /\ ops' = ops + 1
    /\ UNCHANGED <<rows, secrets, sent, shed>>

\* A flush writes the columns the request changed, and no other.
Written(old, new, now) == IF new = old THEN now ELSE new
Flush(snap, new, row) ==
    [live |-> Written(snap.live, new.live, row.live), owner |-> Written(snap.owner, new.owner, row.owner),
     url |-> Written(snap.url, new.url, row.url), ref |-> Written(snap.ref, new.ref, row.ref),
     enabled |-> Written(snap.enabled, new.enabled, row.enabled),
     status |-> Written(snap.status, new.status, row.status),
     catalog |-> Written(snap.catalog, new.catalog, row.catalog),
     checked |-> Written(snap.checked, new.checked, row.checked),
     proved |-> Written(snap.proved, new.proved, row.proved)]

\* Live secrets the row no longer points at, where the code leaves them: a
\* user stored a secret of its own over another's, could not delete another's,
\* or wrote over a row that changed since it was read.
Left(u, r, ref, vault) ==
    {s \in DOMAIN vault : /\ vault[s].live /\ vault[s].name = r /\ ref # s
                          /\ vault[s].owner # u \/ req[u].stale}

\* The commit of a request: the row it computed from the one it loaded, the
\* vault, the key it sent; others on the row now hold a stale copy.
Commit(u, new, vault, key) ==
    LET r == req[u].row
        row == IF new.live THEN Flush(req[u].snap, new, rows[r]) ELSE new
    IN /\ rows' = [rows EXCEPT ![r] = row] /\ secrets' = vault
       /\ sent' = IF key = None THEN sent ELSE sent \cup {<<r, key>>}
       /\ shed' = shed \cup Left(u, r, row.ref, vault)
       /\ req' = [v \in Users |-> IF v = u THEN Idle
                                 ELSE IF req[v].row = r THEN [req[v] EXCEPT !.stale = TRUE] ELSE req[v]]
       /\ holder' = [holder EXCEPT ![r] = IF @ = u THEN None ELSE @]
       /\ UNCHANGED ops

\* A request on a row of the given kind is ready to write; the row is there.
Ready(u, op, providers) ==
    /\ req[u].op = op /\ (req[u].row \in Providers) = providers
    /\ op # "create" => rows[req[u].row].live

----------------------------------------------------------------------------
(* What registrations and updates write. *)

\* The vault after the change of the key: a new value is stored, a cleared one deleted.
Vault(u) ==
    LET change == req[u].change
    IN IF change.auth \in Values THEN Stored(u, req[u].row, <<req[u].row, change.auth>>)
       ELSE IF change.auth = Clear /\ req[u].snap.ref # 0 THEN Dropped(u, req[u].snap.ref) ELSE secrets
RefChanged(u, ref) ==
    IF req[u].change.auth = Clear THEN 0
    ELSE IF req[u].change.auth = None THEN ref ELSE RefStored(u, req[u].row)
\* The row a request registers, and the row with the fields of its change.
Created(u) == [NoRow EXCEPT !.live = TRUE, !.owner = u, !.url = req[u].change.url, !.ref = RefChanged(u, 0)]
Updated(u) ==
    [req[u].snap EXCEPT !.url = IF req[u].change.url = None THEN req[u].snap.url ELSE req[u].change.url,
                        !.enabled = (req[u].snap.enabled # req[u].change.toggle),
                        !.ref = RefChanged(u, req[u].snap.ref)]
\* Discovery after every change of the endpoint or of its key.
Reprobes(u) == req[u].change.url # None \/ req[u].change.auth # None
\* The probe of an endpoint: a catalog under REACHABLE, or ERROR and the
\* catalog known before.
Discovered(row, ok) ==
    IF ok THEN [row EXCEPT !.status = "reachable", !.catalog = row.url, !.checked = TRUE]
    ELSE [row EXCEPT !.status = "error", !.checked = FALSE]
KeyIn(vault, ref) == IF ref = 0 THEN None ELSE vault[ref].key

----------------------------------------------------------------------------
(* LLM providers. *)

CreateProvider(u, ok) ==
    /\ Ready(u, "create", TRUE)
    /\ Commit(u, Discovered(Created(u), ok), Vault(u), KeyIn(Vault(u), Created(u).ref))
UpdateProvider(u, ok) ==
    /\ Ready(u, "update", TRUE) /\ (Reprobes(u) \/ ok)
    /\ IF Reprobes(u) THEN Commit(u, Discovered(Updated(u), ok), Vault(u), KeyIn(Vault(u), Updated(u).ref))
       ELSE Commit(u, Updated(u), Vault(u), None)
RefreshProvider(u, ok) ==
    /\ Ready(u, "refresh", TRUE)
    /\ Commit(u, Discovered(req[u].snap, ok), secrets, KeyIn(secrets, req[u].snap.ref))
\* test_connection: READY or ERROR, over the catalog it had.
Tested(row, key, ok) ==
    IF ok THEN [row EXCEPT !.status = "ready", !.checked = TRUE, !.proved = <<row.url, key>>]
    ELSE [row EXCEPT !.status = "error", !.checked = TRUE]
TestProvider(u, ok) ==
    LET key == Plaintext(u, req[u].snap.ref)
    IN Ready(u, "test", TRUE) /\ Commit(u, Tested(req[u].snap, key, ok), secrets, key)
\* The secret of the row the request loaded is deleted, then the row.
Deleted(u) == [NoRow EXCEPT !.owner = req[u].snap.owner]
VaultWithout(u) == IF req[u].snap.ref = 0 THEN secrets ELSE Dropped(u, req[u].snap.ref)
DeleteProvider(u) == Ready(u, "delete", TRUE) /\ Commit(u, Deleted(u), VaultWithout(u), None)

----------------------------------------------------------------------------
(* MCP servers. *)

RegisterServer(u) == Ready(u, "create", FALSE) /\ Commit(u, Created(u), Vault(u), None)
\* The endpoint may change under the status and the tools of the old one.
UpdateServer(u) == Ready(u, "update", FALSE) /\ Commit(u, Updated(u), Vault(u), None)
\* The row goes with whatever other requests wrote to it.
DeleteServer(u) == Ready(u, "delete", FALSE) /\ Commit(u, Deleted(u), VaultWithout(u), None)
\* The tools are listed on a second connection, whose failure lists none; a
\* failed probe keeps the tools the request loaded.
Probed(row, ok, listed) ==
    IF ok THEN [row EXCEPT !.status = "ready", !.catalog = IF listed THEN row.url ELSE None]
    ELSE [row EXCEPT !.status = "error"]
TestServer(u, ok, listed) ==
    /\ Ready(u, "test", FALSE) /\ (ok \/ listed)
    /\ Commit(u, Probed(req[u].snap, ok, listed), secrets, Plaintext(u, req[u].snap.ref))

----------------------------------------------------------------------------
(* Model routes and MCP calls: the secret is read after the row. *)

CredentialOf(u) == Plaintext(u, req[u].snap.ref)
Use(u, key) ==
    /\ sent' = IF key = None THEN sent ELSE sent \cup {<<req[u].row, key>>}
    /\ req' = [req EXCEPT ![u] = Idle]
    /\ UNCHANGED <<rows, secrets, holder, shed, ops>>
\* A route whose key cannot be read is refused.
Refused(u) == req[u].snap.ref # 0 /\ CredentialOf(u) = None
Route(u) == /\ req[u].op = "use" /\ req[u].row \in Providers
            /\ Use(u, IF Refused(u) THEN None ELSE CredentialOf(u))
\* An MCP call whose credential cannot be read goes out without it.
CallTool(u) == req[u].op = "use" /\ req[u].row \notin Providers /\ Use(u, CredentialOf(u))

\* The row was deleted meanwhile, or the request dies: it rolls back.
RollBack(u) ==
    /\ req[u].op \notin {"none", "use"}
    /\ req' = [req EXCEPT ![u] = Idle]
    /\ holder' = [holder EXCEPT ![req[u].row] = IF @ = u THEN None ELSE @]
    /\ UNCHANGED <<rows, secrets, sent, shed, ops>>

Next ==
    \E u \in Users :
        \/ \E r \in Rows, op \in Ops \ {"none"} : \E change \in ChangesOf(op) : Begin(u, r, op, change)
        \/ \E ok \in BOOLEAN : CreateProvider(u, ok) \/ UpdateProvider(u, ok) \/ RefreshProvider(u, ok) \/ TestProvider(u, ok)
        \/ \E ok, listed \in BOOLEAN : TestServer(u, ok, listed)
        \/ DeleteProvider(u) \/ RegisterServer(u) \/ UpdateServer(u) \/ DeleteServer(u)
        \/ Route(u) \/ CallTool(u) \/ RollBack(u)

Spec == Init /\ [][Next]_vars

----------------------------------------------------------------------------
(* Correctness. *)

\* The state is well formed, and a row lock is held by a request on that row.
TypeOK ==
    /\ \A r \in Rows : rows[r] \in RowOf /\ holder[r] \in Users \cup {None}
    /\ \A s \in DOMAIN secrets : secrets[s] \in SecretOf
    /\ \A u \in Users : /\ req[u].op \in Ops /\ req[u].snap \in RowOf /\ req[u].change \in Changes
                        /\ req[u].row \in Rows \cup {None} /\ req[u].stale \in BOOLEAN
    /\ \A r \in Rows : holder[r] # None => req[holder[r]].row = r
    /\ sent \subseteq Rows \X Keys /\ shed \subseteq DOMAIN secrets /\ ops \in 0..MaxOps

\* A provider that is READY was tested at the base URL and with the key it has
\* now, and lists the models of that URL: no change of either survives under a
\* verdict reached for the old ones, whatever requests overlap.
ReadyIsTested ==
    \A r \in Providers : rows[r].status = "ready" =>
        /\ rows[r].proved = <<rows[r].url, KeyIn(secrets, rows[r].ref)>>
        /\ rows[r].catalog = rows[r].url

\* A row points at a live secret stored for it, and a live secret is the one
\* its row points at, unless the code is known to have left it behind: clearing
\* or rotating a key and deleting a row leave no other credential in the vault.
SecretsAreReferenced ==
    /\ \A r \in Rows : rows[r].ref # 0 => Held(rows[r].ref) /\ secrets[rows[r].ref].name = r
    /\ \A s \in DOMAIN secrets : Held(s) => rows[secrets[s].name].ref = s \/ s \in shed

\* A key is sent to the endpoint of the row it was entered for and to no
\* other, by probes, routes and tool calls alike, however requests overlap.
KeysStayWithTheirRow == \A p \in sent : p[2][1] = p[1]

\* Credentials are sound: a READY provider is the one that was tested
\* (ReadyIsTested), rows and secrets agree (SecretsAreReferenced) and a key is
\* sent only where it was entered for (KeysStayWithTheirRow).
CredentialsAreSound == TypeOK /\ ReadyIsTested /\ SecretsAreReferenced /\ KeysStayWithTheirRow

=============================================================================
