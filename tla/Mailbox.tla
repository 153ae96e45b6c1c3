------------------------------ MODULE Mailbox ------------------------------
(***************************************************************************)
(* One mailbox of one user: its row, its stored credential, what the web   *)
(* process remembers about it, and what the provider still accepts         *)
(* (accounts.py, cache.py, browse.py, oauth.py).                           *)
(*                                                                         *)
(* The provider grants consent once per connection; a grant's refresh      *)
(* tokens are numbered, and every refresh may hand out the next one.  An   *)
(* access token is worth what its grant is worth.  Requests of the web     *)
(* process share the access tokens and the browsed headers it keeps in     *)
(* memory; the command line has its own memory, which ends with it.        *)
(*                                                                         *)
(* A request is one transaction at READ COMMITTED.  A row it has updated   *)
(* stays locked until it ends, and an update or delete that finds its row  *)
(* gone fails; the first row it updates is the person's own (UserRowFree). *)
(* The memory of the process is changed at once and is not put back when   *)
(* the transaction fails.                                                  *)
(*                                                                         *)
(* Left out: IMAP, whose stored password is its access token; display      *)
(* columns; sealing, of which crypto.py makes a bijection.                 *)
(***************************************************************************)
EXTENDS Integers

CONSTANTS
    Workers,       \* requests that can be in progress at the same time
    Places,        \* where requests come from, a subset of {"web", "cli"}
    SingleUse,     \* a refresh token is refused once it has been exchanged
    Faults,        \* what may go wrong, a subset of {"fail", "restart"}
    NoRow, None,   \* no account row; no credential, no token
    MaxAccounts,   \* bound: account rows ever inserted
    MaxGrants,     \* bound: consents ever given
    MaxRotations   \* bound: times a grant's refresh token is replaced

Ids == 1 .. MaxAccounts
Grants == 1 .. MaxGrants
Status == {"connected", "needs_reauth"}

(* by is where the row was last connected from; the table does not say.    *)
Row == [id: Ids, status: Status, by: {"web", "cli"}]
Credential == [grant: Grants, n: 0 .. MaxRotations]

ASSUME BoundsAssumption ==
    /\ MaxAccounts \in Nat
    /\ MaxGrants \in Nat
    /\ MaxRotations \in Nat
    /\ NoRow \notin Row
    /\ None \notin Credential \cup Grants
    /\ SingleUse \in BOOLEAN
    /\ Places \subseteq {"web", "cli"}

VARIABLES
    row,      \* the row of mail_accounts
    token,    \* the credential in oauth_tokens
    consent,  \* grants the provider honours
    newest,   \* the newest refresh token of each grant
    access,   \* _access_tokens of the web process
    headers,  \* accounts with entries in its header cache
    req,      \* what each request is doing
    nextId, nextGrant

memory == <<access, headers>>
database == <<row, token>>
provider == <<consent, newest>>
counters == <<nextId, nextGrant>>
vars == <<database, provider, memory, req, counters>>

(* What a request wants: the month page, a selection, "account test", or   *)
(* something that uses the connector directly (folders, submission).       *)
Wants == {"page", "add", "test", "fetch"}

(* status is the session's copy of the column, wrote whether the session   *)
(* has updated it, held whether it has updated the account or its token.   *)
(* old is the credential it read and cred the one the provider returned.   *)
Idle == [op |-> "idle"]
UseReq == [op: {"open", "refresh", "refreshed", "call", "done"},
           place: Places, want: Wants, id: Ids, status: Status,
           wrote: BOOLEAN, held: BOOLEAN,
           old: Credential \cup {None}, cred: Credential \cup {None},
           with: Grants \cup {None}]
ConnectReq == [op: {"connect"}, place: Places, id: Ids, cred: Credential]
DropReq == [op: {"drop"}, place: Places, id: Ids]
Request == {Idle} \cup UseReq \cup ConnectReq \cup DropReq

TypeOK ==
    /\ row \in Row \cup {NoRow}
    /\ token \in Credential \cup {None}
    /\ consent \subseteq Grants
    /\ newest \in [Grants -> 0 .. MaxRotations]
    /\ access \in [Ids -> Grants \cup {None}]
    /\ headers \subseteq Ids
    /\ req \in [Workers -> Request]
    /\ nextId \in 1 .. MaxAccounts + 1
    /\ nextGrant \in 1 .. MaxGrants + 1

Init ==
    /\ row = NoRow
    /\ token = None
    /\ consent = {}
    /\ newest = [g \in Grants |-> 0]
    /\ access = [i \in Ids |-> None]
    /\ headers = {}
    /\ req = [w \in Workers |-> Idle]
    /\ nextId = 1
    /\ nextGrant = 1

Become(w, r) == req' = [req EXCEPT ![w] = r]
Present(id) == row # NoRow /\ row.id = id
Holds(v) == \/ req[v].op = "connect"
            \/ req[v].op \in {"call", "done"} /\ req[v].held
Free(w) == \A v \in Workers \ {w} : ~Holds(v)

(* What a request may update: a row that is still there and that nobody    *)
(* else has updated.                                                       *)
Writable(w) == Present(req[w].id) /\ Free(w)

Accepted(c) == c.grant \in consent /\ (SingleUse => c.n = newest[c.grant])

(* Mutant: authorize() is called with touch=False. *)
UserRowUnlocked == TRUE

(* authorize() sets last_seen_at, so a request gets past its first query   *)
(* only when no other request of the same person is in progress.           *)
UserRowFree == \A v \in Workers : req[v] = Idle

SetStatus(r, s) == [r EXCEPT !.status = s, !.wrote = @ \/ r.status # s]

(* Mutant: an account keeps the first access token it gets. *)
RememberedFirst(place, id, g) ==
    IF place = "web" /\ access[id] = None THEN [access EXCEPT ![id] = g] ELSE access

Remembered(place, id, g) ==
    IF place = "web" THEN [access EXCEPT ![id] = g] ELSE access

-----------------------------------------------------------------------------
(* connect_oauth_account.  The access token is remembered before commit.   *)

(* Mutants: a reconnect leaves the status as it is; a status that the      *)
(* check constraint does not list.                                         *)
StatusOnConnectOld == IF row = NoRow THEN "connected" ELSE row.status
StatusOnConnectOther == "active"

StatusOnConnect == "connected"

Connect(w, place) ==
    LET id == IF row = NoRow THEN nextId ELSE row.id IN
    /\ req[w] = Idle
    /\ UserRowFree
    /\ Free(w)
    /\ nextGrant \in Grants
    /\ id \in Ids
    /\ Become(w, [op |-> "connect", place |-> place, id |-> id,
                  cred |-> [grant |-> nextGrant, n |-> 0]])
    /\ consent' = consent \cup {nextGrant}
    /\ nextGrant' = nextGrant + 1
    /\ nextId' = IF row = NoRow THEN nextId + 1 ELSE nextId
    /\ access' = Remembered(place, id, nextGrant)
    /\ UNCHANGED <<row, token, newest, headers>>

ConnectCommit(w) ==
    /\ req[w].op = "connect"
    /\ row' = [id |-> req[w].id, status |-> StatusOnConnect, by |-> req[w].place]
    /\ token' = req[w].cred
    /\ Become(w, Idle)
    /\ UNCHANGED <<provider, memory, counters>>

-----------------------------------------------------------------------------
(* disconnect_account.  The process forgets first, then the rows go.       *)

(* Mutant: the cached headers are left to expire. *)
DisconnectKeepsHeaders(w, place) ==
    /\ req[w] = Idle
    /\ UserRowFree
    /\ row # NoRow
    /\ access' = IF place = "web" THEN [access EXCEPT ![row.id] = None] ELSE access
    /\ Become(w, [op |-> "drop", place |-> place, id |-> row.id])
    /\ UNCHANGED <<database, provider, headers, counters>>

Disconnect(w, place) ==
    /\ req[w] = Idle
    /\ UserRowFree
    /\ row # NoRow
    /\ IF place = "web"
         THEN /\ access' = [access EXCEPT ![row.id] = None]
              /\ headers' = headers \ {row.id}
         ELSE UNCHANGED memory
    /\ Become(w, [op |-> "drop", place |-> place, id |-> row.id])
    /\ UNCHANGED <<database, provider, counters>>

(* Mutant: the account row goes and its credential is kept. *)
DisconnectCommitKeeps(w) ==
    /\ req[w].op = "drop"
    /\ Writable(w)
    /\ row' = NoRow
    /\ Become(w, Idle)
    /\ UNCHANGED <<token, provider, memory, counters>>

DisconnectCommit(w) ==
    /\ req[w].op = "drop"
    /\ Writable(w)
    /\ row' = NoRow
    /\ token' = None
    /\ Become(w, Idle)
    /\ UNCHANGED <<provider, memory, counters>>

-----------------------------------------------------------------------------
(* Opening a connector (open_connector, _access_token_for).                *)

Begin(w, place, want) ==
    /\ req[w] = Idle
    /\ UserRowFree
    /\ row # NoRow
    /\ Become(w, [op |-> "open", place |-> place, want |-> want, id |-> row.id,
                  status |-> row.status, wrote |-> FALSE, held |-> FALSE,
                  old |-> None, cred |-> None, with |-> None])
    /\ UNCHANGED <<database, provider, memory, counters>>

UseRemembered(w) ==
    LET r == req[w] IN
    /\ r.op = "open"
    /\ r.place = "web" /\ access[r.id] # None
    /\ Become(w, [r EXCEPT !.op = "call", !.with = access[r.id]])
    /\ UNCHANGED <<database, provider, memory, counters>>

OpenSecret(w) ==
    LET r == req[w] IN
    /\ r.op = "open"
    /\ ~(r.place = "web" /\ access[r.id] # None)
    /\ Present(r.id) /\ token # None
    /\ Become(w, [r EXCEPT !.op = "refresh", !.old = token])
    /\ UNCHANGED <<database, provider, memory, counters>>

(* The token endpoint answers: with the refresh token it was given, or     *)
(* with the next one.                                                      *)
Refresh(w) ==
    LET r == req[w]
        g == r.old.grant
    IN
    /\ r.op = "refresh"
    /\ Accepted(r.old)
    /\ \/ /\ Become(w, [r EXCEPT !.op = "refreshed", !.cred = r.old])
          /\ UNCHANGED newest
       \/ /\ newest[g] < MaxRotations
          /\ newest' = [newest EXCEPT ![g] = @ + 1]
          /\ Become(w, [r EXCEPT !.op = "refreshed",
                                 !.cred = [grant |-> g, n |-> newest[g] + 1]])
    /\ UNCHANGED <<database, consent, memory, counters>>

(* Mutant: a rotated refresh token is not sealed. *)
FlushOldToken(w) ==
    LET r == req[w] IN
    /\ r.op = "refreshed"
    /\ Writable(w)
    /\ Become(w, [SetStatus(r, "connected") EXCEPT
                    !.op = "call", !.held = TRUE, !.with = r.old.grant,
                    !.cred = r.old])
    /\ access' = Remembered(r.place, r.id, r.old.grant)
    /\ UNCHANGED <<database, provider, headers, counters>>

(* The token row is updated in any case (access_expires_at). *)
Flush(w) ==
    LET r == req[w] IN
    /\ r.op = "refreshed"
    /\ Writable(w)
    /\ Become(w, [SetStatus(r, "connected") EXCEPT
                    !.op = "call", !.held = TRUE, !.with = r.old.grant])
    /\ access' = Remembered(r.place, r.id, r.old.grant)
    /\ UNCHANGED <<database, provider, headers, counters>>

(* ReauthRequired: the month page of the web application and "account      *)
(* test" catch it and commit the status; elsewhere, as in "messages list", *)
(* it rolls the request back.                                              *)
PageOnTheWeb(r) == r.want = "page" /\ r.place = "web"

Report(w, s) ==
    LET catches == PageOnTheWeb(req[w]) \/ req[w].want = "test" IN
    \/ /\ catches
       /\ Writable(w)
       /\ Become(w, [SetStatus(req[w], s) EXCEPT !.op = "done", !.held = TRUE])
    \/ /\ ~catches
       /\ Become(w, Idle)

RefreshRejected(w) ==
    /\ req[w].op = "refresh"
    /\ ~Accepted(req[w].old)
    /\ Report(w, "needs_reauth")
    /\ UNCHANGED <<database, provider, memory, counters>>

-----------------------------------------------------------------------------
(* Using it (browse, list_folders, verify_account, submit_report).         *)

Browses(r) == r.want \in {"page", "add"}

FromCache(w) ==
    LET r == req[w] IN
    /\ r.op = "call"
    /\ Browses(r) /\ r.place = "web" /\ r.id \in headers
    /\ Become(w, [r EXCEPT !.op = "done"])
    /\ UNCHANGED <<database, provider, memory, counters>>

Call(w) ==
    LET r == req[w] IN
    /\ r.op = "call"
    /\ r.with \in consent
    /\ IF r.want = "test"
         THEN /\ Writable(w)
              /\ Become(w, [SetStatus(r, "connected") EXCEPT !.op = "done", !.held = TRUE])
         ELSE Become(w, [r EXCEPT !.op = "done"])
    /\ headers' = IF Browses(r) /\ r.place = "web" THEN headers \cup {r.id} ELSE headers
    /\ UNCHANGED <<database, provider, access, counters>>

(* 401.  Only "account test" records it; the page of the web application   *)
(* shows a warning and commits what opening the connector wrote.           *)
CallRejected(w) ==
    LET r == req[w] IN
    /\ r.op = "call"
    /\ r.with \notin consent
    /\ ~(Browses(r) /\ r.place = "web" /\ r.id \in headers)
    /\ IF PageOnTheWeb(r) THEN Become(w, [r EXCEPT !.op = "done"])
                          ELSE Report(w, "needs_reauth")
    /\ UNCHANGED <<database, provider, memory, counters>>

Commit(w) ==
    LET r == req[w] IN
    /\ r.op = "done"
    /\ row' = IF r.wrote THEN [row EXCEPT !.status = r.status] ELSE row
    /\ token' = IF r.cred \in {None, r.old} THEN token ELSE r.cred
    /\ Become(w, Idle)
    /\ UNCHANGED <<provider, memory, counters>>

(* The row is gone, a later step of the request fails, or the connection   *)
(* to the database does.                                                   *)
Fail(w) ==
    /\ req[w] # Idle
    /\ "fail" \in Faults \/ (req[w].op # "connect" /\ ~Holds(w) /\ ~Present(req[w].id))
    /\ Become(w, Idle)
    /\ UNCHANGED <<database, provider, memory, counters>>

-----------------------------------------------------------------------------
(* The user or the institution withdraws consent; entries expire or are    *)
(* evicted; the web process restarts.                                      *)

Withdraw ==
    /\ consent # {}
    /\ consent' = {}
    /\ UNCHANGED <<database, newest, memory, req, counters>>

Expire ==
    \/ \E i \in Ids : /\ access[i] # None
                      /\ access' = [access EXCEPT ![i] = None]
                      /\ UNCHANGED <<database, provider, headers, req, counters>>
    \/ \E i \in headers : /\ headers' = headers \ {i}
                          /\ UNCHANGED <<database, provider, access, req, counters>>

Restart ==
    /\ "restart" \in Faults
    /\ access' = [i \in Ids |-> None]
    /\ headers' = {}
    /\ req' = [w \in Workers |->
                 IF req[w] # Idle /\ req[w].place = "web" THEN Idle ELSE req[w]]
    /\ UNCHANGED <<database, provider, counters>>

Use(w) ==
    \/ \E place \in Places, want \in Wants : Begin(w, place, want)
    \/ UseRemembered(w) \/ OpenSecret(w)
    \/ Refresh(w) \/ Flush(w) \/ RefreshRejected(w)
    \/ FromCache(w) \/ Call(w) \/ CallRejected(w)
    \/ Commit(w)

Next ==
    \/ \E w \in Workers :
         \/ \E place \in Places : Connect(w, place) \/ Disconnect(w, place)
         \/ ConnectCommit(w) \/ DisconnectCommit(w)
         \/ Use(w)
         \/ Fail(w)
    \/ Withdraw \/ Expire \/ Restart

Spec == Init /\ [][Next]_vars

-----------------------------------------------------------------------------
(* Properties.                                                             *)

(* There is a stored credential exactly while there is a connection: a     *)
(* disconnect leaves none behind, whatever refresh or reconnect was under  *)
(* way ("A revoked account whose refresh token is still in the database is *)
(* still a refresh token in the database", disconnect_account).            *)
CredentialMeansConnection == (token # None) <=> (row # NoRow)

(* A request that had the credential refreshed and commits leaves the      *)
(* newest refresh token of the grant in the row, whatever failed before it *)
(* and wherever it ran ("losing the new one costs the user a reconnect",   *)
(* _access_token_for).                                                     *)
RotationKept ==
    [][\A w \in Workers : Commit(w) /\ req[w].cred # None =>
         token'.n = newest[token'.grant]]_vars

(* Only connecting the mailbox replaces the stored credential by another   *)
(* grant's; a request that had it refreshed leaves the same grant and no   *)
(* earlier refresh token of it, also where the provider goes on accepting  *)
(* those: it commits over neither a reconnect nor another's refresh        *)
(* (_access_token_for, seal_secret).                                       *)
TokensOnlyAdvance ==
    [][token # None /\ token' # None =>
         \/ \E w \in Workers : ConnectCommit(w)
         \/ token.grant = token'.grant /\ token.n <= token'.n]_vars

(* Once the web process has disconnected a mailbox it keeps no headers of  *)
(* it, and headers come only of mailboxes that are connected ("dropped     *)
(* immediately when an account is disconnected", SECURITY.md).  A command  *)
(* has no hand in the web process's memory.                                *)
HeadersForgotten ==
    [][/\ \A w \in Workers :
            DisconnectCommit(w) /\ req[w].place = "web" => req[w].id \notin headers'
       /\ \A i \in headers' \ headers : Present(i)]_vars

(* A mailbox that was connected in the web process and is marked for       *)
(* reconnecting needs it: the provider does refuse the stored credential   *)
(* ("the provider rejected the stored credential", _access_token_for).     *)
StatusIsTrue ==
    row # NoRow /\ row.by = "web" /\ row.status = "needs_reauth" => ~Accepted(token)

(* While the provider accepts the stored credential, it accepts the access *)
(* token the web process will use: reconnecting there ends a 401           *)
(* ("credential is no longer valid; reconnect this account", the           *)
(* connectors).                                                            *)
ReconnectHelps ==
    row # NoRow /\ row.by = "web" /\ Accepted(token) /\ access[row.id] # None =>
        access[row.id] \in consent
=============================================================================
