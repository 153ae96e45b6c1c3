------------------------------ MODULE OAuthFlow ------------------------------
(***************************************************************************)
(* Connecting mailboxes (oauth.py, accounts.py, web/app.py, cli.py): a     *)
(* person starts an authorization, consents to it at the provider, and the *)
(* provider sends the browser back with a code and with the state that the *)
(* program signed; or the person posts an address and an app password.     *)
(*                                                                         *)
(* Browsers keep tabs, repeat requests and change hands: a callback may    *)
(* come late, twice or never, out of order, signed in as somebody else,    *)
(* or, on the command line, with the state of another flow.  Two callbacks *)
(* may be in progress at once: the code is exchanged before the request    *)
(* first asks the database, so before the person's row is locked (Reports, *)
(* UserRowFree).  From the lock to the commit is one step here.            *)
(*                                                                         *)
(* Signatures are taken to be sound: a state or form token is one that was *)
(* issued.  A person's row in users is there already.                      *)
(***************************************************************************)
EXTENDS Integers, Sequences

CONSTANTS
    None, Unreadable, Refused, Inconsistent,  \* as in Principal
    OnAzure, DevPrincipal, RequiredDomain,
    People,          \* those who use the program, as their addresses
    Guests,          \* those of them Entra writes as guests
    Listed,          \* the access list
    Mailboxes,       \* mailboxes that somebody has
    Sites,           \* which of them people have, in the cases considered
    Labels,          \* values of --address on the command line
    PersonalGmail,   \* CCREPORT_ENABLE_PERSONAL_GMAIL_OAUTH
    Workers,         \* requests and commands that can be in progress
    StateMaxAge,     \* STATE_MAX_AGE_SECONDS, in ticks
    FormMaxAge,      \* CSRF_MAX_AGE_SECONDS, in ticks
    MaxTime, MaxFlows, MaxCodes, MaxForms   \* bounds

P == INSTANCE Principal

Providers == {"graph", "gmail", "imap"}

(* An address as somebody wrote it: whose, and whether in lower case. *)
Spelled == [name: {m.name : m \in Mailboxes}, lower: BOOLEAN]
NameOf(m) == [name |-> m.name, lower |-> TRUE]

ASSUME BoundsAssumption ==
    /\ {StateMaxAge, FormMaxAge, MaxTime, MaxFlows, MaxCodes, MaxForms} \subseteq Nat
    /\ StateMaxAge < FormMaxAge
    /\ {OnAzure, PersonalGmail} \subseteq BOOLEAN

ASSUME DataAssumption ==
    /\ \A m \in Mailboxes : m.provider \in Providers /\ m.workspace \in BOOLEAN
    /\ \A m, n \in Mailboxes : m.name = n.name /\ m.provider = n.provider => m = n
    /\ Sites \subseteq SUBSET Mailboxes
    /\ Labels \subseteq Spelled
    /\ Guests \subseteq People
    /\ None \notin Labels

ASSUME PeopleAssumption ==
    /\ People \subseteq P!Addresses
    /\ DevPrincipal \in People \cup {None}
    /\ Refused # Inconsistent
    /\ \A v \in {None, Unreadable, Refused, Inconsistent} :
           v \notin P!Addresses /\ v \notin P!Written /\ v \notin P!Claims

VARIABLES
    site,     \* the mailboxes the people of this deployment have
    now,      \* the time, in ticks
    flows,    \* the states that were signed
    codes,    \* the codes that providers gave out
    forms,    \* the form tokens that were rendered
    rows,     \* mail_accounts, each with the mailbox its credential opens
    req       \* what each worker is doing

vars == <<site, now, flows, codes, forms, rows, req>>

Times == 0 .. MaxTime
Started == [upn: People, provider: Providers, at: Times]

(* What the answer to a code has: no refresh token, no claim that says     *)
(* which mailbox it is, or both.                                           *)
Answers == {"not offline", "not named", "full"}
Code == [flow: 1 .. MaxFlows, mailbox: Mailboxes, spent: BOOLEAN]

(* What a request goes back to: the person and the provider of the flow or *)
(* form, and how old that was when the request was let in.                 *)
Origin == [upn: People, provider: Providers, age: Times]
Row == [upn: People, provider: Providers, address: Spelled, mailbox: Mailboxes,
        from: Origin, place: {"web", "cli"}]

(* sender is the person in front of it, or None; upn who it acts for; good *)
(* whether a refresh token came, or the password is the right one.         *)
Idle == [op |-> "idle"]
Actor == [sender: People \cup {None}, upn: People, place: {"web", "cli"}]
Denied == [op: {"denied"}, sender: People]
Callback == [op: {"exchange"}, actor: Actor, from: Origin,
             flow: 1 .. MaxFlows, code: 1 .. MaxCodes, label: Labels \cup {None}]
Connecting == [op: {"probe", "connect"}, actor: Actor, from: Origin,
               mailbox: Mailboxes, good: BOOLEAN, label: Spelled \cup {None}]

TypeOK ==
    /\ site \in Sites
    /\ now \in Times
    /\ flows \in Seq(Started) /\ Len(flows) <= MaxFlows
    /\ codes \in Seq(Code) /\ Len(codes) <= MaxCodes
    /\ forms \in Seq(Started) /\ Len(forms) <= MaxForms
    /\ rows \subseteq Row
    /\ req \in [Workers -> {Idle} \cup Denied \cup Callback \cup Connecting]

Init ==
    /\ site \in Sites
    /\ now = 0
    /\ flows = <<>>
    /\ codes = <<>>
    /\ forms = <<>>
    /\ rows = {}
    /\ req = [w \in Workers |-> Idle]

Become(w, r) == req' = [req EXCEPT ![w] = r]

-----------------------------------------------------------------------------
(* Who a request acts for (current_user, _acting_principal, authorize).    *)

Admitted(upn) ==
    upn \notin {Refused, Inconsistent} /\ P!domain_allowed(upn) /\ upn \in Listed

(* Whom the headers of a web request, sent by somebody, are taken to name. *)
Visitors ==
    {[sender |-> None, upn |-> P!resolve_principal(h)] : h \in P!Bare} \cup
    UNION {{[sender |-> p, upn |-> P!resolve_principal(h)] :
               h \in P!Presentations(p, p \in Guests)} : p \in People}

(* On the command line the identity is given outright.                     *)
Actors ==
    {[sender |-> v.sender, upn |-> v.upn, place |-> "web"] :
        v \in {v \in Visitors : Admitted(v.upn)}} \cup
    {[sender |-> p, upn |-> p, place |-> "cli"] : p \in {p \in People : Admitted(p)}}

(* NotAuthorized: the page that says so.                                   *)
TurnAway(w) ==
    /\ req[w] = Idle
    /\ \E v \in Visitors :
         /\ v.sender # None /\ ~Admitted(v.upn)
         /\ Become(w, [op |-> "denied", sender |-> v.sender])
    /\ UNCHANGED <<site, now, flows, codes, forms, rows>>

-----------------------------------------------------------------------------
(* The authorization, outside the program and back.                        *)

(* The providers with an OAuth client (build_oauth_client).                *)
Clients == {m.provider : m \in site} \ {"imap"}

accounts_connect(a, provider) ==
    /\ Len(flows) < MaxFlows
    /\ flows' = Append(flows, [upn |-> a.upn, provider |-> provider, at |-> now])
    /\ UNCHANGED <<site, now, codes, forms, rows, req>>

(* Whoever holds the browser picks a mailbox and approves.                 *)
Consent(f, m) ==
    /\ m.provider = flows[f].provider
    /\ Len(codes) < MaxCodes
    /\ codes' = Append(codes, [flow |-> f, mailbox |-> m, spent |-> FALSE])
    /\ UNCHANGED <<site, now, flows, forms, rows, req>>

(* Mutant: the state is read without an age.                               *)
UnsignAnyAge(f, upn, provider) == flows[f].upn = upn /\ flows[f].provider = provider

(* The state is not too old, and was issued to this user for this provider. *)
Unsign(f, upn, provider) ==
    /\ now - flows[f].at <= StateMaxAge
    /\ flows[f].upn = upn
    /\ flows[f].provider = provider

Since(started) ==
    [upn |-> started.upn, provider |-> started.provider, age |-> now - started.at]

LetIn(w, a, c, f, provider, label) ==
    /\ req[w] = Idle
    /\ Unsign(f, a.upn, provider)
    /\ Become(w, [op |-> "exchange", actor |-> a, from |-> Since(flows[f]),
                  flow |-> f, code |-> c, label |-> label])
    /\ UNCHANGED <<site, now, flows, codes, forms, rows>>

(* The browser brings what the provider gave it.                           *)
oauth_callback(w, a, c) ==
    /\ a.place = "web"
    /\ LetIn(w, a, c, codes[c].flow, codes[c].mailbox.provider, None)

(* Code, state, provider and label are pasted and typed.                   *)
cmd_account_connect(w, a, c, f, provider, label) ==
    /\ a.place = "cli"
    /\ LetIn(w, a, c, f, provider, label)

(* A code is good once, and with the verifier its flow began with.         *)
Redeemable(r) == ~codes[r.code].spent /\ codes[r.code].flow = r.flow

(* Mutant: the claims are taken for the address in them.                   *)
AddressFromClaims(r, answer) ==
    IF r.label # None THEN r.label
    ELSE IF answer # "not named" THEN codes[r.code].mailbox ELSE None

Address(r, answer) ==
    IF r.label # None THEN r.label
    ELSE IF answer # "not named" THEN NameOf(codes[r.code].mailbox) ELSE None

Exchange(w, answer) ==
    LET r == req[w] IN
    /\ r.op = "exchange"
    /\ Redeemable(r)
    /\ codes' = [codes EXCEPT ![r.code].spent = TRUE]
    /\ Become(w, [op |-> "connect", actor |-> r.actor, from |-> r.from,
                  mailbox |-> codes[r.code].mailbox, good |-> answer # "not offline",
                  label |-> Address(r, answer)])
    /\ UNCHANGED <<site, now, flows, forms, rows>>

-----------------------------------------------------------------------------
(* A mailbox over IMAP.                                                    *)

(* Every page carries a form token of the user it was rendered for.  One   *)
(* is of use where there is a mailbox to post.                             *)
RenderForm(a) ==
    /\ a.place = "web"
    /\ \E m \in site : m.provider = "imap"
    /\ Len(forms) < MaxForms
    /\ forms' = Append(forms, [upn |-> a.upn, provider |-> "imap", at |-> now])
    /\ UNCHANGED <<site, now, flows, codes, rows, req>>

check_csrf(upn, form) == form.upn = upn /\ now - form.at <= FormMaxAge

Post(w, a, m, right, lower, started) ==
    /\ req[w] = Idle
    /\ m.provider = "imap"
    /\ Become(w, [op |-> "probe", actor |-> a, from |-> Since(started), mailbox |-> m,
                  good |-> right, label |-> [name |-> m.name, lower |-> lower]])
    /\ UNCHANGED <<site, now, flows, codes, forms, rows>>

accounts_connect_imap(w, a, m, right, lower, n) ==
    /\ a.place = "web"
    /\ check_csrf(a.upn, forms[n])
    /\ Post(w, a, m, right, lower, forms[n])

cmd_account_connect_imap(w, a, m, right, lower) ==
    /\ a.place = "cli"
    /\ Post(w, a, m, right, lower, [upn |-> a.upn, provider |-> "imap", at |-> now])

(* The password is tried before anything is stored.                        *)
Probe(w) ==
    /\ req[w].op = "probe"
    /\ req[w].good
    /\ Become(w, [req[w] EXCEPT !.op = "connect"])
    /\ UNCHANGED <<site, now, flows, codes, forms, rows>>

-----------------------------------------------------------------------------
(* Storing a connection (connect_oauth_account, connect_imap_account).     *)

(* Mutant: the address is kept as it was written.                          *)
NormalAsWritten(address) == address

Normal(address) == [address EXCEPT !.lower = TRUE]

Hosted(address) == \E m \in Mailboxes : m.name = address.name /\ m.workspace

(* _guard_personal_gmail *)
Guarded(provider, address) == provider = "gmail" => Hosted(address) \/ PersonalGmail

(* Mutant: the row is looked up by user and provider.                      *)
StoredForProvider(upn, provider, address) ==
    {x \in rows : x.upn = upn /\ x.provider = provider}

Stored(upn, provider, address) ==
    {x \in rows : x.upn = upn /\ x.provider = provider /\ x.address = address}

Seal(x, r) ==
    [x EXCEPT !.mailbox = r.mailbox, !.from = r.from, !.place = r.actor.place]

Connect(w) ==
    LET r == req[w]
        upn == r.actor.upn
        provider == r.mailbox.provider
        address == Normal(r.label)
        same == Stored(upn, provider, address)
        new == [upn |-> upn, provider |-> provider, address |-> address,
                mailbox |-> r.mailbox, from |-> r.from, place |-> r.actor.place]
    IN
    /\ r.op = "connect"
    /\ r.label # None
    /\ r.good
    /\ Guarded(provider, r.label)
    /\ rows' = IF same = {} THEN rows \cup {new}
               ELSE (rows \ same) \cup {Seal(x, r) : x \in same}
    /\ Become(w, Idle)
    /\ UNCHANGED <<site, now, flows, codes, forms>>

(* The exchange, the probe or a check is refused, or something fails.      *)
Fail(w) ==
    /\ req[w] # Idle
    /\ Become(w, Idle)
    /\ UNCHANGED <<site, now, flows, codes, forms, rows>>

disconnect_account(a, x) ==
    /\ x.upn = a.upn
    /\ rows' = rows \ {x}
    /\ UNCHANGED <<site, now, flows, codes, forms, req>>

Tick ==
    /\ now < MaxTime
    /\ now' = now + 1
    /\ UNCHANGED <<site, flows, codes, forms, rows, req>>

Begin(a) ==
    \/ \E provider \in Clients : accounts_connect(a, provider)
    \/ RenderForm(a)
    \/ \E x \in rows : disconnect_account(a, x)

Arrive(w, a) ==
    \/ \E c \in DOMAIN codes : oauth_callback(w, a, c)
    \/ \E c \in DOMAIN codes, f \in DOMAIN flows, provider \in Providers,
          label \in Labels \cup {None} : cmd_account_connect(w, a, c, f, provider, label)
    \/ \E m \in site, right, lower \in BOOLEAN :
          \/ \E n \in DOMAIN forms : accounts_connect_imap(w, a, m, right, lower, n)
          \/ cmd_account_connect_imap(w, a, m, right, lower)

Step(w) ==
    \/ \E answer \in Answers : Exchange(w, answer)
    \/ Probe(w)
    \/ Connect(w)
    \/ Fail(w)

Next ==
    \/ \E a \in Actors : Begin(a) \/ \E w \in Workers : Arrive(w, a)
    \/ \E f \in DOMAIN flows, m \in site : Consent(f, m)
    \/ \E w \in Workers : TurnAway(w) \/ Step(w)
    \/ Tick

Spec == Init /\ [][Next]_vars

-----------------------------------------------------------------------------
(* Properties.                                                             *)

(* Every connected mailbox goes back to an authorization or a form that    *)
(* its owner, and not whoever else used the browser, started, for that     *)
(* provider, and no longer before than the code allows ("Signed, expiring  *)
(* state", oauth.py; "a form we rendered for this user", check_csrf).      *)
StartedByItsOwner ==
    \A x \in rows :
        /\ x.from.upn = x.upn
        /\ x.from.provider = x.provider
        /\ x.from.age <= IF x.provider = "imap" THEN FormMaxAge ELSE StateMaxAge

(* A person has one row for a mailbox, however often, from wherever and in *)
(* whichever spelling they connect it: nothing of it is left when that row *)
(* is disconnected.                                                        *)
OneRowPerMailbox ==
    \A x, y \in rows :
        /\ x.upn = y.upn /\ x.provider = y.provider
        /\ x.address.name = y.address.name
        => x = y

(* What was connected in the browser is shown under the address of the     *)
(* mailbox that the stored credential opens, whatever order the callbacks  *)
(* of several flows came in ("used only to label the connection with an    *)
(* address", oauth.py).                                                    *)
LabelIsTheMailbox ==
    \A x \in rows : x.place = "web" => x.address = NameOf(x.mailbox)

(* A request acts for the person who sent it; one that did not come        *)
(* through Easy Auth, for the development principal ("requires the two to  *)
(* agree", principal.py).                                                  *)
ActsForItsSender ==
    \A w \in Workers : req[w].op \notin {"idle", "denied"} =>
        LET a == req[w].actor
        IN  a.upn = IF a.sender = None THEN P!EffectiveDevPrincipal ELSE a.sender

(* Whoever is on the list is let in, in whichever of its ways Entra writes *)
(* them ("The address before the marker is the real one", _normalise).     *)
ListedAreAdmitted ==
    \A w \in Workers : req[w].op = "denied" => req[w].sender \notin Listed
=============================================================================
