----------------------------- MODULE AllowList -----------------------------
(***************************************************************************)
(* The access list: who may use ccreport, and as what (auth/allowlist.py). *)
(*                                                                         *)
(* A web process reconciles the list with its settings when it boots, the  *)
(* command line before every command, and administrators grant and revoke  *)
(* from either.  Each of these is one transaction at READ COMMITTED, with  *)
(* no lock on what it has read: a reconciliation decides on rows it saw    *)
(* earlier.  A row that a transaction has written stays locked until the   *)
(* transaction ends.                                                       *)
(*                                                                         *)
(* Left out: the users row authorize() keeps, since it overwrites the role *)
(* there with the grant's in the transaction that reads it; notes and      *)
(* display names; requests that only read the list.                        *)
(***************************************************************************)
EXTENDS Naturals

CONSTANTS
    Upns,         \* principals
    Outside,      \* those outside required_email_domain
    Deployments,  \* settings a process may start with: [faculty, admins]
    Workers,      \* transactions that can be open at the same time
    NoGrant,      \* a principal who is not on the list
    Nobody        \* the actor of a web process that boots

Roles == {"faculty", "admin"}
Row == [role: Roles, seeded: BOOLEAN]
Entry == Row \cup {NoGrant}

ASSUME SeedsAssumption ==
    /\ Deployments \subseteq [faculty: SUBSET Upns, admins: SUBSET Upns]
    /\ NoGrant \notin Row
    /\ Nobody \notin Upns

VARIABLES
    table,    \* allowed_principals
    decided,  \* the last audit entry about each principal
    txn       \* what each open transaction has read and written

vars == <<table, decided, txn>>

Idle == [op |-> "idle"]
Seeds == [faculty: SUBSET Upns, admins: SUBSET Upns]

(* Entries written and not yet committed, by principal. *)
Writes == UNION {[us -> Entry] : us \in SUBSET Upns}

ReadTxn == [op: {"read"}, actor: Upns \cup {Nobody}, seeds: Seeds,
            seen: [Upns -> Entry]]
FlushedTxn == [op: {"flushed"}, actor: Upns \cup {Nobody},
               seeds: Seeds, writes: Writes, stale: SUBSET Upns]
PurgedTxn == [op: {"purged"}, actor: Upns \cup {Nobody},
              seeds: Seeds, writes: Writes]
CommandTxn == [op: {"grant", "revoke"}, actor: Upns,
               target: Upns, role: Roles, seen: Entry, writes: Writes]
Txn == {Idle} \cup ReadTxn \cup FlushedTxn \cup PurgedTxn \cup CommandTxn

TypeOK ==
    /\ table \in [Upns -> Entry]
    /\ decided \in [Upns -> {"nothing", "revoked"} \cup Roles]
    /\ txn \in [Workers -> Txn]

Init ==
    /\ table = [u \in Upns |-> NoGrant]
    /\ decided = [u \in Upns |-> "nothing"]
    /\ txn = [w \in Workers |-> Idle]

Become(w, t) == txn' = [txn EXCEPT ![w] = t]

(* What a transaction has written, on top of what is committed. *)
Written(w) == IF txn[w].op \in {"flushed", "purged", "grant", "revoke"}
                THEN DOMAIN txn[w].writes ELSE {}
Over(base, writes) ==
    [u \in Upns |-> IF u \in DOMAIN writes THEN writes[u] ELSE base[u]]
LockedFor(w, us) == \E v \in Workers \ {w} : Written(v) \cap us # {}

-----------------------------------------------------------------------------
(* bootstrap_allow_list.                                                   *)

Seeded(s) == s.faculty \cup s.admins

(* Mutant: the name of a role that the check constraint does not know. *)
SeedRoleMember(s, u) == IF u \in s.admins THEN "admin" ELSE "member"

SeedRole(s, u) == IF u \in s.admins THEN "admin" ELSE "faculty"

Boot(w, s) ==
    /\ txn[w] = Idle
    /\ Become(w, [op |-> "read", actor |-> Nobody, seeds |-> s, seen |-> table])
    /\ UNCHANGED <<table, decided>>

(* The command line names its own principal and reads its own environment. *)
CliStart(w, s, u) ==
    /\ txn[w] = Idle
    /\ Become(w, [op |-> "read", actor |-> u, seeds |-> s, seen |-> table])
    /\ UNCHANGED <<table, decided>>

Missing(t) == {u \in Seeded(t.seeds) : t.seen[u] = NoGrant}

Outdated(t) ==
    {u \in Seeded(t.seeds) : /\ t.seen[u] # NoGrant
                             /\ t.seen[u].seeded
                             /\ t.seen[u].role # SeedRole(t.seeds, u)}

Stale(s) == {u \in Upns : table[u] # NoGrant /\ table[u].seeded} \ Seeded(s)

(* Mutant: the loop merges its rows instead of adding them. *)
FlushMerges(t) == \A u \in Outdated(t) : table[u] # NoGrant

(* The flush of what the loop has added and changed fails when it inserts  *)
(* a row that exists by now, or updates one that is gone.                  *)
FlushSucceeds(t) ==
    /\ \A u \in Missing(t) : table[u] = NoGrant
    /\ \A u \in Outdated(t) : table[u] # NoGrant

(* The query for stale rows flushes first.                                 *)
Reconcile(w) ==
    LET t == txn[w] IN
    /\ t.op = "read"
    /\ ~LockedFor(w, Missing(t) \cup Outdated(t))
    /\ FlushSucceeds(t)
    /\ Become(w, [op |-> "flushed", actor |-> t.actor, seeds |-> t.seeds,
                  writes |-> [u \in Missing(t) \cup Outdated(t) |->
                                IF u \in Missing(t)
                                  THEN [role |-> SeedRole(t.seeds, u), seeded |-> TRUE]
                                  ELSE [table[u] EXCEPT !.role = SeedRole(t.seeds, u)]],
                  stale |-> Stale(t.seeds)])
    /\ UNCHANGED <<table, decided>>

(* Deleting by primary key: a row that is gone already is no error.        *)
Purge(w) ==
    LET t == txn[w]
        doomed == {u \in t.stale : table[u] # NoGrant}
    IN
    /\ t.op = "flushed"
    /\ ~LockedFor(w, doomed)
    /\ Become(w, [op |-> "purged", actor |-> t.actor, seeds |-> t.seeds,
                  writes |-> [u \in DOMAIN t.writes \cup doomed |->
                                IF u \in doomed THEN NoGrant ELSE t.writes[u]]])
    /\ UNCHANGED <<table, decided>>

(* A web process commits its reconciliation; so does a command that an     *)
(* admitted principal runs and that leaves the list alone.                 *)
CommitReconciled(w) ==
    LET t == txn[w] IN
    /\ t.op = "purged"
    /\ t.actor # Nobody => /\ t.actor \notin Outside
                            /\ Over(table, t.writes)[t.actor] # NoGrant
    /\ table' = Over(table, t.writes)
    /\ Become(w, Idle)
    /\ UNCHANGED decided

-----------------------------------------------------------------------------
(* Administrators' commands.                                               *)

(* authorize(require_role = "admin") *)
Admits(grants, u) ==
    /\ u \notin Outside
    /\ grants[u] # NoGrant
    /\ grants[u].role = "admin"

CliCommand(w, op, target, role) ==
    LET t == txn[w]
        grants == Over(table, t.writes)
    IN
    /\ t.op = "purged"
    /\ t.actor # Nobody
    /\ Admits(grants, t.actor)
    /\ Become(w, [op |-> op, actor |-> t.actor, target |-> target,
                  role |-> role, seen |-> grants[target], writes |-> t.writes])
    /\ UNCHANGED <<table, decided>>

WebCommand(w, actor, op, target, role) ==
    /\ txn[w] = Idle
    /\ Admits(table, actor)
    /\ op = "revoke" => target # actor
    /\ Become(w, [op |-> op, actor |-> actor, target |-> target,
                  role |-> role, seen |-> table[target], writes |-> [u \in {} |-> NoGrant]])
    /\ UNCHANGED <<table, decided>>

(* An UPDATE names only the columns that differ from what was read.        *)
Granted(seen, now, role) ==
    IF seen = NoGrant
      THEN [role |-> role, seeded |-> FALSE]
      ELSE [role |-> IF seen.role # role THEN role ELSE now.role,
            seeded |-> IF seen.seeded THEN FALSE ELSE now.seeded]

GrantCommit(w) ==
    LET t == txn[w]
        now == Over(table, t.writes)
        changed == t.seen = NoGrant \/ t.seen.seeded \/ t.seen.role # t.role
    IN
    /\ t.op = "grant"
    /\ changed => /\ ~LockedFor(w, {t.target})
                  /\ (t.seen = NoGrant) <=> (now[t.target] = NoGrant)
    /\ table' = IF changed
                  THEN [now EXCEPT ![t.target] = Granted(t.seen, now[t.target], t.role)]
                  ELSE now
    /\ decided' = [decided EXCEPT ![t.target] = t.role]
    /\ Become(w, Idle)

(* Mutant: a revocation is recorded and the row left alone. *)
RevokeCommitKeeps(w) ==
    LET t == txn[w] IN
    /\ t.op = "revoke"
    /\ t.seen # NoGrant => ~LockedFor(w, {t.target})
    /\ table' = Over(table, t.writes)
    /\ decided' = IF t.seen = NoGrant THEN decided
                    ELSE [decided EXCEPT ![t.target] = "revoked"]
    /\ Become(w, Idle)

RevokeCommit(w) ==
    LET t == txn[w]
        now == Over(table, t.writes)
    IN
    /\ t.op = "revoke"
    /\ t.seen # NoGrant => ~LockedFor(w, {t.target})
    /\ table' = IF t.seen = NoGrant THEN now ELSE [now EXCEPT ![t.target] = NoGrant]
    /\ decided' = IF t.seen = NoGrant THEN decided
                    ELSE [decided EXCEPT ![t.target] = "revoked"]
    /\ Become(w, Idle)

(* Not admitted, a constraint violated, a deadlock the database resolves,  *)
(* a lost connection: nothing is written.  At boot the exception is logged *)
(* and the process serves requests all the same.                           *)
Abort(w) ==
    /\ txn[w] # Idle
    /\ Become(w, Idle)
    /\ UNCHANGED <<table, decided>>

-----------------------------------------------------------------------------
Command(w) ==
    \E op \in {"grant", "revoke"}, target \in Upns, role \in Roles :
        \/ CliCommand(w, op, target, role)
        \/ \E actor \in Upns : WebCommand(w, actor, op, target, role)

Next ==
    \E w \in Workers :
        \/ \E s \in Deployments : Boot(w, s) \/ \E u \in Upns : CliStart(w, s, u)
        \/ Reconcile(w) \/ Purge(w) \/ CommitReconciled(w)
        \/ Command(w) \/ GrantCommit(w) \/ RevokeCommit(w)
        \/ Abort(w)

Spec == Init /\ [][Next]_vars

-----------------------------------------------------------------------------
(* Properties.                                                             *)

(* Whoever is on the list was put there by the settings or by an           *)
(* administrator whose grant is the last thing the audit log says about    *)
(* them, whatever reconciliations and commands overlapped (grant_access).  *)
NobodyUngranted ==
    \A u \in Upns : table[u] # NoGrant => table[u].seeded \/ decided[u] \in Roles

(* A grant made by hand never gets the mark of the settings back, whatever *)
(* reconciliations are under way: with it the next redeploy would remove   *)
(* or change the grant as one of its own (AllowedPrincipal.seeded).        *)
HandMadeKeepsItsMark ==
    [][\A u \in Upns :
         /\ table[u] # NoGrant /\ ~table[u].seeded
         /\ table'[u] # NoGrant
         => ~table'[u].seeded]_vars

(* Only a command about that very principal changes or removes a grant an  *)
(* administrator made by hand ("without touching a grant an administrator  *)
(* made by hand", bootstrap_allow_list).                                   *)
ManualGrantsStay ==
    [][\A u \in Upns :
         table[u] # NoGrant /\ ~table[u].seeded /\ table'[u] # table[u] =>
            \E w \in Workers : /\ GrantCommit(w) \/ RevokeCommit(w)
                               /\ txn[w].target = u]_vars
=============================================================================
