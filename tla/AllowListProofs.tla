-------------------------- MODULE AllowListProofs --------------------------
(***************************************************************************)
(* Theorems about AllowList, for any principals, settings and number of    *)
(* overlapping transactions.                                               *)
(*                                                                         *)
(* NobodyUngranted is not inductive: a reconciliation that has flushed an  *)
(* update of a row will commit that row later, after other transactions    *)
(* have committed.  What saves it is the row lock: WritesApart says that   *)
(* two open transactions never hold the same row, and WritesGranted that   *)
(* the row held is one the settings or a grant account for.                *)
(*                                                                         *)
(* HandMadeKeepsItsMark rests on the same locks: a transaction that holds  *)
(* a row marked as the settings' found it so, or found none, and while it  *)
(* holds the row no administrator can make the grant by hand               *)
(* (MarksWereThere).                                                       *)
(***************************************************************************)
EXTENDS AllowList, TLAPS

Holding == {"flushed", "purged", "grant", "revoke"}

WritesApart ==
    \A v, w \in Workers : v # w => Written(v) \cap Written(w) = {}

WritesGranted ==
    \A w \in Workers : \A u \in Written(w) :
        txn[w].writes[u] # NoGrant => txn[w].writes[u].seeded \/ decided[u] \in Roles

IInv == TypeOK /\ NobodyUngranted /\ WritesApart /\ WritesGranted

-----------------------------------------------------------------------------
(* The shape of transactions. *)

LEMMA ShapeOfTxn ==
    ASSUME TypeOK, NEW w \in Workers
    PROVE  /\ txn[w].op = "read" => txn[w] \in ReadTxn
           /\ txn[w].op = "flushed" => txn[w] \in FlushedTxn
           /\ txn[w].op = "purged" => txn[w] \in PurgedTxn
           /\ txn[w].op \in {"grant", "revoke"} => txn[w] \in CommandTxn
  <1>1. txn[w] \in Txn
    BY DEF TypeOK
  <1> QED
    BY <1>1 DEF Txn, Idle, ReadTxn, FlushedTxn, PurgedTxn, CommandTxn

LEMMA WritesFields ==
    ASSUME TypeOK, NEW w \in Workers, txn[w].op \in Holding
    PROVE  /\ txn[w].writes \in Writes
           /\ Written(w) = DOMAIN txn[w].writes
  <1>1. txn[w] \in FlushedTxn \/ txn[w] \in PurgedTxn \/ txn[w] \in CommandTxn
    BY ShapeOfTxn DEF Holding
  <1>2. txn[w].writes \in Writes
    BY <1>1 DEF FlushedTxn, PurgedTxn, CommandTxn
  <1> QED
    BY <1>2 DEF Written, Holding

LEMMA WritesType ==
    ASSUME NEW f \in Writes
    PROVE  /\ DOMAIN f \subseteq Upns
           /\ \A u \in DOMAIN f : f[u] \in Entry
  BY DEF Writes

LEMMA OverType ==
    ASSUME NEW base \in [Upns -> Entry], NEW f \in Writes
    PROVE  Over(base, f) \in [Upns -> Entry]
  BY WritesType DEF Over

LEMMA MakeWrites ==
    ASSUME NEW us \in SUBSET Upns, NEW f \in [us -> Entry]
    PROVE  f \in Writes
  BY DEF Writes

LEMMA SeedsType ==
    ASSUME NEW s \in Seeds
    PROVE  /\ Seeded(s) \subseteq Upns
           /\ \A u \in Upns : SeedRole(s, u) \in Roles
  BY DEF Seeds, Seeded, SeedRole, Roles

LEMMA RowType ==
    ASSUME NEW r \in Row, NEW role \in Roles
    PROVE  /\ [r EXCEPT !.role = role] \in Row
           /\ [r EXCEPT !.role = role].seeded = r.seeded
           /\ r # NoGrant
  BY SeedsAssumption DEF Row

LEMMA GrantedType ==
    ASSUME NEW seen \in Entry, NEW now \in Entry, NEW role \in Roles,
           (seen = NoGrant) <=> (now = NoGrant)
    PROVE  Granted(seen, now, role) \in Row
  BY SeedsAssumption DEF Granted, Entry, Row, Roles

-----------------------------------------------------------------------------
(* Each action, reduced to what it does to the row types and to the locks. *)

LEMMA ReconcileStep ==
    ASSUME TypeOK, NEW w \in Workers, Reconcile(w)
    PROVE  /\ UNCHANGED <<table, decided>>
           /\ \E t \in FlushedTxn :
                /\ txn' = [txn EXCEPT ![w] = t]
                /\ ~LockedFor(w, DOMAIN t.writes)
                /\ \A u \in DOMAIN t.writes :
                     \/ table[u] = NoGrant /\ t.writes[u].seeded
                     \/ table[u] # NoGrant /\ t.writes[u].seeded = table[u].seeded
  <1> DEFINE s == txn[w].seeds
             M == Missing(txn[w])
             O == Outdated(txn[w])
             f == [u \in M \cup O |->
                     IF u \in M THEN [role |-> SeedRole(s, u), seeded |-> TRUE]
                                ELSE [table[u] EXCEPT !.role = SeedRole(s, u)]]
             t == [op |-> "flushed", actor |-> txn[w].actor,
                   seeds |-> s, writes |-> f, stale |-> Stale(s)]
  <1>1. txn[w] \in ReadTxn
    BY ShapeOfTxn DEF Reconcile
  <1>2. s \in Seeds /\ txn[w].actor \in Upns \cup {Nobody}
    BY <1>1 DEF ReadTxn
  <1>3. M \subseteq Upns /\ O \subseteq Upns
    BY <1>2, SeedsType DEF Missing, Outdated
  <1>4. \A u \in O : table[u] \in Row
    BY <1>3 DEF Reconcile, FlushSucceeds, TypeOK, Entry
  <1>m. \A u \in M : table[u] = NoGrant
    BY DEF Reconcile, FlushSucceeds
  <1>5. ASSUME NEW u \in M \cup O
        PROVE  /\ f[u] \in Row
               /\ \/ table[u] = NoGrant /\ f[u].seeded
                  \/ table[u] # NoGrant /\ f[u].seeded = table[u].seeded
    <2>1. SeedRole(s, u) \in Roles
      BY <1>2, <1>3, SeedsType
    <2>2. CASE u \in M
      <3>1. f[u] = [role |-> SeedRole(s, u), seeded |-> TRUE]
        BY <2>2
      <3> QED
        BY <1>m, <2>1, <2>2, <3>1 DEF Row
    <2>3. CASE u \notin M
      <3>1. f[u] = [table[u] EXCEPT !.role = SeedRole(s, u)]
        BY <2>3
      <3>2. table[u] \in Row
        BY <1>4, <2>3
      <3> QED
        BY <2>1, <3>1, <3>2, RowType
    <2> QED
      BY <2>2, <2>3
  <1>6. f \in [M \cup O -> Entry]
    BY <1>5 DEF Entry
  <1>7. f \in Writes
    BY <1>3, <1>6, MakeWrites
  <1>8. Stale(s) \in SUBSET Upns
    BY DEF Stale
  <1>9. t \in FlushedTxn
    BY <1>2, <1>7, <1>8 DEF FlushedTxn
  <1>10. DOMAIN t.writes = M \cup O /\ t.writes = f
    OBVIOUS
  <1>11. txn' = [txn EXCEPT ![w] = t]
    BY DEF Reconcile, Become
  <1>12. ~LockedFor(w, M \cup O)
    BY DEF Reconcile
  <1> HIDE DEF t, f, M, O
  <1>13. UNCHANGED <<table, decided>>
    BY DEF Reconcile
  <1> QED
    BY <1>5, <1>9, <1>10, <1>11, <1>12, <1>13

LEMMA PurgeStep ==
    ASSUME TypeOK, NEW w \in Workers, Purge(w)
    PROVE  /\ UNCHANGED <<table, decided>>
           /\ txn[w].op = "flushed"
           /\ \E t \in PurgedTxn, doomed \in SUBSET Upns :
                /\ txn' = [txn EXCEPT ![w] = t]
                /\ ~LockedFor(w, doomed)
                /\ DOMAIN t.writes = DOMAIN txn[w].writes \cup doomed
                /\ \A u \in DOMAIN t.writes :
                     \/ t.writes[u] = NoGrant
                     \/ u \in DOMAIN txn[w].writes /\ t.writes[u] = txn[w].writes[u]
  <1> DEFINE old == txn[w].writes
             D == {u \in txn[w].stale : table[u] # NoGrant}
             f == [u \in DOMAIN old \cup D |-> IF u \in D THEN NoGrant ELSE old[u]]
             t == [op |-> "purged", actor |-> txn[w].actor,
                   seeds |-> txn[w].seeds, writes |-> f]
  <1>1. txn[w] \in FlushedTxn
    BY ShapeOfTxn DEF Purge
  <1>2. /\ txn[w].seeds \in Seeds
        /\ txn[w].actor \in Upns \cup {Nobody}
        /\ old \in Writes /\ txn[w].stale \subseteq Upns
    BY <1>1 DEF FlushedTxn
  <1>3. D \subseteq Upns
    BY <1>2
  <1>4. DOMAIN old \subseteq Upns /\ \A u \in DOMAIN old : old[u] \in Entry
    BY <1>2, WritesType
  <1>5. f \in [DOMAIN old \cup D -> Entry]
    BY <1>4 DEF Entry
  <1>6. f \in Writes
    BY <1>3, <1>4, <1>5, MakeWrites
  <1>7. t \in PurgedTxn
    BY <1>2, <1>6 DEF PurgedTxn
  <1>8. DOMAIN t.writes = DOMAIN old \cup D
    OBVIOUS
  <1>9. \A u \in DOMAIN t.writes :
           \/ t.writes[u] = NoGrant
           \/ u \in DOMAIN old /\ t.writes[u] = old[u]
    OBVIOUS
  <1>10. /\ txn' = [txn EXCEPT ![w] = t] /\ ~LockedFor(w, D) /\ txn[w].op = "flushed"
         /\ UNCHANGED <<table, decided>>
    BY DEF Purge, Become
  <1> HIDE DEF t, f, D
  <1> QED
    BY <1>3, <1>7, <1>8, <1>9, <1>10

LEMMA CliStep ==
    ASSUME TypeOK, NEW w \in Workers, NEW op \in {"grant", "revoke"},
           NEW target \in Upns, NEW role \in Roles, CliCommand(w, op, target, role)
    PROVE  /\ UNCHANGED <<table, decided>>
           /\ txn[w].op = "purged"
           /\ \E t \in CommandTxn : /\ txn' = [txn EXCEPT ![w] = t]
                                    /\ t.writes = txn[w].writes
  <1> DEFINE t == [op |-> op, actor |-> txn[w].actor, target |-> target,
                   role |-> role, seen |-> Over(table, txn[w].writes)[target],
                   writes |-> txn[w].writes]
  <1>1. txn[w] \in PurgedTxn
    BY ShapeOfTxn DEF CliCommand
  <1>2. txn[w].writes \in Writes /\ txn[w].actor \in Upns \cup {Nobody}
    BY <1>1 DEF PurgedTxn
  <1>3. Over(table, txn[w].writes) \in [Upns -> Entry]
    BY <1>2, OverType DEF TypeOK
  <1>4. Over(table, txn[w].writes)[txn[w].actor] # NoGrant /\ txn[w].actor \in Upns
    BY <1>2, SeedsAssumption DEF CliCommand, Admits
  <1>5. t \in CommandTxn
    BY <1>2, <1>3, <1>4 DEF CommandTxn
  <1>6. t.writes = txn[w].writes
    OBVIOUS
  <1>7. /\ txn' = [txn EXCEPT ![w] = t] /\ txn[w].op = "purged"
        /\ UNCHANGED <<table, decided>>
    BY DEF CliCommand, Become
  <1> HIDE DEF t
  <1> QED
    BY <1>5, <1>6, <1>7

LEMMA WebStep ==
    ASSUME TypeOK, NEW w \in Workers, NEW actor \in Upns, NEW op \in {"grant", "revoke"},
           NEW target \in Upns, NEW role \in Roles, WebCommand(w, actor, op, target, role)
    PROVE  /\ UNCHANGED <<table, decided>>
           /\ \E t \in CommandTxn : /\ txn' = [txn EXCEPT ![w] = t]
                                    /\ DOMAIN t.writes = {}
  <1> DEFINE f == [u \in {} |-> NoGrant]
             t == [op |-> op, actor |-> actor, target |-> target,
                   role |-> role, seen |-> table[target], writes |-> f]
  <1>1. f \in Writes
    <2>1. f \in [{} -> Entry]
      OBVIOUS
    <2> QED
      BY <2>1, MakeWrites
  <1>2. table[target] \in Entry
    BY DEF TypeOK
  <1>3. t \in CommandTxn
    BY <1>1, <1>2 DEF CommandTxn
  <1>4. DOMAIN t.writes = {}
    OBVIOUS
  <1>5. txn' = [txn EXCEPT ![w] = t] /\ UNCHANGED <<table, decided>>
    BY DEF WebCommand, Become
  <1> HIDE DEF t, f
  <1> QED
    BY <1>3, <1>4, <1>5

(* What a committing transaction leaves in the list. *)
LEMMA CommitStep ==
    ASSUME TypeOK, NEW w \in Workers,
           CommitReconciled(w) \/ GrantCommit(w) \/ RevokeCommit(w)
    PROVE  /\ txn' = [txn EXCEPT ![w] = Idle]
           /\ txn[w].op \in Holding
           /\ table' \in [Upns -> Entry]
           /\ decided' \in [Upns -> {"nothing", "revoked"} \cup Roles]
           /\ \A u \in Upns :
                \/ /\ decided'[u] = decided[u]
                   /\ table'[u] = Over(table, txn[w].writes)[u]
                \/ decided'[u] \in Roles
                \/ table'[u] = NoGrant
           /\ \A u \in Upns : decided'[u] # decided[u] =>
                \/ decided'[u] \in Roles
                \/ ~LockedFor(w, {u})
  <1> DEFINE now == Over(table, txn[w].writes)
  <1>1. txn[w].op \in Holding /\ txn' = [txn EXCEPT ![w] = Idle]
    BY DEF CommitReconciled, GrantCommit, RevokeCommit, Holding, Become
  <1>2. now \in [Upns -> Entry]
    BY <1>1, WritesFields, OverType DEF TypeOK
  <1>t. decided \in [Upns -> {"nothing", "revoked"} \cup Roles]
    BY DEF TypeOK
  <1>3. CASE CommitReconciled(w)
    <2>1. table' = now /\ decided' = decided
      BY <1>3 DEF CommitReconciled
    <2> QED
      BY <1>1, <1>2, <1>t, <2>1
  <1>4. CASE GrantCommit(w)
    <2> DEFINE t == txn[w]
    <2>1. t \in CommandTxn
      BY <1>4, ShapeOfTxn DEF GrantCommit
    <2>2. t.target \in Upns /\ t.role \in Roles /\ t.seen \in Entry
      BY <2>1 DEF CommandTxn
    <2>3. decided' = [decided EXCEPT ![t.target] = t.role]
      BY <1>4 DEF GrantCommit
    <2>4. /\ table' \in [Upns -> Entry]
          /\ \A u \in Upns \ {t.target} : table'[u] = now[u]
      <3>1. CASE table' = now
        BY <1>2, <3>1
      <3>2. CASE /\ (t.seen = NoGrant) <=> (now[t.target] = NoGrant)
                 /\ table' = [now EXCEPT ![t.target] = Granted(t.seen, now[t.target], t.role)]
        <4>1. now[t.target] \in Entry
          BY <1>2, <2>2
        <4>2. Granted(t.seen, now[t.target], t.role) \in Entry
          BY <2>2, <3>2, <4>1, GrantedType DEF Entry
        <4> QED
          BY <1>2, <2>2, <3>2, <4>2
      <3> QED
        BY <1>4, <3>1, <3>2 DEF GrantCommit
    <2>5. \A u \in Upns : \/ decided'[u] = decided[u] /\ u # t.target
                          \/ decided'[u] \in Roles
      BY <1>t, <2>2, <2>3
    <2>6. decided' \in [Upns -> {"nothing", "revoked"} \cup Roles]
      BY <1>t, <2>2, <2>3
    <2> QED
      BY <1>1, <2>4, <2>5, <2>6
  <1>5. CASE RevokeCommit(w)
    <2> DEFINE t == txn[w]
    <2>1. t \in CommandTxn
      BY <1>5, ShapeOfTxn DEF RevokeCommit
    <2>2. t.target \in Upns
      BY <2>1 DEF CommandTxn
    <2>3. CASE t.seen = NoGrant
      <3>1. table' = now /\ decided' = decided
        BY <1>5, <2>3 DEF RevokeCommit
      <3> QED
        BY <1>1, <1>2, <1>t, <3>1
    <2>4. CASE t.seen # NoGrant
      <3>1. /\ table' = [now EXCEPT ![t.target] = NoGrant]
            /\ decided' = [decided EXCEPT ![t.target] = "revoked"]
            /\ ~LockedFor(w, {t.target})
        BY <1>5, <2>4 DEF RevokeCommit
      <3>2. table' \in [Upns -> Entry] /\ decided' \in [Upns -> {"nothing", "revoked"} \cup Roles]
        BY <1>2, <1>t, <2>2, <3>1 DEF Entry
      <3>3. \A u \in Upns : \/ u = t.target /\ table'[u] = NoGrant
                            \/ u # t.target /\ decided'[u] = decided[u] /\ table'[u] = now[u]
        BY <1>2, <1>t, <2>2, <3>1
      <3> QED
        BY <1>1, <3>1, <3>2, <3>3
    <2> QED
      BY <2>3, <2>4
  <1> QED
    BY <1>3, <1>4, <1>5

(* A step of the specification, sorted by what it does to transaction w:   *)
(* it begins or ends one without holding rows, or flushes, purges, turns   *)
(* to its command, or commits.                                             *)
Begins(w) ==
    /\ UNCHANGED <<table, decided>>
    /\ \E t \in {Idle} \cup {r \in ReadTxn : r.seen = table} :
          txn' = [txn EXCEPT ![w] = t]

Arms(w) == \E op \in {"grant", "revoke"}, target \in Upns, role \in Roles :
    \/ CliCommand(w, op, target, role)
    \/ \E actor \in Upns : WebCommand(w, actor, op, target, role)

Commits(w) == CommitReconciled(w) \/ GrantCommit(w) \/ RevokeCommit(w)

LEMMA StepCases ==
    ASSUME TypeOK, [Next]_vars
    PROVE  \/ UNCHANGED vars
           \/ \E w \in Workers :
                Begins(w) \/ Reconcile(w) \/ Purge(w) \/ Arms(w) \/ Commits(w)
  <1>1. ASSUME NEW w \in Workers, NEW s \in Deployments, NEW u \in Upns \cup {Nobody},
               /\ txn' = [txn EXCEPT ![w] = [op |-> "read", actor |-> u, seeds |-> s,
                                             seen |-> table]]
               /\ UNCHANGED <<table, decided>>
        PROVE  Begins(w)
    <2>1. s \in Seeds
      BY SeedsAssumption DEF Seeds
    <2>2. [op |-> "read", actor |-> u, seeds |-> s, seen |-> table]
             \in {r \in ReadTxn : r.seen = table}
      BY <2>1 DEF ReadTxn, TypeOK
    <2> QED
      BY <1>1, <2>2 DEF Begins
  <1>2. ASSUME NEW w \in Workers, NEW s \in Deployments,
               Boot(w, s) \/ \E u \in Upns : CliStart(w, s, u)
        PROVE  Begins(w)
    BY <1>1, <1>2 DEF Boot, CliStart, Become
  <1>3. ASSUME NEW w \in Workers, Abort(w)
        PROVE  Begins(w)
    BY <1>3 DEF Abort, Begins, Become
  <1> QED
    BY <1>2, <1>3 DEF Next, Command, Arms, Commits

LEMMA ArmsStep ==
    ASSUME TypeOK, NEW w \in Workers, Arms(w)
    PROVE  /\ UNCHANGED <<table, decided>>
           /\ \E t \in CommandTxn :
                /\ txn' = [txn EXCEPT ![w] = t]
                /\ \/ DOMAIN t.writes = {}
                   \/ txn[w].op = "purged" /\ t.writes = txn[w].writes
  <1>1. PICK op \in {"grant", "revoke"}, target \in Upns, role \in Roles :
          \/ CliCommand(w, op, target, role)
          \/ \E actor \in Upns : WebCommand(w, actor, op, target, role)
    BY DEF Arms
  <1>2. CASE CliCommand(w, op, target, role)
    BY <1>2, CliStep
  <1>3. ASSUME NEW actor \in Upns, WebCommand(w, actor, op, target, role)
        PROVE  /\ UNCHANGED <<table, decided>>
               /\ \E t \in CommandTxn : /\ txn' = [txn EXCEPT ![w] = t]
                                        /\ DOMAIN t.writes = {}
    BY <1>3, WebStep
  <1> QED
    BY <1>1, <1>2, <1>3

LEMMA TypeStep ==
    ASSUME TypeOK, [Next]_vars
    PROVE  TypeOK'
  <1>t. ASSUME NEW w \in Workers, NEW t \in Txn, txn' = [txn EXCEPT ![w] = t]
        PROVE  txn' \in [Workers -> Txn]
    BY <1>t DEF TypeOK
  <1>1. CASE UNCHANGED vars
    BY <1>1 DEF TypeOK, vars
  <1>2. ASSUME NEW w \in Workers, Begins(w)
        PROVE  TypeOK'
    BY <1>2, <1>t DEF Begins, TypeOK, Txn
  <1>3. ASSUME NEW w \in Workers, Reconcile(w)
        PROVE  TypeOK'
    BY <1>3, <1>t, ReconcileStep DEF TypeOK, Txn
  <1>4. ASSUME NEW w \in Workers, Purge(w)
        PROVE  TypeOK'
    BY <1>4, <1>t, PurgeStep DEF TypeOK, Txn
  <1>5. ASSUME NEW w \in Workers, Arms(w)
        PROVE  TypeOK'
    BY <1>5, <1>t, ArmsStep DEF TypeOK, Txn
  <1>6. ASSUME NEW w \in Workers, Commits(w)
        PROVE  TypeOK'
    BY <1>6, <1>t, CommitStep DEF TypeOK, Txn, Commits
  <1> QED
    BY <1>1, <1>2, <1>3, <1>4, <1>5, <1>6, StepCases

(* The list, the audit log and every open transaction keep their shape.    *)
THEOREM TypeCorrect == Spec => []TypeOK
  <1>1. Init => TypeOK
    BY DEF Init, TypeOK, Entry, Txn
  <1>2. TypeOK /\ [Next]_vars => TypeOK'
    BY TypeStep
  <1> QED
    BY <1>1, <1>2, PTL DEF Spec

-----------------------------------------------------------------------------
(* Row locks, and why whoever is listed was granted.                       *)

LEMMA OneTxnChanges ==
    ASSUME TypeOK, NEW w \in Workers, NEW t \in Txn, txn' = [txn EXCEPT ![w] = t]
    PROVE  /\ txn'[w] = t
           /\ Written(w)' = IF t.op \in Holding THEN DOMAIN t.writes ELSE {}
           /\ \A v \in Workers \ {w} : txn'[v] = txn[v] /\ Written(v)' = Written(v)
  BY DEF TypeOK, Written, Holding

(* A transaction may take the rows that nobody else holds. *)
LEMMA ApartStep ==
    ASSUME TypeOK, WritesApart, NEW w \in Workers, NEW t \in Txn,
           txn' = [txn EXCEPT ![w] = t],
           t.op \in Holding => ~LockedFor(w, DOMAIN t.writes \ Written(w))
    PROVE  WritesApart'
  <1>1. ASSUME NEW v \in Workers \ {w}
        PROVE  Written(v)' \cap Written(w)' = {}
    <2>1. CASE t.op \notin Holding
      BY <2>1, OneTxnChanges
    <2>2. CASE t.op \in Holding
      <3>1. Written(v) \cap (DOMAIN t.writes \ Written(w)) = {}
        BY <2>2 DEF LockedFor
      <3>2. Written(v) \cap Written(w) = {}
        BY DEF WritesApart
      <3>3. Written(v)' = Written(v) /\ Written(w)' = DOMAIN t.writes
        BY <2>2, OneTxnChanges
      <3> QED
        BY <3>1, <3>2, <3>3
    <2> QED
      BY <2>1, <2>2
  <1>2. ASSUME NEW u \in Workers \ {w}, NEW v \in Workers \ {w}, u # v
        PROVE  Written(u)' \cap Written(v)' = {}
    <2>1. Written(u)' = Written(u) /\ Written(v)' = Written(v)
      BY OneTxnChanges
    <2> QED
      BY <1>2, <2>1 DEF WritesApart
  <1> QED
    BY <1>1, <1>2 DEF WritesApart

LEMMA QuietStep ==
    ASSUME IInv, NEW w \in Workers, NEW t \in Txn, txn' = [txn EXCEPT ![w] = t],
           UNCHANGED <<table, decided>>,
           t.op \in Holding =>
             /\ ~LockedFor(w, DOMAIN t.writes \ Written(w))
             /\ \A u \in DOMAIN t.writes :
                  t.writes[u] # NoGrant => t.writes[u].seeded \/ decided[u] \in Roles
    PROVE  NobodyUngranted' /\ WritesApart' /\ WritesGranted'
  <1>1. NobodyUngranted'
    BY DEF IInv, NobodyUngranted
  <1>2. WritesApart'
    BY ApartStep DEF IInv
  <1>3. ASSUME NEW v \in Workers, NEW u \in Written(v)', txn'[v].writes[u] # NoGrant
        PROVE  txn'[v].writes[u].seeded \/ decided'[u] \in Roles
    <2>1. CASE v = w
      <3>1. txn'[v] = t /\ t.op \in Holding /\ u \in DOMAIN t.writes
        BY <2>1, <1>3, OneTxnChanges DEF IInv
      <3> QED
        BY <1>3, <3>1
    <2>2. CASE v # w
      <3>1. txn'[v] = txn[v] /\ u \in Written(v)
        BY <2>2, <1>3, OneTxnChanges DEF IInv
      <3> QED
        BY <1>3, <3>1 DEF IInv, WritesGranted
    <2> QED
      BY <2>1, <2>2
  <1> QED
    BY <1>1, <1>2, <1>3 DEF WritesGranted

LEMMA LoudStep ==
    ASSUME IInv, NEW w \in Workers, Commits(w)
    PROVE  NobodyUngranted' /\ WritesApart' /\ WritesGranted'
  <1> DEFINE f == txn[w].writes
  <1>1. TypeOK /\ Idle \in Txn /\ Idle.op \notin Holding
    BY DEF IInv, Txn, Idle, Holding
  <1>2. txn' = [txn EXCEPT ![w] = Idle] /\ txn[w].op \in Holding
    BY <1>1, CommitStep DEF Commits
  <1>3. Written(w) = DOMAIN f
    BY <1>1, <1>2, WritesFields
  <1>4. ASSUME NEW u \in Upns, table'[u] # NoGrant
        PROVE  table'[u].seeded \/ decided'[u] \in Roles
    <2>1. CASE decided'[u] = decided[u] /\ table'[u] = Over(table, f)[u]
      <3>1. CASE u \in DOMAIN f
        <4>1. table'[u] = f[u]
          BY <2>1, <3>1 DEF Over
        <4> QED
          BY <1>3, <1>4, <2>1, <3>1, <4>1 DEF IInv, WritesGranted
      <3>2. CASE u \notin DOMAIN f
        <4>1. table'[u] = table[u]
          BY <2>1, <3>2 DEF Over
        <4> QED
          BY <1>4, <2>1, <4>1 DEF IInv, NobodyUngranted
      <3> QED
        BY <3>1, <3>2
    <2>2. CASE decided'[u] \in Roles
      BY <2>2
    <2> QED
      BY <1>1, <1>4, <2>1, <2>2, CommitStep DEF Commits
  <1>5. WritesApart'
    BY <1>1, <1>2, ApartStep DEF IInv
  <1>6. ASSUME NEW v \in Workers, NEW u \in Written(v)', txn'[v].writes[u] # NoGrant
        PROVE  txn'[v].writes[u].seeded \/ decided'[u] \in Roles
    <2>1. v # w /\ txn'[v] = txn[v] /\ u \in Written(v)
      BY <1>1, <1>2, <1>6, OneTxnChanges
    <2>2. txn[v].writes[u].seeded \/ decided[u] \in Roles
      BY <1>6, <2>1 DEF IInv, WritesGranted
    <2>3. LockedFor(w, {u})
      BY <2>1 DEF LockedFor
    <2>4. u \in Upns
      <3>1. txn[v].op \in Holding
        BY <2>1 DEF Written, Holding
      <3> QED
        BY <1>1, <2>1, <3>1, WritesFields, WritesType
    <2>5. decided'[u] # decided[u] => decided'[u] \in Roles
      BY <1>1, <2>3, <2>4, CommitStep DEF Commits
    <2> QED
      BY <2>1, <2>2, <2>5
  <1> QED
    BY <1>4, <1>5, <1>6 DEF NobodyUngranted, WritesGranted

LEMMA IInvStep ==
    ASSUME IInv, [Next]_vars
    PROVE  IInv'
  <1>1. TypeOK /\ TypeOK'
    BY TypeStep DEF IInv
  <1> DEFINE Rest == NobodyUngranted' /\ WritesApart' /\ WritesGranted'
  <1>2. ASSUME UNCHANGED vars
        PROVE  Rest
    <2>1. table' = table /\ decided' = decided /\ txn' = txn
      BY <1>2 DEF vars
    <2>2. \A w : Written(w)' = Written(w)
      BY <2>1 DEF Written
    <2>3. NobodyUngranted'
      BY <2>1 DEF IInv, NobodyUngranted
    <2>4. WritesApart'
      BY <2>2 DEF IInv, WritesApart
    <2>5. WritesGranted'
      BY <2>1, <2>2 DEF IInv, WritesGranted
    <2> QED
      BY <2>3, <2>4, <2>5
  <1>3. ASSUME NEW w \in Workers, Begins(w)
        PROVE  Rest
    <2>1. PICK t \in {Idle} \cup ReadTxn : txn' = [txn EXCEPT ![w] = t]
      BY <1>3 DEF Begins
    <2>2. t \in Txn /\ t.op \notin Holding
      BY DEF Txn, Idle, ReadTxn, Holding
    <2> QED
      BY <1>3, <2>1, <2>2, QuietStep DEF Begins
  <1>4. ASSUME NEW w \in Workers, Reconcile(w)
        PROVE  Rest
    <2>1. UNCHANGED <<table, decided>>
      BY <1>1, <1>4, ReconcileStep
    <2>2. PICK t \in FlushedTxn :
            /\ txn' = [txn EXCEPT ![w] = t]
            /\ ~LockedFor(w, DOMAIN t.writes)
            /\ \A u \in DOMAIN t.writes :
                 \/ table[u] = NoGrant /\ t.writes[u].seeded
                 \/ table[u] # NoGrant /\ t.writes[u].seeded = table[u].seeded
      BY <1>1, <1>4, ReconcileStep
    <2>3. t \in Txn /\ DOMAIN t.writes \subseteq Upns
      BY WritesType DEF Txn, FlushedTxn
    <2>4. ~LockedFor(w, DOMAIN t.writes \ Written(w))
      BY <2>2 DEF LockedFor
    <2>5. \A u \in DOMAIN t.writes : t.writes[u].seeded \/ decided[u] \in Roles
      BY <2>2, <2>3 DEF IInv, NobodyUngranted
    <2> QED
      BY <2>1, <2>2, <2>3, <2>4, <2>5, QuietStep
  <1>5. ASSUME NEW w \in Workers, Purge(w)
        PROVE  Rest
    <2>1. UNCHANGED <<table, decided>> /\ txn[w].op = "flushed"
      BY <1>1, <1>5, PurgeStep
    <2>2. PICK t \in PurgedTxn, doomed \in SUBSET Upns :
            /\ txn' = [txn EXCEPT ![w] = t]
            /\ ~LockedFor(w, doomed)
            /\ DOMAIN t.writes = DOMAIN txn[w].writes \cup doomed
            /\ \A u \in DOMAIN t.writes :
                 \/ t.writes[u] = NoGrant
                 \/ u \in DOMAIN txn[w].writes /\ t.writes[u] = txn[w].writes[u]
      BY <1>1, <1>5, PurgeStep
    <2>3. Written(w) = DOMAIN txn[w].writes
      BY <1>1, <2>1, WritesFields DEF Holding
    <2>4. ~LockedFor(w, DOMAIN t.writes \ Written(w))
      BY <2>2, <2>3 DEF LockedFor
    <2>5. \A u \in DOMAIN t.writes :
            t.writes[u] # NoGrant => t.writes[u].seeded \/ decided[u] \in Roles
      BY <2>2, <2>3 DEF IInv, WritesGranted
    <2>6. t \in Txn
      BY DEF Txn
    <2> QED
      BY <2>1, <2>2, <2>4, <2>5, <2>6, QuietStep
  <1>6. ASSUME NEW w \in Workers, Arms(w)
        PROVE  Rest
    <2>1. UNCHANGED <<table, decided>>
      BY <1>1, <1>6, ArmsStep
    <2>2. PICK t \in CommandTxn :
            /\ txn' = [txn EXCEPT ![w] = t]
            /\ \/ DOMAIN t.writes = {}
               \/ txn[w].op = "purged" /\ t.writes = txn[w].writes
      BY <1>1, <1>6, ArmsStep
    <2>3. t \in Txn
      BY DEF Txn
    <2>4. CASE DOMAIN t.writes = {}
      <3>1. ~LockedFor(w, DOMAIN t.writes \ Written(w))
        BY <2>4 DEF LockedFor
      <3> QED
        BY <2>1, <2>2, <2>3, <2>4, <3>1, QuietStep
    <2>5. CASE txn[w].op = "purged" /\ t.writes = txn[w].writes
      <3>1. Written(w) = DOMAIN t.writes
        BY <1>1, <2>5, WritesFields DEF Holding
      <3>2. ~LockedFor(w, DOMAIN t.writes \ Written(w))
        BY <3>1 DEF LockedFor
      <3>3. \A u \in DOMAIN t.writes :
              t.writes[u] # NoGrant => t.writes[u].seeded \/ decided[u] \in Roles
        BY <2>5, <3>1 DEF IInv, WritesGranted
      <3> QED
        BY <2>1, <2>2, <2>3, <3>2, <3>3, QuietStep
    <2> QED
      BY <2>2, <2>4, <2>5
  <1>7. ASSUME NEW w \in Workers, Commits(w)
        PROVE  Rest
    BY <1>7, LoudStep
  <1> HIDE DEF Rest
  <1>8. Rest
    BY <1>1, <1>2, <1>3, <1>4, <1>5, <1>6, <1>7, StepCases
  <1> QED
    BY <1>1, <1>8 DEF IInv, Rest

(* Whatever transactions overlap, nobody is on the list whom neither the   *)
(* settings nor an administrator's last decision put there.                *)
THEOREM ListedMeansGranted == Spec => []NobodyUngranted
  <1>1. Init => IInv
    <2>1. Init => TypeOK
      BY DEF Init, TypeOK, Entry, Txn
    <2> QED
      BY <2>1 DEF Init, IInv, NobodyUngranted, WritesApart, WritesGranted, Written, Idle
  <1>2. IInv /\ [Next]_vars => IInv'
    BY IInvStep
  <1>3. IInv => NobodyUngranted
    BY DEF IInv
  <1> QED
    BY <1>1, <1>2, <1>3, PTL DEF Spec
-----------------------------------------------------------------------------
(* Row locks, and why a grant made by hand keeps its mark.                 *)

(* A row marked as the settings', held and not committed, takes the place  *)
(* of none or of another one so marked.                                    *)
MarksWereThere ==
    \A w \in Workers : \A u \in Written(w) :
        txn[w].writes[u] # NoGrant /\ txn[w].writes[u].seeded =>
            table[u] = NoGrant \/ table[u].seeded

MarksHold(t) ==
    \A u \in DOMAIN t.writes :
        t.writes[u] # NoGrant /\ t.writes[u].seeded => table[u] = NoGrant \/ table[u].seeded

(* A transaction that changes no row keeps the marks, if its own are such. *)
LEMMA MarksCarry ==
    ASSUME TypeOK, MarksWereThere, NEW w \in Workers, NEW t \in Txn,
           txn' = [txn EXCEPT ![w] = t], table' = table,
           t.op \in Holding => MarksHold(t)
    PROVE  MarksWereThere'
  <1>1. ASSUME NEW v \in Workers, NEW u \in Written(v)',
               txn'[v].writes[u] # NoGrant, txn'[v].writes[u].seeded
        PROVE  table'[u] = NoGrant \/ table'[u].seeded
    <2>1. CASE v = w
      <3>1. txn'[v] = t /\ t.op \in Holding /\ u \in DOMAIN t.writes
        BY <1>1, <2>1, OneTxnChanges
      <3> QED
        BY <1>1, <3>1 DEF MarksHold
    <2>2. CASE v # w
      <3>1. txn'[v] = txn[v] /\ u \in Written(v)
        BY <1>1, <2>2, OneTxnChanges
      <3> QED
        BY <1>1, <3>1 DEF MarksWereThere
    <2> QED
      BY <2>1, <2>2
  <1> QED
    BY <1>1 DEF MarksWereThere

(* A commit changes no row that another transaction holds. *)
LEMMA CommitsSpareHeldRows ==
    ASSUME TypeOK, WritesApart, NEW w \in Workers, Commits(w),
           NEW v \in Workers \ {w}, NEW u \in Written(v)
    PROVE  table'[u] = table[u]
  <1> DEFINE now == Over(table, txn[w].writes)
  <1>1. txn[w].op \in Holding
    BY DEF Commits, CommitReconciled, GrantCommit, RevokeCommit, Holding
  <1>2. Written(w) = DOMAIN txn[w].writes /\ now \in [Upns -> Entry]
    BY <1>1, WritesFields, OverType DEF TypeOK
  <1>3. u \in Upns
    <2>1. txn[v].op \in Holding
      BY DEF Written, Holding
    <2> QED
      BY <2>1, WritesFields, WritesType
  <1>4. now[u] = table[u]
    BY <1>2, <1>3 DEF WritesApart, Over
  <1>5. LockedFor(w, {u})
    BY DEF LockedFor
  <1> HIDE DEF now
  <1>6. CASE CommitReconciled(w)
    BY <1>4, <1>6 DEF CommitReconciled, now
  <1>7. CASE GrantCommit(w)
    <2>1. \/ table' = now
          \/ /\ ~LockedFor(w, {txn[w].target})
             /\ \E r : table' = [now EXCEPT ![txn[w].target] = r]
      BY <1>7 DEF GrantCommit, now
    <2> QED
      BY <1>2, <1>3, <1>4, <1>5, <2>1
  <1>8. CASE RevokeCommit(w)
    <2>1. \/ table' = now
          \/ /\ ~LockedFor(w, {txn[w].target})
             /\ \E r : table' = [now EXCEPT ![txn[w].target] = r]
      BY <1>8 DEF RevokeCommit, now
    <2> QED
      BY <1>2, <1>3, <1>4, <1>5, <2>1
  <1> QED
    BY <1>6, <1>7, <1>8 DEF Commits

LEMMA MarksStep ==
    ASSUME IInv, MarksWereThere, [Next]_vars
    PROVE  MarksWereThere'
  <1>1. TypeOK
    BY DEF IInv
  <1>2. ASSUME UNCHANGED vars
        PROVE  MarksWereThere'
    <2>1. table' = table /\ txn' = txn
      BY <1>2 DEF vars
    <2>2. \A w : Written(w)' = Written(w)
      BY <2>1 DEF Written
    <2> QED
      BY <2>1, <2>2 DEF MarksWereThere
  <1>3. ASSUME NEW w \in Workers, Begins(w)
        PROVE  MarksWereThere'
    <2>1. PICK t \in {Idle} \cup ReadTxn : txn' = [txn EXCEPT ![w] = t]
      BY <1>3 DEF Begins
    <2>2. t \in Txn /\ t.op \notin Holding
      BY DEF Txn, Idle, ReadTxn, Holding
    <2> QED
      BY <1>1, <1>3, <2>1, <2>2, MarksCarry DEF Begins
  <1>4. ASSUME NEW w \in Workers, Reconcile(w)
        PROVE  MarksWereThere'
    <2>1. UNCHANGED <<table, decided>>
      BY <1>1, <1>4, ReconcileStep
    <2>2. PICK t \in FlushedTxn :
            /\ txn' = [txn EXCEPT ![w] = t]
            /\ \A u \in DOMAIN t.writes :
                 \/ table[u] = NoGrant /\ t.writes[u].seeded
                 \/ table[u] # NoGrant /\ t.writes[u].seeded = table[u].seeded
      BY <1>1, <1>4, ReconcileStep
    <2>3. t \in Txn /\ MarksHold(t)
      BY <2>2 DEF Txn, MarksHold
    <2> QED
      BY <1>1, <2>1, <2>2, <2>3, MarksCarry
  <1>5. ASSUME NEW w \in Workers, Purge(w)
        PROVE  MarksWereThere'
    <2>1. UNCHANGED <<table, decided>> /\ txn[w].op = "flushed"
      BY <1>1, <1>5, PurgeStep
    <2>2. PICK t \in PurgedTxn :
            /\ txn' = [txn EXCEPT ![w] = t]
            /\ \A u \in DOMAIN t.writes :
                 \/ t.writes[u] = NoGrant
                 \/ u \in DOMAIN txn[w].writes /\ t.writes[u] = txn[w].writes[u]
      BY <1>1, <1>5, PurgeStep
    <2>3. Written(w) = DOMAIN txn[w].writes
      BY <1>1, <2>1, WritesFields DEF Holding
    <2>4. t \in Txn /\ MarksHold(t)
      BY <2>2, <2>3 DEF Txn, MarksHold, MarksWereThere
    <2> QED
      BY <1>1, <2>1, <2>2, <2>4, MarksCarry
  <1>6. ASSUME NEW w \in Workers, Arms(w)
        PROVE  MarksWereThere'
    <2>1. UNCHANGED <<table, decided>>
      BY <1>1, <1>6, ArmsStep
    <2>2. PICK t \in CommandTxn :
            /\ txn' = [txn EXCEPT ![w] = t]
            /\ \/ DOMAIN t.writes = {}
               \/ txn[w].op = "purged" /\ t.writes = txn[w].writes
      BY <1>1, <1>6, ArmsStep
    <2>3. txn[w].op = "purged" => Written(w) = DOMAIN txn[w].writes
      BY <1>1, WritesFields DEF Holding
    <2>4. t \in Txn /\ MarksHold(t)
      BY <2>2, <2>3 DEF Txn, MarksHold, MarksWereThere
    <2> QED
      BY <1>1, <2>1, <2>2, <2>4, MarksCarry
  <1>7. ASSUME NEW w \in Workers, Commits(w)
        PROVE  MarksWereThere'
    <2>1. Idle \in Txn /\ Idle.op \notin Holding
      BY DEF Txn, Idle, Holding
    <2>2. txn' = [txn EXCEPT ![w] = Idle]
      BY <1>1, <1>7, CommitStep DEF Commits
    <2>3. ASSUME NEW v \in Workers, NEW u \in Written(v)',
                 txn'[v].writes[u] # NoGrant, txn'[v].writes[u].seeded
          PROVE  table'[u] = NoGrant \/ table'[u].seeded
      <3>1. v # w /\ txn'[v] = txn[v] /\ u \in Written(v)
        BY <1>1, <2>1, <2>2, <2>3, OneTxnChanges
      <3>2. table'[u] = table[u]
        BY <1>7, <3>1, CommitsSpareHeldRows DEF IInv
      <3> QED
        BY <2>3, <3>1, <3>2 DEF MarksWereThere
    <2> QED
      BY <2>3 DEF MarksWereThere
  <1> QED
    BY <1>1, <1>2, <1>3, <1>4, <1>5, <1>6, <1>7, StepCases

(* No step of any number of overlapping reconciliations and commands gives *)
(* a grant made by hand the mark of the settings.                          *)
THEOREM HandMadeGrantsStayMarked == Spec => HandMadeKeepsItsMark
  <1>1. Init => IInv /\ MarksWereThere
    <2>1. Init => TypeOK
      BY DEF Init, TypeOK, Entry, Txn
    <2> QED
      BY <2>1 DEF Init, IInv, NobodyUngranted, WritesApart, WritesGranted,
                  MarksWereThere, Written, Idle
  <1>2. IInv /\ MarksWereThere /\ [Next]_vars => IInv' /\ MarksWereThere'
    BY IInvStep, MarksStep
  <1> DEFINE Kept == \A u \in Upns :
               /\ table[u] # NoGrant /\ ~table[u].seeded
               /\ table'[u] # NoGrant
               => ~table'[u].seeded
  <1>3. ASSUME IInv, MarksWereThere, [Next]_vars, NEW u \in Upns,
               table[u] # NoGrant, ~table[u].seeded, table'[u] # NoGrant
        PROVE  ~table'[u].seeded
    <2>1. TypeOK
      BY <1>3 DEF IInv
    <2>2. CASE table' = table
      BY <1>3, <2>2
    <2>3. ASSUME NEW w \in Workers, Commits(w)
          PROVE  ~table'[u].seeded
      <3> DEFINE now == Over(table, txn[w].writes)
      <3>1. txn[w].op \in Holding
        BY <2>3 DEF Commits, CommitReconciled, GrantCommit, RevokeCommit, Holding
      <3>2. Written(w) = DOMAIN txn[w].writes /\ now \in [Upns -> Entry]
        BY <2>1, <3>1, WritesFields, OverType DEF TypeOK
      <3>3. now[u] # NoGrant => ~now[u].seeded
        BY <1>3, <3>2 DEF MarksWereThere, Over
      <3> HIDE DEF now
      <3>4. CASE table' = now
        BY <1>3, <3>3, <3>4
      <3>5. CASE /\ GrantCommit(w)
                 /\ table' = [now EXCEPT ![txn[w].target] =
                                 Granted(txn[w].seen, now[txn[w].target], txn[w].role)]
                 /\ (txn[w].seen = NoGrant) <=> (now[txn[w].target] = NoGrant)
        <4>1. CASE u # txn[w].target
          BY <1>3, <3>2, <3>3, <3>5, <4>1
        <4>2. CASE u = txn[w].target
          <5>1. table'[u] = Granted(txn[w].seen, now[u], txn[w].role)
            BY <3>2, <3>5, <4>2
          <5>2. ~Granted(txn[w].seen, now[u], txn[w].role).seeded
            BY <3>3, <3>5, <4>2 DEF Granted
          <5> QED
            BY <5>1, <5>2
        <4> QED
          BY <4>1, <4>2
      <3>6. CASE RevokeCommit(w) /\ table' = [now EXCEPT ![txn[w].target] = NoGrant]
        BY <1>3, <3>2, <3>3, <3>6
      <3> QED
        BY <2>3, <3>4, <3>5, <3>6
           DEF Commits, CommitReconciled, GrantCommit, RevokeCommit, now
    <2> QED
      BY <1>3, <2>1, <2>2, <2>3, StepCases, ReconcileStep, PurgeStep, ArmsStep
         DEF vars, Begins
  <1>4. IInv /\ MarksWereThere /\ [Next]_vars => Kept
    BY <1>3
  <1> QED
    BY <1>1, <1>2, <1>4, PTL DEF Spec, HandMadeKeepsItsMark
=============================================================================
