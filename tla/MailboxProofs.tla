--------------------------- MODULE MailboxProofs ---------------------------
(***************************************************************************)
(* Theorems about Mailbox, for any number of overlapping requests,         *)
(* accounts, consents and rotations and any choice of faults.              *)
(*                                                                         *)
(* That a stored credential and a connection exist together is not         *)
(* inductive: a request that has rotated the credential will write it when *)
(* it commits, whatever has happened to the row by then.  LocksHold says   *)
(* that nothing can have: what a request is about to write, it has locked, *)
(* and the locked row is there.  OneHolder says that one request at a time *)
(* holds the lock.                                                         *)
(*                                                                         *)
(* What the second half proves relates the row, what the web process       *)
(* remembers and what the provider accepts.  Current says that what a      *)
(* request has read still holds, which it does because there is one        *)
(* request of a person at a time (OneRequest), that the provider honours   *)
(* every consent since the last withdrawal (ConsentsInOrder), and that     *)
(* nothing in use is newer than what was given out, nor an access token    *)
(* older than the credential beside it (GrantsInOrder).                    *)
(***************************************************************************)
EXTENDS Mailbox, TLAPS

Sound(r) ==
    /\ r.op \in {"open", "refresh", "refreshed"} => ~r.held /\ ~r.wrote
    /\ r.op \in {"open", "refresh"} => r.cred = None
    /\ r.op \in {"refresh", "refreshed"} => r.old # None
    /\ r.wrote => r.held
    /\ r.op \in {"call", "done"} /\ r.cred \notin {None, r.old} => r.held
    /\ r.held => Present(r.id)

Locking(r) == r.op = "connect" \/ (r.op \in {"call", "done"} /\ r.held)

LocksHold == \A w \in Workers : req[w] \in UseReq => Sound(req[w])
OneHolder == \A v, w \in Workers : Holds(v) /\ Holds(w) => v = w

IInv == TypeOK /\ LocksHold /\ OneHolder /\ CredentialMeansConnection

-----------------------------------------------------------------------------
(* A request is recognised by its op. *)
LEMMA ShapeOfRequest ==
    ASSUME TypeOK, NEW w \in Workers
    PROVE  /\ req[w].op \in {"open", "refresh", "refreshed", "call", "done"} => req[w] \in UseReq
           /\ req[w].op = "connect" => req[w] \in ConnectReq
           /\ req[w].op = "drop" => req[w] \in DropReq
  <1>1. req[w] \in Request
    BY DEF TypeOK
  <1> QED
    BY <1>1 DEF Request, Idle, UseReq, ConnectReq, DropReq

LEMMA UseFields ==
    ASSUME NEW r \in UseReq
    PROVE  /\ r.op \in {"open", "refresh", "refreshed", "call", "done"}
           /\ r.place \in Places /\ r.want \in Wants /\ r.id \in Ids /\ r.status \in Status
           /\ r.wrote \in BOOLEAN /\ r.held \in BOOLEAN
           /\ r.old \in Credential \cup {None} /\ r.cred \in Credential \cup {None}
           /\ r.with \in Grants \cup {None}
  BY DEF UseReq

LEMMA SoundUse ==
    ASSUME IInv, NEW w \in Workers,
           req[w].op \in {"open", "refresh", "refreshed", "call", "done"}
    PROVE  req[w] \in UseReq /\ Sound(req[w])
  BY ShapeOfRequest DEF IInv, LocksHold

LEMMA HolderIsFree ==
    ASSUME IInv, NEW w \in Workers, Locking(req[w])
    PROVE  Free(w)
  BY DEF IInv, OneHolder, Free, Holds, Locking

LEMMA OthersHoldNothing ==
    ASSUME IInv, NEW w \in Workers, Free(w),
           NEW v \in Workers \ {w}, req[v] \in UseReq
    PROVE  ~req[v].held
  <1>1. Sound(req[v])
    BY DEF IInv, LocksHold
  <1>2. ~Holds(v)
    BY DEF Free
  <1> QED
    BY <1>1, <1>2, UseFields DEF Sound, Holds

(* A request moves on without touching the tables. *)
LEMMA RequestStep ==
    ASSUME IInv, NEW w \in Workers, NEW r \in Request, req' = [req EXCEPT ![w] = r],
           UNCHANGED database, r \in UseReq => Sound(r), Locking(r) => Free(w)
    PROVE  /\ req' \in [Workers -> Request]
           /\ LocksHold' /\ OneHolder' /\ CredentialMeansConnection'
  <1>1. req \in [Workers -> Request]
    BY DEF IInv, TypeOK
  <1>2. req' \in [Workers -> Request] /\ req'[w] = r
    BY <1>1
  <1>3. \A v \in Workers \ {w} : req'[v] = req[v] /\ (Holds(v)' <=> Holds(v))
    BY <1>1 DEF Holds
  <1>4. row' = row /\ token' = token
    BY DEF database
  <1>5. ASSUME NEW v \in Workers, req'[v] \in UseReq
        PROVE  Sound(req[v])'
    <2>1. Sound(req'[v])
      <3>1. CASE v = w
        BY <1>2, <1>5, <3>1
      <3>2. CASE v # w
        BY <1>3, <1>5, <3>2 DEF IInv, LocksHold
      <3> QED
        BY <3>1, <3>2
    <2> QED
      BY <1>4, <2>1 DEF Sound, Present
  <1>6. LocksHold'
    BY <1>5 DEF LocksHold
  <1>7. Holds(w)' => Free(w)
    BY <1>2 DEF Holds, Locking
  <1>8. ASSUME NEW u \in Workers, NEW v \in Workers, Holds(u)', Holds(v)'
        PROVE  u = v
    <2>1. CASE u = w
      BY <1>3, <1>7, <1>8, <2>1 DEF Free
    <2>2. CASE v = w
      BY <1>3, <1>7, <1>8, <2>2 DEF Free
    <2>3. CASE u # w /\ v # w
      BY <1>3, <1>8, <2>3 DEF IInv, OneHolder
    <2> QED
      BY <2>1, <2>2, <2>3
  <1>9. CredentialMeansConnection'
    BY <1>4 DEF IInv, CredentialMeansConnection
  <1> QED
    BY <1>2, <1>6, <1>8, <1>9 DEF OneHolder

(* A request that holds the lock, or could take it, ends and changes the   *)
(* tables.                                                                 *)
LEMMA CommitStep ==
    ASSUME IInv, NEW w \in Workers, req' = [req EXCEPT ![w] = Idle],
           \A i \in Ids : Present(i) /\ ~Free(w) => Present(i)',
           CredentialMeansConnection'
    PROVE  /\ req' \in [Workers -> Request]
           /\ LocksHold' /\ OneHolder'
  <1>1. req \in [Workers -> Request] /\ Idle \in Request
    BY DEF IInv, TypeOK, Request
  <1>2. req' \in [Workers -> Request] /\ req'[w] = Idle
    BY <1>1
  <1>3. \A v \in Workers \ {w} : req'[v] = req[v] /\ (Holds(v)' <=> Holds(v))
    BY <1>1 DEF Holds
  <1>4. Idle \notin UseReq /\ ~Holds(w)'
    BY <1>2 DEF Idle, UseReq, Holds
  <1>5. ASSUME NEW v \in Workers, req'[v] \in UseReq
        PROVE  Sound(req[v])'
    <2>1. v # w /\ req'[v] = req[v] /\ req[v] \in UseReq
      BY <1>2, <1>3, <1>4, <1>5
    <2>2. Sound(req[v])
      BY <2>1 DEF IInv, LocksHold
    <2>3. req[v].held => ~Free(w)
      BY <2>1, OthersHoldNothing
    <2>4. req[v].held => Present(req[v].id)'
      BY <2>1, <2>2, <2>3, UseFields DEF Sound
    <2> QED
      BY <2>1, <2>2, <2>4 DEF Sound
  <1>6. OneHolder'
    BY <1>3, <1>4 DEF IInv, OneHolder
  <1> QED
    BY <1>2, <1>5, <1>6 DEF LocksHold

-----------------------------------------------------------------------------
(* Connecting and disconnecting. *)

LEMMA ConnectStep ==
    ASSUME IInv, NEW w \in Workers, NEW place \in Places, Connect(w, place)
    PROVE  IInv'
  <1> DEFINE id == IF row = NoRow THEN nextId ELSE row.id
             r == [op |-> "connect", place |-> place, id |-> id,
                   cred |-> [grant |-> nextGrant, n |-> 0]]
  <1>1. id \in Ids /\ nextGrant \in Grants /\ Free(w)
    BY DEF Connect
  <1>2. r \in ConnectReq /\ r \notin UseReq
    <2>1. [grant |-> nextGrant, n |-> 0] \in Credential
      BY <1>1, BoundsAssumption DEF Credential
    <2> QED
      BY <1>1, <2>1 DEF ConnectReq, UseReq
  <1>3. req' = [req EXCEPT ![w] = r] /\ UNCHANGED database
    BY DEF Connect, Become, database
  <1>4. /\ req' \in [Workers -> Request]
        /\ LocksHold' /\ OneHolder' /\ CredentialMeansConnection'
    <2>1. r \in Request
      BY <1>2 DEF Request
    <2> QED
      BY <1>1, <1>2, <1>3, <2>1, RequestStep
  <1>5. access' \in [Ids -> Grants \cup {None}]
    BY <1>1 DEF Connect, Remembered, IInv, TypeOK
  <1>6. nextId' \in 1 .. MaxAccounts + 1 /\ nextGrant' \in 1 .. MaxGrants + 1
    BY <1>1, BoundsAssumption DEF Connect, IInv, TypeOK, Ids, Grants
  <1> QED
    BY <1>1, <1>3, <1>4, <1>5, <1>6 DEF Connect, IInv, TypeOK, database

LEMMA ConnectCommitStep ==
    ASSUME IInv, NEW w \in Workers, ConnectCommit(w)
    PROVE  IInv'
  <1>1. req[w] \in ConnectReq /\ Free(w)
    BY ShapeOfRequest, HolderIsFree DEF ConnectCommit, IInv, Locking
  <1>2. row' \in Row /\ token' \in Credential
    BY <1>1, BoundsAssumption DEF ConnectCommit, ConnectReq, Row, Status, StatusOnConnect
  <1>3. CredentialMeansConnection'
    BY <1>2, BoundsAssumption DEF CredentialMeansConnection
  <1>4. req' \in [Workers -> Request] /\ LocksHold' /\ OneHolder'
    BY <1>1, <1>3, CommitStep DEF ConnectCommit, Become
  <1> QED
    BY <1>2, <1>3, <1>4 DEF ConnectCommit, IInv, TypeOK, provider, memory, counters

LEMMA DisconnectStep ==
    ASSUME IInv, NEW w \in Workers, NEW place \in Places, Disconnect(w, place)
    PROVE  IInv'
  <1> DEFINE r == [op |-> "drop", place |-> place, id |-> row.id]
  <1>1. row.id \in Ids
    BY DEF Disconnect, IInv, TypeOK, Row
  <1>2. r \in Request /\ r \notin UseReq /\ ~Locking(r)
    BY <1>1 DEF Request, DropReq, UseReq, Locking
  <1>3. req' = [req EXCEPT ![w] = r] /\ UNCHANGED database
    BY DEF Disconnect, Become
  <1>4. /\ req' \in [Workers -> Request]
        /\ LocksHold' /\ OneHolder' /\ CredentialMeansConnection'
    BY <1>2, <1>3, RequestStep
  <1>5. access' \in [Ids -> Grants \cup {None}] /\ headers' \subseteq Ids
    BY DEF Disconnect, IInv, TypeOK, memory
  <1> QED
    BY <1>4, <1>5 DEF Disconnect, IInv, TypeOK, database, provider, counters

LEMMA DisconnectCommitStep ==
    ASSUME IInv, NEW w \in Workers, DisconnectCommit(w)
    PROVE  IInv'
  <1>1. Free(w)
    BY DEF DisconnectCommit, Writable
  <1>2. CredentialMeansConnection'
    BY DEF DisconnectCommit, CredentialMeansConnection
  <1>3. req' \in [Workers -> Request] /\ LocksHold' /\ OneHolder'
    BY <1>1, <1>2, CommitStep DEF DisconnectCommit, Become
  <1> QED
    BY <1>2, <1>3 DEF DisconnectCommit, IInv, TypeOK, provider, memory, counters

-----------------------------------------------------------------------------
(* Using a mailbox. *)

LEMMA SetStatusFields ==
    ASSUME NEW r \in UseReq, NEW s \in Status
    PROVE  /\ SetStatus(r, s) \in UseReq
           /\ SetStatus(r, s).op = r.op /\ SetStatus(r, s).id = r.id
           /\ SetStatus(r, s).old = r.old /\ SetStatus(r, s).cred = r.cred
  BY DEF UseReq, SetStatus

(* A request that has just updated the row holds its lock. *)
LEMMA HeldIsSound ==
    ASSUME IInv, NEW w \in Workers, Writable(w), NEW r \in UseReq,
           r.id = req[w].id, r.op \in {"call", "done"}, r.held
    PROVE  Sound(r) /\ (Locking(r) => Free(w))
  BY DEF Writable, Sound

(* What stays when a step changes requests and the process's memory only.  *)
LEMMA Quiet ==
    ASSUME IInv, NEW w \in Workers, NEW r \in Request, req' = [req EXCEPT ![w] = r],
           r \in UseReq => Sound(r), Locking(r) => Free(w),
           UNCHANGED <<database, consent, counters>>,
           newest' \in [Grants -> 0 .. MaxRotations],
           access' \in [Ids -> Grants \cup {None}], headers' \subseteq Ids
    PROVE  IInv'
  <1>1. /\ req' \in [Workers -> Request]
        /\ LocksHold' /\ OneHolder' /\ CredentialMeansConnection'
    BY RequestStep
  <1> QED
    BY <1>1 DEF IInv, TypeOK, database, counters

LEMMA ReportStep ==
    ASSUME IInv, NEW w \in Workers, req[w].op \in {"refresh", "call"},
           NEW s \in Status, Report(w, s), UNCHANGED <<database, provider, memory, counters>>
    PROVE  IInv'
  <1>1. req[w] \in UseReq
    BY SoundUse
  <1>2. newest' \in [Grants -> 0 .. MaxRotations] /\ access' \in [Ids -> Grants \cup {None}]
        /\ headers' \subseteq Ids /\ consent' = consent
    BY DEF IInv, TypeOK, provider, memory
  <1>3. CASE Writable(w) /\ Become(w, [SetStatus(req[w], s) EXCEPT !.op = "done", !.held = TRUE])
    <2> DEFINE q == SetStatus(req[w], s)
               r == [q EXCEPT !.op = "done", !.held = TRUE]
    <2>1. q \in UseReq /\ q.id = req[w].id
      BY <1>1, SetStatusFields
    <2>2. r \in UseReq /\ r.id = q.id /\ r.op = "done" /\ r.held
      BY <2>1 DEF UseReq
    <2>3. Sound(r) /\ (Locking(r) => Free(w))
      BY <1>3, <2>1, <2>2, HeldIsSound
    <2>4. r \in Request /\ req' = [req EXCEPT ![w] = r]
      BY <1>3, <2>2 DEF Request, Become
    <2> QED
      BY <1>2, <2>3, <2>4, Quiet
  <1>4. CASE Become(w, Idle)
    <2>1. Idle \in Request /\ Idle \notin UseReq /\ ~Locking(Idle)
      BY DEF Request, Idle, UseReq, Locking
    <2> QED
      BY <1>2, <1>4, <2>1, Quiet DEF Become
  <1> QED
    BY <1>3, <1>4 DEF Report, PageOnTheWeb

LEMMA BeginStep ==
    ASSUME IInv, NEW w \in Workers, NEW place \in Places, NEW want \in Wants,
           Begin(w, place, want)
    PROVE  IInv'
  <1> DEFINE r == [op |-> "open", place |-> place, want |-> want, id |-> row.id,
                   status |-> row.status, wrote |-> FALSE, held |-> FALSE,
                   old |-> None, cred |-> None, with |-> None]
  <1>1. row \in Row
    BY DEF Begin, IInv, TypeOK
  <1>2. r \in UseReq /\ Sound(r) /\ ~Locking(r)
    BY <1>1 DEF UseReq, Row, Sound, Locking
  <1>3. r \in Request /\ req' = [req EXCEPT ![w] = r]
    BY <1>2 DEF Request, Begin, Become
  <1> QED
    BY <1>2, <1>3, Quiet DEF Begin, IInv, TypeOK, provider, memory

LEMMA OpenStep ==
    ASSUME IInv, NEW w \in Workers, UseRemembered(w) \/ OpenSecret(w)
    PROVE  IInv'
  <1> DEFINE r == req[w]
  <1>1. r \in UseReq /\ Sound(r) /\ r.op = "open"
    BY SoundUse DEF UseRemembered, OpenSecret
  <1>2. CASE UseRemembered(w)
    <2> DEFINE s == [r EXCEPT !.op = "call", !.with = access[r.id]]
    <2>1. access[r.id] \in Grants \cup {None}
      BY <1>1, UseFields DEF IInv, TypeOK
    <2>2. s \in UseReq /\ Sound(s) /\ ~Locking(s)
      BY <1>1, <2>1 DEF UseReq, Sound, Locking
    <2>3. s \in Request /\ req' = [req EXCEPT ![w] = s]
      BY <1>2, <2>2 DEF Request, UseRemembered, Become
    <2> QED
      BY <1>2, <2>2, <2>3, Quiet DEF UseRemembered, IInv, TypeOK, provider, memory
  <1>3. CASE OpenSecret(w)
    <2> DEFINE s == [r EXCEPT !.op = "refresh", !.old = token]
    <2>1. token \in Credential /\ token # None
      BY <1>3 DEF OpenSecret, IInv, TypeOK
    <2>2. s \in UseReq /\ Sound(s) /\ ~Locking(s)
      BY <1>1, <2>1 DEF UseReq, Sound, Locking
    <2>3. s \in Request /\ req' = [req EXCEPT ![w] = s]
      BY <1>3, <2>2 DEF Request, OpenSecret, Become
    <2> QED
      BY <1>3, <2>2, <2>3, Quiet DEF OpenSecret, IInv, TypeOK, provider, memory
  <1> QED
    BY <1>2, <1>3

LEMMA RefreshStep ==
    ASSUME IInv, NEW w \in Workers, Refresh(w)
    PROVE  IInv'
  <1> DEFINE r == req[w]
             g == r.old.grant
             next == [grant |-> g, n |-> newest[g] + 1]
  <1>1. r \in UseReq /\ Sound(r) /\ r.op = "refresh"
    BY SoundUse DEF Refresh
  <1>2. r.old \in Credential /\ g \in Grants
    BY <1>1 DEF UseReq, Sound, Credential
  <1>3. ASSUME NEW c \in Credential, Become(w, [r EXCEPT !.op = "refreshed", !.cred = c]),
               newest' \in [Grants -> 0 .. MaxRotations]
        PROVE  IInv'
    <2> DEFINE s == [r EXCEPT !.op = "refreshed", !.cred = c]
    <2>1. s \in UseReq /\ Sound(s) /\ ~Locking(s)
      BY <1>1, <1>2 DEF UseReq, Sound, Locking
    <2>2. s \in Request /\ req' = [req EXCEPT ![w] = s]
      BY <1>3, <2>1 DEF Request, Become
    <2> QED
      BY <1>3, <2>1, <2>2, Quiet DEF Refresh, IInv, TypeOK, memory
  <1>4. CASE Become(w, [r EXCEPT !.op = "refreshed", !.cred = r.old]) /\ UNCHANGED newest
    BY <1>2, <1>3, <1>4 DEF IInv, TypeOK
  <1>5. CASE /\ newest[g] < MaxRotations
             /\ newest' = [newest EXCEPT ![g] = @ + 1]
             /\ Become(w, [r EXCEPT !.op = "refreshed", !.cred = next])
    <2>1. newest[g] \in 0 .. MaxRotations /\ newest[g] + 1 \in 0 .. MaxRotations
      BY <1>2, <1>5, BoundsAssumption DEF IInv, TypeOK
    <2>2. next \in Credential
      BY <1>2, <2>1 DEF Credential
    <2>3. newest' \in [Grants -> 0 .. MaxRotations]
      BY <1>2, <1>5, <2>1 DEF IInv, TypeOK
    <2> QED
      BY <1>3, <1>5, <2>2, <2>3
  <1> QED
    BY <1>4, <1>5 DEF Refresh

LEMMA FlushStep ==
    ASSUME IInv, NEW w \in Workers, Flush(w)
    PROVE  IInv'
  <1> DEFINE q == SetStatus(req[w], "connected")
             g == req[w].old.grant
             r == [q EXCEPT !.op = "call", !.held = TRUE, !.with = g]
  <1>1. req[w] \in UseReq /\ Sound(req[w]) /\ req[w].op = "refreshed" /\ Writable(w)
    BY SoundUse DEF Flush
  <1>2. g \in Grants /\ req[w].id \in Ids
    BY <1>1 DEF UseReq, Sound, Credential
  <1>3. q \in UseReq /\ q.id = req[w].id
    BY <1>1, SetStatusFields DEF Status
  <1>4. r \in UseReq /\ r.id = q.id /\ r.op = "call" /\ r.held
    BY <1>2, <1>3 DEF UseReq
  <1>5. Sound(r) /\ (Locking(r) => Free(w))
    BY <1>1, <1>3, <1>4, HeldIsSound
  <1>6. r \in Request /\ req' = [req EXCEPT ![w] = r]
    BY <1>4 DEF Request, Flush, Become
  <1>7. access' \in [Ids -> Grants \cup {None}]
    BY <1>2 DEF Flush, Remembered, IInv, TypeOK
  <1> QED
    BY <1>5, <1>6, <1>7, Quiet DEF Flush, IInv, TypeOK, provider

LEMMA DoneStep ==
    ASSUME IInv, NEW w \in Workers, req[w].op = "call",
           Become(w, [req[w] EXCEPT !.op = "done"]),
           UNCHANGED <<database, provider, access, counters>>, headers' \subseteq Ids
    PROVE  IInv'
  <1> DEFINE r == [req[w] EXCEPT !.op = "done"]
  <1>1. req[w] \in UseReq /\ Sound(req[w])
    BY SoundUse
  <1>2. r \in UseReq /\ Sound(r) /\ (Locking(r) => Locking(req[w]))
    BY <1>1 DEF UseReq, Sound, Locking
  <1>3. r \in Request /\ req' = [req EXCEPT ![w] = r]
    BY <1>2 DEF Request, Become
  <1>4. Locking(r) => Free(w)
    BY <1>2, HolderIsFree
  <1> QED
    BY <1>2, <1>3, <1>4, Quiet DEF IInv, TypeOK, provider

LEMMA CallStep ==
    ASSUME IInv, NEW w \in Workers, FromCache(w) \/ Call(w) \/ CallRejected(w)
    PROVE  IInv'
  <1>1. req[w] \in UseReq /\ Sound(req[w]) /\ req[w].op = "call"
    BY SoundUse DEF FromCache, Call, CallRejected
  <1>2. headers' \subseteq Ids
    BY <1>1, UseFields DEF FromCache, Call, CallRejected, IInv, TypeOK, memory
  <1>3. CASE FromCache(w)
    BY <1>1, <1>2, <1>3, DoneStep DEF FromCache, memory
  <1>4. CASE Call(w)
    <2>1. CASE req[w].want = "test"
      <3> DEFINE q == SetStatus(req[w], "connected")
                 r == [q EXCEPT !.op = "done", !.held = TRUE]
      <3>1. q \in UseReq /\ q.id = req[w].id
        BY <1>1, SetStatusFields DEF Status
      <3>2. r \in UseReq /\ r.id = q.id /\ r.op = "done" /\ r.held
        BY <3>1 DEF UseReq
      <3>3. Writable(w) /\ req' = [req EXCEPT ![w] = r]
        BY <1>4, <2>1 DEF Call, Become
      <3>4. Sound(r) /\ (Locking(r) => Free(w))
        BY <3>1, <3>2, <3>3, HeldIsSound
      <3>5. r \in Request
        BY <3>2 DEF Request
      <3> QED
        BY <1>2, <1>4, <3>3, <3>4, <3>5, Quiet DEF Call, IInv, TypeOK, provider
    <2>2. CASE req[w].want # "test"
      BY <1>1, <1>2, <1>4, <2>2, DoneStep DEF Call
    <2> QED
      BY <2>1, <2>2
  <1>5. CASE CallRejected(w)
    <2>1. CASE PageOnTheWeb(req[w])
      BY <1>1, <1>2, <1>5, <2>1, DoneStep DEF CallRejected, memory
    <2>2. CASE ~PageOnTheWeb(req[w])
      BY <1>1, <1>5, <2>2, ReportStep DEF CallRejected, Status
    <2> QED
      BY <2>1, <2>2
  <1> QED
    BY <1>3, <1>4, <1>5

LEMMA UseCommitStep ==
    ASSUME IInv, NEW w \in Workers, Commit(w)
    PROVE  IInv'
  <1> DEFINE r == req[w]
  <1>1. r \in UseReq /\ Sound(r) /\ r.op = "done"
    BY SoundUse DEF Commit
  <1>2. r.held => row \in Row
    BY <1>1 DEF Sound, Present, IInv, TypeOK
  <1>3. /\ row' \in Row \cup {NoRow}
        /\ (row' = NoRow) <=> (row = NoRow)
        /\ row # NoRow => row'.id = row.id
    <2>1. CASE r.wrote
      <3>1. row \in Row /\ r.status \in Status
        BY <1>1, <1>2, <2>1, UseFields DEF Sound
      <3>2. row' = [row EXCEPT !.status = r.status]
        BY <2>1 DEF Commit
      <3>3. row' \in Row /\ row'.id = row.id
        BY <3>1, <3>2 DEF Row
      <3> QED
        BY <3>1, <3>3, BoundsAssumption
    <2>2. CASE ~r.wrote
      BY <2>2 DEF Commit, IInv, TypeOK
    <2> QED
      BY <2>1, <2>2
  <1>4. token' \in Credential \cup {None} /\ ((token' = None) <=> (token = None))
    <2>1. CASE r.cred \in {None, r.old}
      BY <2>1 DEF Commit, IInv, TypeOK
    <2>2. CASE r.cred \notin {None, r.old}
      <3>1. row # NoRow
        BY <1>1, <2>2 DEF Sound, Present
      <3>2. token' = r.cred /\ r.cred # None /\ token # None
        BY <2>2, <3>1 DEF Commit, IInv, CredentialMeansConnection
      <3> QED
        BY <1>1, <3>2, UseFields
    <2> QED
      BY <2>1, <2>2
  <1>5. CredentialMeansConnection'
    BY <1>3, <1>4 DEF IInv, CredentialMeansConnection
  <1>6. \A i \in Ids : Present(i) => Present(i)'
    BY <1>3 DEF Present
  <1>7. req' \in [Workers -> Request] /\ LocksHold' /\ OneHolder'
    BY <1>5, <1>6, CommitStep DEF Commit, Become
  <1> QED
    BY <1>3, <1>4, <1>5, <1>7 DEF Commit, IInv, TypeOK, provider, memory, counters

LEMMA FailStep ==
    ASSUME IInv, NEW w \in Workers, Fail(w)
    PROVE  IInv'
  <1>1. Idle \in Request /\ Idle \notin UseReq /\ ~Locking(Idle)
    BY DEF Request, Idle, UseReq, Locking
  <1> QED
    BY <1>1, Quiet DEF Fail, Become, IInv, TypeOK, provider, memory

(* Nothing that happens to the provider or to the process's memory alone.  *)
LEMMA OutsideStep ==
    ASSUME IInv, Withdraw \/ Expire
    PROVE  IInv'
  <1>1. UNCHANGED <<database, newest, req, counters>>
    BY DEF Withdraw, Expire, provider
  <1>2. /\ consent' \subseteq Grants
        /\ access' \in [Ids -> Grants \cup {None}]
        /\ headers' \subseteq Ids
    BY DEF Withdraw, Expire, IInv, TypeOK, provider, memory
  <1>3. row' = row /\ token' = token /\ req' = req
    BY <1>1 DEF database
  <1>4. LocksHold'
    BY <1>3 DEF IInv, LocksHold, Sound, Present
  <1>5. OneHolder'
    BY <1>3 DEF IInv, OneHolder, Holds
  <1> QED
    BY <1>1, <1>2, <1>3, <1>4, <1>5
       DEF IInv, TypeOK, CredentialMeansConnection, counters

LEMMA RestartStep ==
    ASSUME IInv, Restart
    PROVE  IInv'
  <1>1. row' = row /\ token' = token
    BY DEF Restart, database
  <1>2. Idle \in Request /\ Idle \notin UseReq
    BY DEF Request, Idle, UseReq
  <1>3. \A w \in Workers : req'[w] = Idle \/ req'[w] = req[w]
    BY DEF Restart
  <1>4. req' \in [Workers -> Request]
    BY <1>2 DEF Restart, IInv, TypeOK
  <1>5. LocksHold'
    BY <1>1, <1>2, <1>3 DEF IInv, LocksHold, Sound, Present
  <1>6. \A w \in Workers : Holds(w)' => Holds(w)
    BY <1>3 DEF Holds, Idle
  <1>7. OneHolder'
    BY <1>6 DEF IInv, OneHolder
  <1> QED
    BY <1>1, <1>4, <1>5, <1>7
       DEF Restart, IInv, TypeOK, CredentialMeansConnection, provider, counters

LEMMA StepKeepsIInv ==
    ASSUME IInv, [Next]_vars
    PROVE  IInv'
  <1>1. CASE UNCHANGED vars
    <2>1. /\ row' = row /\ token' = token /\ req' = req /\ consent' = consent
          /\ newest' = newest /\ access' = access /\ headers' = headers
          /\ nextId' = nextId /\ nextGrant' = nextGrant
      BY <1>1 DEF vars, database, provider, memory, counters
    <2>2. TypeOK'
      BY <2>1 DEF IInv, TypeOK
    <2>3. LocksHold'
      BY <2>1 DEF IInv, LocksHold, Sound, Present
    <2>4. OneHolder'
      BY <2>1 DEF IInv, OneHolder, Holds
    <2> QED
      BY <2>1, <2>2, <2>3, <2>4 DEF IInv, CredentialMeansConnection
  <1>2. ASSUME NEW w \in Workers, NEW place \in Places, Connect(w, place) \/ Disconnect(w, place)
        PROVE  IInv'
    BY <1>2, ConnectStep, DisconnectStep
  <1>3. ASSUME NEW w \in Workers, ConnectCommit(w) \/ DisconnectCommit(w) \/ Fail(w)
        PROVE  IInv'
    BY <1>3, ConnectCommitStep, DisconnectCommitStep, FailStep
  <1>4. ASSUME NEW w \in Workers, Use(w)
        PROVE  IInv'
    <2>1. ASSUME RefreshRejected(w)
          PROVE  IInv'
      BY <2>1, ReportStep DEF RefreshRejected, Status
    <2>2. ASSUME NEW place \in Places, NEW want \in Wants, Begin(w, place, want)
          PROVE  IInv'
      BY <2>2, BeginStep
    <2> QED
      BY <1>4, <2>1, <2>2, OpenStep, RefreshStep, FlushStep, CallStep, UseCommitStep DEF Use
  <1>5. CASE Withdraw \/ Expire \/ Restart
    BY <1>5, OutsideStep, RestartStep
  <1> QED
    BY <1>1, <1>2, <1>3, <1>4, <1>5 DEF Next

LEMMA InitIInv == Init => IInv
  <1> SUFFICES ASSUME Init PROVE IInv
    OBVIOUS
  <1>1. TypeOK
    BY BoundsAssumption DEF Init, TypeOK, Request
  <1>2. Idle \notin UseReq
    BY DEF Idle, UseReq
  <1>3. LocksHold
    BY <1>2 DEF Init, LocksHold
  <1>4. OneHolder
    BY DEF Init, OneHolder, Holds, Idle
  <1> QED
    BY <1>1, <1>3, <1>4 DEF Init, IInv, CredentialMeansConnection

(* The tables, the process's memory and every request keep their shape: in *)
(* particular a commit never updates a row that is gone.                   *)
THEOREM TypeCorrect == Spec => []TypeOK
  <1>1. IInv => TypeOK
    BY DEF IInv
  <1> QED
    BY <1>1, InitIInv, StepKeepsIInv, PTL DEF Spec

(* Whatever refreshes, connects and disconnects overlap or fail, there is  *)
(* a stored credential exactly while there is a connection.                *)
THEOREM DisconnectLeavesNoCredential == Spec => []CredentialMeansConnection
  <1>1. IInv => CredentialMeansConnection
    BY DEF IInv
  <1> QED
    BY <1>1, InitIInv, StepKeepsIInv, PTL DEF Spec

-----------------------------------------------------------------------------
(* What a request has read still holds. *)

(* A request begins only when no other is in progress. *)
OneRequest == \A v, w \in Workers : req[v] # Idle /\ req[w] # Idle => v = w

(* The provider honours the consents given since it last withdrew them.    *)
ConsentsInOrder ==
    /\ \A g \in consent : g < nextGrant
    /\ \A g \in consent, h \in Grants : g <= h /\ h < nextGrant => h \in consent

(* No credential is newer than what was given out, and what the web        *)
(* process remembers of a mailbox connected there is never older than the  *)
(* credential in the table.                                                *)
Issued(c) == c.grant < nextGrant /\ c.n <= newest[c.grant]

GrantsInOrder ==
    /\ token # None => Issued(token)
    /\ \A i \in Ids : access[i] # None => access[i] < nextGrant
    /\ row # NoRow /\ row.by = "web" /\ access[row.id] # None =>
           token.grant <= access[row.id]

(* What a request finds or has read still holds.                           *)
Using == {"open", "refresh", "refreshed", "call", "done"}

(* The credential that is in the table when the request has committed.     *)
Leaves(r) == IF r.cred \in {None, r.old} THEN token ELSE r.cred

UseIsCurrent(r) ==
    /\ Present(r.id)
    /\ ~r.wrote => r.status = row.status
    /\ r.old # None => r.old = token
    /\ r.op = "refreshed" => r.cred # None
    /\ r.cred # None => /\ r.old # None
                        /\ r.cred.grant = r.old.grant
                        /\ r.old.n <= r.cred.n
                        /\ r.cred.n <= newest[r.cred.grant]
                        /\ SingleUse => r.cred.n = newest[r.cred.grant]
    /\ r.op = "call" => /\ r.with \in Grants /\ r.with < nextGrant
                        /\ row.by = "web" => token.grant <= r.with
    /\ r.op \in {"call", "done"} /\ r.status = "needs_reauth" /\ row.by = "web" =>
           ~Accepted(Leaves(r))

ConnectIsCurrent(r) ==
    /\ Issued(r.cred)
    /\ token # None => token.grant < r.cred.grant
    /\ r.place = "web" => access[r.id] \in {None, r.cred.grant}

DropIsCurrent(r) == r.place = "web" => r.id \notin headers

RequestIsCurrent(r) ==
    /\ r.op \in Using => UseIsCurrent(r)
    /\ r.op = "connect" => ConnectIsCurrent(r)
    /\ r.op = "drop" => DropIsCurrent(r)

RequestsAreCurrent == \A w \in Workers : RequestIsCurrent(req[w])

Current ==
    /\ OneRequest
    /\ ConsentsInOrder
    /\ GrantsInOrder
    /\ RequestsAreCurrent
    /\ StatusIsTrue

Inv == IInv /\ Current

-----------------------------------------------------------------------------
(* Steps of a single request. *)

(* A request that takes a step is the only one. *)
LEMMA OnlyOne ==
    ASSUME TypeOK, OneRequest, NEW w \in Workers, req[w] # Idle \/ UserRowFree,
           NEW r, req' = [req EXCEPT ![w] = r]
    PROVE  /\ OneRequest' /\ req'[w] = r
           /\ \A v \in Workers \ {w} : req'[v] = Idle
  <1>1. req \in [Workers -> Request]
    BY DEF TypeOK
  <1>2. \A v \in Workers \ {w} : req[v] = Idle
    BY DEF OneRequest, UserRowFree
  <1> QED
    BY <1>1, <1>2 DEF OneRequest

(* So what is to show is about that one. *)
LEMMA OneIsCurrent ==
    ASSUME Inv, NEW w \in Workers, req[w] # Idle \/ UserRowFree,
           NEW r, req' = [req EXCEPT ![w] = r], RequestIsCurrent(req[w])'
    PROVE  OneRequest' /\ RequestsAreCurrent'
  <1>1. OneRequest' /\ \A v \in Workers \ {w} : req'[v] = Idle
    BY OnlyOne DEF Inv, IInv, Current
  <1>2. ASSUME NEW v \in Workers \ {w}
        PROVE  RequestIsCurrent(req[v])'
    <2>1. req'[v].op = "idle"
      BY <1>1 DEF Idle
    <2> QED
      BY <2>1 DEF RequestIsCurrent, Using
  <1> QED
    BY <1>1, <1>2 DEF RequestsAreCurrent

(* What a credential was refused for does not come back. *)
LEMMA RefusedStaysRefused ==
    ASSUME IInv, NEW c \in Credential, Issued(c), ~Accepted(c),
           consent' \subseteq consent \cup {nextGrant},
           newest' \in [Grants -> 0 .. MaxRotations],
           \A g \in Grants : newest[g] <= newest'[g]
    PROVE  ~Accepted(c)'
  <1>1. c.grant \in Grants /\ c.n \in 0 .. MaxRotations /\ nextGrant \in Int
    BY BoundsAssumption DEF Credential, IInv, TypeOK
  <1>2. newest[c.grant] \in Int /\ newest'[c.grant] \in Int /\ newest[c.grant] <= newest'[c.grant]
    BY <1>1, BoundsAssumption DEF IInv, TypeOK
  <1>3. CASE c.grant \notin consent
    <2>1. c.grant # nextGrant
      BY <1>1 DEF Issued, Grants
    <2> QED
      BY <1>3, <2>1 DEF Accepted
  <1>4. CASE SingleUse /\ c.n # newest[c.grant]
    <2>1. c.n < newest'[c.grant]
      BY <1>1, <1>2, <1>4, BoundsAssumption DEF Issued
    <2> QED
      BY <1>1, <1>2, <1>4, <2>1 DEF Accepted
  <1> QED
    BY <1>3, <1>4 DEF Accepted

LEMMA UseIsSound ==
    ASSUME Inv, NEW w \in Workers, req[w].op \in Using
    PROVE  /\ req[w] # Idle /\ req[w] \in UseReq /\ Sound(req[w]) /\ UseIsCurrent(req[w])
           /\ row \in Row /\ token \in Credential /\ row.id = req[w].id
           /\ Issued(token)
  <1>1. req[w] \in UseReq /\ Sound(req[w]) /\ req[w] # Idle
    BY SoundUse DEF Inv, Using, Idle
  <1>2. UseIsCurrent(req[w])
    BY DEF Inv, Current, RequestsAreCurrent, RequestIsCurrent
  <1>3. row \in Row /\ row.id = req[w].id
    BY <1>2 DEF UseIsCurrent, Present, Inv, IInv, TypeOK
  <1>4. token \in Credential
    BY <1>3, BoundsAssumption DEF Inv, IInv, TypeOK, CredentialMeansConnection
  <1>5. Issued(token)
    BY <1>4, BoundsAssumption DEF Inv, Current, GrantsInOrder
  <1> QED
    BY <1>1, <1>2, <1>3, <1>4, <1>5

(* A step that leaves tables, provider and access tokens alone.            *)
LEMMA CalmStep ==
    ASSUME Inv, NEW w \in Workers, req[w] # Idle \/ UserRowFree,
           NEW r, req' = [req EXCEPT ![w] = r],
           UNCHANGED <<database, consent, newest, access, counters>>,
           RequestIsCurrent(req[w])'
    PROVE  Current'
  <1>1. /\ row' = row /\ token' = token /\ consent' = consent /\ newest' = newest
        /\ access' = access /\ nextGrant' = nextGrant
    BY DEF database, counters
  <1>2. ConsentsInOrder'
    BY <1>1 DEF Inv, Current, ConsentsInOrder
  <1>3. GrantsInOrder'
    BY <1>1 DEF Inv, Current, GrantsInOrder, Issued
  <1>4. StatusIsTrue'
    BY <1>1 DEF Inv, Current, StatusIsTrue, Accepted
  <1> QED
    BY <1>2, <1>3, <1>4, OneIsCurrent DEF Current

(* A request ends, whatever it was.                                        *)
LEMMA IdleIsCurrent ==
    ASSUME Inv, NEW w \in Workers, req' = [req EXCEPT ![w] = Idle]
    PROVE  RequestIsCurrent(req[w])'
  <1>1. req'[w].op = "idle"
    BY DEF Inv, IInv, TypeOK, Idle
  <1> QED
    BY <1>1 DEF RequestIsCurrent, Using

LEMMA ConnectIsInOrder ==
    ASSUME Inv, NEW w \in Workers, NEW place \in Places, Connect(w, place)
    PROVE  Current'
  <1> DEFINE id == IF row = NoRow THEN nextId ELSE row.id
             c == [grant |-> nextGrant, n |-> 0]
             r == [op |-> "connect", place |-> place, id |-> id, cred |-> c]
  <1>1. /\ nextGrant \in Grants /\ id \in Ids /\ UserRowFree
        /\ consent' = consent \cup {nextGrant} /\ nextGrant' = nextGrant + 1
        /\ newest' = newest /\ row' = row /\ token' = token
        /\ access' = Remembered(place, id, nextGrant)
        /\ req' = [req EXCEPT ![w] = r]
    BY DEF Connect, Become
  <1>2. nextGrant \in Nat /\ \A g \in Grants : g \in Nat
    BY <1>1 DEF Grants
  <1>3. access' = access \/ (place = "web" /\ access' = [access EXCEPT ![id] = nextGrant])
    BY <1>1 DEF Remembered
  <1>4. access \in [Ids -> Grants \cup {None}] /\ newest \in [Grants -> 0 .. MaxRotations]
        /\ consent \subseteq Grants /\ token \in Credential \cup {None}
        /\ row \in Row \cup {NoRow} /\ req \in [Workers -> Request]
    BY DEF Inv, IInv, TypeOK
  <1>5. ConsentsInOrder'
    BY <1>1, <1>2, <1>4 DEF Inv, Current, ConsentsInOrder
  <1>6. ASSUME NEW d \in Credential, Issued(d)
        PROVE  d.grant # nextGrant /\ Issued(d)'
    <2>1. d.grant \in Grants /\ d.grant \in Nat /\ d.grant < nextGrant
      BY <1>2, <1>6 DEF Issued, Credential
    <2> QED
      BY <1>1, <1>2, <1>6, <2>1 DEF Issued
  <1>7. GrantsInOrder'
    <2>1. (token # None => Issued(token))'
      <3>1. token # None => token \in Credential /\ Issued(token)
        BY <1>4 DEF Inv, Current, GrantsInOrder
      <3> QED
        BY <1>1, <1>6, <3>1 DEF Issued
    <2>2. ASSUME NEW i \in Ids, access'[i] # None
          PROVE  access'[i] < nextGrant'
      <3>1. access[i] # None => access[i] \in Grants /\ access[i] < nextGrant
        BY <1>4 DEF Inv, Current, GrantsInOrder
      <3>2. access'[i] \in {access[i], nextGrant}
        BY <1>3, <1>4
      <3> QED
        BY <1>1, <1>2, <2>2, <3>1, <3>2
    <2>3. ASSUME row # NoRow, row.by = "web", access'[row.id] # None
          PROVE  token.grant <= access'[row.id]
      <3>1. token \in Credential /\ Issued(token) /\ row.id \in Ids
        BY <1>4, <2>3 DEF Inv, IInv, CredentialMeansConnection, Current, GrantsInOrder, Row
      <3>2. token.grant \in Grants
        BY <3>1 DEF Credential
      <3>4. token.grant \in Nat /\ token.grant < nextGrant
        BY <1>2, <3>1, <3>2 DEF Issued
      <3>3. access[row.id] # None => token.grant <= access[row.id]
        BY <2>3 DEF Inv, Current, GrantsInOrder
      <3> QED
        <4>1. access'[row.id] \in {access[row.id], nextGrant}
          BY <1>3, <1>4, <3>1
        <4> QED
          BY <1>2, <2>3, <3>3, <3>4, <4>1
    <2> QED
      BY <1>1, <2>1, <2>2, <2>3 DEF GrantsInOrder
  <1>8. StatusIsTrue'
    <2> SUFFICES ASSUME row # NoRow, row.by = "web", row.status = "needs_reauth"
                 PROVE  ~Accepted(token)'
      BY <1>1 DEF StatusIsTrue
    <2>1. token \in Credential /\ Issued(token) /\ ~Accepted(token)
      BY <1>4 DEF Inv, IInv, CredentialMeansConnection, Current, GrantsInOrder, StatusIsTrue
    <2>2. token.grant # nextGrant
      BY <1>6, <2>1
    <2> QED
      BY <1>1, <2>1, <2>2 DEF Accepted
  <1>9. RequestIsCurrent(req[w])'
    <2>1. req'[w] = r
      BY <1>1, <1>4
    <2>2. c.grant = nextGrant /\ c.n = 0 /\ newest'[nextGrant] \in 0 .. MaxRotations
      BY <1>1, <1>4
    <2>3. place = "web" => access'[id] = nextGrant
      BY <1>1, <1>4 DEF Remembered
    <2> QED
      <3>1. /\ r.cred.grant < nextGrant' /\ r.cred.n <= newest'[r.cred.grant]
            /\ place = "web" => access'[r.id] = r.cred.grant
        BY <1>1, <1>2, <2>2, <2>3, BoundsAssumption
      <3>2. r.op = "connect" /\ r.place = place
        OBVIOUS
      <3>3. token' # None => token'.grant < r.cred.grant
        <4>1. token' = token
          BY DEF Connect
        <4>2. token # None => token.grant < nextGrant
          BY DEF Inv, Current, GrantsInOrder, Issued
        <4> QED
          BY <2>2, <4>1, <4>2
      <3> HIDE DEF r
      <3> QED
        BY <2>1, <3>1, <3>2, <3>3 DEF RequestIsCurrent, Using, ConnectIsCurrent, Issued
  <1> QED
    BY <1>1, <1>5, <1>7, <1>8, <1>9, OneIsCurrent DEF Current

LEMMA ConnectCommitIsInOrder ==
    ASSUME Inv, NEW w \in Workers, ConnectCommit(w)
    PROVE  Current'
  <1> DEFINE r == req[w]
  <1>1. r \in ConnectReq /\ r # Idle /\ ConnectIsCurrent(r)
    BY ShapeOfRequest DEF ConnectCommit, Inv, IInv, Idle, Current, RequestsAreCurrent,
                          RequestIsCurrent
  <1>2. /\ row' = [id |-> r.id, status |-> "connected", by |-> r.place] /\ token' = r.cred
        /\ consent' = consent /\ newest' = newest /\ access' = access
        /\ nextGrant' = nextGrant /\ req' = [req EXCEPT ![w] = Idle]
    BY DEF ConnectCommit, StatusOnConnect, Become, provider, memory, counters
  <1>3. ConsentsInOrder'
    BY <1>2 DEF Inv, Current, ConsentsInOrder
  <1>4. GrantsInOrder'
    <2>1. r.cred.grant \in Grants /\ \A g \in Grants : g <= g
      BY <1>1 DEF ConnectReq, Credential, Grants
    <2> QED
      BY <1>1, <1>2, <2>1 DEF Inv, Current, GrantsInOrder, ConnectIsCurrent, Issued
  <1>5. StatusIsTrue'
    BY <1>2 DEF StatusIsTrue
  <1>6. RequestIsCurrent(req[w])'
    BY <1>2, IdleIsCurrent
  <1> QED
    BY <1>1, <1>2, <1>3, <1>4, <1>5, <1>6, OneIsCurrent DEF Current

LEMMA DisconnectIsInOrder ==
    ASSUME Inv, NEW w \in Workers, NEW place \in Places, Disconnect(w, place)
    PROVE  Current'
  <1> DEFINE r == [op |-> "drop", place |-> place, id |-> row.id]
  <1>1. /\ UserRowFree /\ row # NoRow /\ row' = row /\ token' = token
        /\ consent' = consent /\ newest' = newest /\ nextGrant' = nextGrant
        /\ req' = [req EXCEPT ![w] = r]
        /\ place = "web" => headers' = headers \ {row.id}
    BY DEF Disconnect, Become, database, provider, counters
  <1>2. access \in [Ids -> Grants \cup {None}] /\ req \in [Workers -> Request]
    BY DEF Inv, IInv, TypeOK
  <1>3. \A i \in Ids : access'[i] \in {access[i], None}
    BY <1>2 DEF Disconnect, memory
  <1>4. ConsentsInOrder' /\ StatusIsTrue'
    BY <1>1 DEF Inv, Current, ConsentsInOrder, StatusIsTrue, Accepted
  <1>5. GrantsInOrder'
    <2>1. row.id \in Ids
      BY <1>1 DEF Inv, IInv, TypeOK, Row
    <2> QED
      BY <1>1, <1>3, <2>1 DEF Inv, Current, GrantsInOrder, Issued
  <1>6. RequestIsCurrent(req[w])'
    <2>1. req'[w] = r
      BY <1>1, <1>2
    <2> QED
      BY <1>1, <2>1 DEF RequestIsCurrent, Using, DropIsCurrent
  <1> QED
    BY <1>1, <1>4, <1>5, <1>6, OneIsCurrent DEF Current

LEMMA DisconnectCommitIsInOrder ==
    ASSUME Inv, NEW w \in Workers, DisconnectCommit(w)
    PROVE  Current'
  <1>1. /\ row' = NoRow /\ token' = None /\ consent' = consent /\ newest' = newest
        /\ access' = access /\ nextGrant' = nextGrant /\ req' = [req EXCEPT ![w] = Idle]
    BY DEF DisconnectCommit, Become, provider, memory, counters
  <1>2. ConsentsInOrder' /\ GrantsInOrder' /\ StatusIsTrue'
    BY <1>1 DEF Inv, Current, ConsentsInOrder, GrantsInOrder, StatusIsTrue
  <1>3. RequestIsCurrent(req[w])'
    BY <1>1, IdleIsCurrent
  <1>4. req[w] # Idle
    BY DEF DisconnectCommit, Idle
  <1> QED
    BY <1>1, <1>2, <1>3, <1>4, OneIsCurrent DEF Current

-----------------------------------------------------------------------------
(* Using a mailbox, step by step. *)

LEMMA BeginIsInOrder ==
    ASSUME Inv, NEW w \in Workers, NEW place \in Places, NEW want \in Wants,
           Begin(w, place, want)
    PROVE  Current'
  <1> DEFINE r == [op |-> "open", place |-> place, want |-> want, id |-> row.id,
                   status |-> row.status, wrote |-> FALSE, held |-> FALSE,
                   old |-> None, cred |-> None, with |-> None]
  <1>1. /\ UserRowFree /\ row # NoRow /\ req' = [req EXCEPT ![w] = r]
        /\ row' = row
        /\ UNCHANGED <<database, consent, newest, access, counters>>
    BY DEF Begin, Become, database, provider, memory
  <1>2. req'[w] = r
    BY <1>1 DEF Inv, IInv, TypeOK
  <1>3. RequestIsCurrent(req[w])'
    BY <1>1, <1>2 DEF RequestIsCurrent, UseIsCurrent, Present
  <1> QED
    BY <1>1, <1>3, CalmStep

LEMMA OpenIsInOrder ==
    ASSUME Inv, NEW w \in Workers, UseRemembered(w) \/ OpenSecret(w)
    PROVE  Current'
  <1> DEFINE r == req[w]
  <1>1. /\ r.op = "open" /\ r \in UseReq /\ Sound(r) /\ UseIsCurrent(r) /\ r # Idle
        /\ token \in Credential
    BY UseIsSound DEF UseRemembered, OpenSecret, Using
  <1>2. /\ row' = row /\ token' = token /\ newest' = newest /\ consent' = consent
        /\ access' = access /\ nextGrant' = nextGrant
        /\ UNCHANGED <<database, consent, newest, access, counters>>
    BY DEF UseRemembered, OpenSecret, database, provider, memory, counters
  <1>3. r.cred = None /\ Leaves(r) = token /\ r.id \in Ids /\ row.id = r.id /\ row # NoRow
    BY <1>1, UseFields DEF Sound, Leaves, UseIsCurrent, Present
  <1>4. CASE UseRemembered(w)
    <2> DEFINE s == [r EXCEPT !.op = "call", !.with = access[r.id]]
    <2>1. req' = [req EXCEPT ![w] = s] /\ access[r.id] # None /\ r.place = "web"
      BY <1>4 DEF UseRemembered, Become
    <2>2. access[r.id] \in Grants /\ access[r.id] < nextGrant
      BY <1>3, <2>1 DEF Inv, IInv, TypeOK, Current, GrantsInOrder
    <2>3. row.by = "web" => token.grant <= access[r.id]
      BY <1>3, <2>1 DEF Inv, Current, GrantsInOrder
    <2>4. req'[w] = s
      BY <2>1 DEF Inv, IInv, TypeOK
    <2>5. /\ req'[w].op = "call" /\ req'[w].with = access[r.id] /\ req'[w].id = r.id
          /\ req'[w].wrote = r.wrote /\ req'[w].status = r.status
          /\ req'[w].old = r.old /\ req'[w].cred = None
      BY <1>1, <1>3, <2>4 DEF UseReq
    <2>6. req'[w].status = row.status
      BY <1>1, <2>5 DEF Sound, UseIsCurrent
    <2>7. UseIsCurrent(req[w])'
      <3>1. req'[w].status = "needs_reauth" /\ row.by = "web" => ~Accepted(token)
        BY <1>3, <2>6 DEF Inv, Current, StatusIsTrue
      <3>2. Leaves(req[w])' = token
        BY <1>2, <2>5 DEF Leaves
      <3> QED
        BY <1>1, <1>2, <1>3, <2>2, <2>3, <2>5, <2>6, <3>1, <3>2
           DEF UseIsCurrent, Present, Accepted
    <2>8. RequestIsCurrent(req[w])'
      BY <2>5, <2>7 DEF RequestIsCurrent
    <2> QED
      BY <1>1, <1>2, <2>1, <2>8, CalmStep
  <1>5. CASE OpenSecret(w)
    <2> DEFINE s == [r EXCEPT !.op = "refresh", !.old = token]
    <2>1. req' = [req EXCEPT ![w] = s]
      BY <1>5 DEF OpenSecret, Become
    <2>2. req'[w] = s
      BY <2>1 DEF Inv, IInv, TypeOK
    <2>3. /\ req'[w].op = "refresh" /\ req'[w].id = r.id /\ req'[w].wrote = r.wrote
          /\ req'[w].status = r.status /\ req'[w].old = token /\ req'[w].cred = None
      BY <1>1, <1>3, <2>2 DEF UseReq
    <2>4. UseIsCurrent(req[w])'
      BY <1>1, <1>2, <2>3 DEF UseIsCurrent, Present
    <2>5. RequestIsCurrent(req[w])'
      BY <2>3, <2>4 DEF RequestIsCurrent
    <2> QED
      BY <1>1, <1>2, <2>1, <2>5, CalmStep
  <1> QED
    BY <1>4, <1>5

(* An exchange that rotates leaves the stored credential as good or bad    *)
(* as it was, or worse.                                                    *)
LEMMA RefreshIsInOrder ==
    ASSUME Inv, NEW w \in Workers, Refresh(w)
    PROVE  Current'
  <1> DEFINE r == req[w]
             g == r.old.grant
             next == [grant |-> g, n |-> newest[g] + 1]
  <1>1. /\ r.op = "refresh" /\ r \in UseReq /\ Sound(r) /\ UseIsCurrent(r) /\ r # Idle
        /\ token \in Credential /\ Issued(token)
    BY UseIsSound DEF Refresh, Using
  <1>2. /\ row' = row /\ token' = token /\ consent' = consent /\ access' = access
        /\ nextGrant' = nextGrant
    BY DEF Refresh, database, memory, counters
  <1>3. r.old = token /\ g \in Grants /\ Accepted(token)
    BY <1>1 DEF Sound, UseIsCurrent, Credential, Refresh
  <1>4. newest \in [Grants -> 0 .. MaxRotations] /\ newest[g] \in Nat
    BY <1>3, BoundsAssumption DEF Inv, IInv, TypeOK
  <1>5. newest' = newest \/ newest' = [newest EXCEPT ![g] = @ + 1]
    BY DEF Refresh
  <1>6. \A h \in Grants : newest[h] \in Nat /\ newest'[h] \in Nat /\ newest[h] <= newest'[h]
    BY <1>4, <1>5, BoundsAssumption
  <1>7. PICK c \in Credential :
            /\ req' = [req EXCEPT ![w] = [r EXCEPT !.op = "refreshed", !.cred = c]]
            /\ c.grant = g /\ token.n <= c.n /\ c.n <= newest'[g]
            /\ SingleUse => c.n = newest'[g]
    <2>1. CASE /\ Become(w, [r EXCEPT !.op = "refreshed", !.cred = r.old])
               /\ UNCHANGED newest
      <3>1. /\ token.n <= newest[g] /\ (SingleUse => token.n = newest[g])
            /\ token.n <= token.n
        BY <1>1, <1>3, BoundsAssumption DEF Issued, Accepted, Credential
      <3> QED
        BY <1>1, <1>3, <2>1, <3>1 DEF Become
    <2>2. CASE /\ newest[g] < MaxRotations
               /\ newest' = [newest EXCEPT ![g] = @ + 1]
               /\ Become(w, [r EXCEPT !.op = "refreshed", !.cred = next])
      <3>1. newest'[g] = newest[g] + 1
        BY <1>3, <1>4, <2>2
      <3>2. next \in Credential
        BY <1>3, <1>4, <2>2, BoundsAssumption DEF Credential
      <3>3. next.grant = g /\ next.n = newest'[g] /\ newest'[g] \in Nat /\ token.n <= next.n
        <4>1. token.n <= newest[g] /\ token.n \in Int
          BY <1>1, <1>3, BoundsAssumption DEF Issued, Credential
        <4> QED
          BY <1>4, <3>1, <4>1
      <3>4. req' = [req EXCEPT ![w] = [r EXCEPT !.op = "refreshed", !.cred = next]]
        BY <2>2 DEF Become
      <3> HIDE DEF next
      <3> WITNESS next \in Credential
      <3> QED
        BY <3>3, <3>4
    <2> QED
      BY <2>1, <2>2 DEF Refresh
  <1> DEFINE s == [r EXCEPT !.op = "refreshed", !.cred = c]
  <1>8. req'[w] = s
    BY <1>7 DEF Inv, IInv, TypeOK
  <1>9. /\ req'[w].op = "refreshed" /\ req'[w].id = r.id /\ req'[w].wrote = r.wrote
        /\ req'[w].status = r.status /\ req'[w].old = token /\ req'[w].cred = c
    BY <1>1, <1>3, <1>8 DEF UseReq
  <1>10. UseIsCurrent(req[w])'
    <2>1. token # None
      BY <1>1, BoundsAssumption
    <2>2. row' # NoRow /\ row'.id = r.id /\ (~r.wrote => r.status = row'.status)
      BY <1>1, <1>2 DEF UseIsCurrent, Present
    <2>3. c.grant = token.grant /\ token.n <= c.n /\ c.n <= newest'[c.grant]
          /\ (SingleUse => c.n = newest'[c.grant])
      BY <1>3, <1>7
    <2> QED
      BY <1>2, <1>9, <2>1, <2>2, <2>3, BoundsAssumption DEF UseIsCurrent, Present
  <1>11. RequestIsCurrent(req[w])'
    BY <1>9, <1>10 DEF RequestIsCurrent
  <1>12. OneRequest' /\ RequestsAreCurrent'
    BY <1>1, <1>7, <1>11, OneIsCurrent
  <1>13. ConsentsInOrder'
    BY <1>2 DEF Inv, Current, ConsentsInOrder
  <1>14. GrantsInOrder'
    <2>1. Issued(token)'
      <3>1. token.n \in Nat /\ token.grant \in Grants
        BY <1>1, BoundsAssumption DEF Credential
      <3>2. token.n <= newest'[token.grant]
        BY <1>1, <1>6, <3>1 DEF Issued
      <3> QED
        BY <1>1, <1>2, <3>2 DEF Issued
    <2> QED
      BY <1>2, <2>1 DEF Inv, Current, GrantsInOrder
  <1>15. StatusIsTrue'
    <2>1. row # NoRow /\ row.by = "web" => row.status # "needs_reauth"
      BY <1>3 DEF Inv, Current, StatusIsTrue
    <2> QED
      BY <1>2, <2>1 DEF StatusIsTrue
  <1> QED
    BY <1>12, <1>13, <1>14, <1>15 DEF Current

LEMMA StatusIsSet ==
    ASSUME NEW r \in UseReq, NEW s \in Status
    PROVE  LET q == SetStatus(r, s) IN
           /\ q \in UseReq
           /\ q.op = r.op /\ q.place = r.place /\ q.want = r.want /\ q.id = r.id
           /\ q.old = r.old /\ q.cred = r.cred /\ q.with = r.with /\ q.status = s
           /\ ~q.wrote => ~r.wrote /\ r.status = s
  BY DEF UseReq, SetStatus

LEMMA FlushIsInOrder ==
    ASSUME Inv, NEW w \in Workers, Flush(w)
    PROVE  Current'
  <1> DEFINE r == req[w]
             q == SetStatus(r, "connected")
             g == r.old.grant
             s == [q EXCEPT !.op = "call", !.held = TRUE, !.with = g]
  <1>1. /\ r.op = "refreshed" /\ r \in UseReq /\ Sound(r) /\ UseIsCurrent(r) /\ r # Idle
        /\ row \in Row /\ row.id = r.id /\ token \in Credential /\ Issued(token)
    BY UseIsSound DEF Flush, Using
  <1>2. /\ row' = row /\ token' = token /\ consent' = consent /\ newest' = newest
        /\ nextGrant' = nextGrant
    BY DEF Flush, database, provider, counters
  <1>3. r.old = token /\ g = token.grant /\ g \in Grants /\ g < nextGrant /\ g <= g
    BY <1>1 DEF Sound, UseIsCurrent, Credential, Issued, Grants
  <1>4. req' = [req EXCEPT ![w] = s] /\ access' = Remembered(r.place, r.id, g)
    BY DEF Flush, Become
  <1>5. req'[w] = s
    BY <1>4 DEF Inv, IInv, TypeOK
  <1>6. /\ req'[w].op = "call" /\ req'[w].id = r.id /\ req'[w].status = "connected"
        /\ req'[w].old = token /\ req'[w].cred = r.cred /\ req'[w].with = g
        /\ ~req'[w].wrote => ~r.wrote /\ r.status = "connected"
    <2>1. /\ q \in UseReq /\ q.id = r.id /\ q.old = r.old /\ q.cred = r.cred
          /\ q.status = "connected" /\ (~q.wrote => ~r.wrote /\ r.status = "connected")
      BY <1>1, StatusIsSet DEF Status
    <2> HIDE DEF q
    <2> QED
      BY <1>3, <1>5, <2>1 DEF UseReq
  <1>7. UseIsCurrent(req[w])'
    <2>1. row # NoRow
      BY <1>1 DEF UseIsCurrent, Present
    <2>2. r.cred # None => /\ r.cred.grant = token.grant /\ token.n <= r.cred.n
                           /\ r.cred.n <= newest[r.cred.grant]
                           /\ SingleUse => r.cred.n = newest[r.cred.grant]
      BY <1>1, <1>3 DEF UseIsCurrent
    <2>3. token # None /\ (~r.wrote => r.status = row.status)
      BY <1>1, BoundsAssumption DEF UseIsCurrent
    <2> QED
      BY <1>1, <1>2, <1>3, <1>6, <2>1, <2>2, <2>3 DEF UseIsCurrent, Present
  <1>8. RequestIsCurrent(req[w])'
    BY <1>6, <1>7 DEF RequestIsCurrent
  <1>9. OneRequest' /\ RequestsAreCurrent'
    BY <1>1, <1>4, <1>8, OneIsCurrent
  <1>10. ConsentsInOrder' /\ StatusIsTrue'
    BY <1>2 DEF Inv, Current, ConsentsInOrder, StatusIsTrue, Accepted
  <1>11. GrantsInOrder'
    <2>1. access \in [Ids -> Grants \cup {None}] /\ r.id \in Ids
      BY <1>1, UseFields DEF Inv, IInv, TypeOK
    <2>2. \A i \in Ids : access'[i] \in {access[i], g} /\ (access'[i] # access[i] => i = r.id)
      BY <1>4, <2>1 DEF Remembered
    <2>3. Issued(token)'
      BY <1>1, <1>2 DEF Issued
    <2>4. \A i \in Ids : access'[i] # None => access'[i] < nextGrant
      BY <1>3, <2>2 DEF Inv, Current, GrantsInOrder
    <2>5. row.by = "web" /\ access'[row.id] # None => token.grant <= access'[row.id]
      <3>1. access'[row.id] \in {access[row.id], g} /\ row # NoRow
        BY <1>1, <2>1, <2>2, BoundsAssumption
      <3> QED
        BY <1>3, <3>1 DEF Inv, Current, GrantsInOrder
    <2> QED
      BY <1>2, <2>3, <2>4, <2>5 DEF GrantsInOrder
  <1> QED
    BY <1>9, <1>10, <1>11 DEF Current

(* A request is done, with the status s it had or has now been given.      *)
LEMMA DoneIsInOrder ==
    ASSUME Inv, NEW w \in Workers, req[w].op \in {"refresh", "call"},
           NEW s \in UseReq, req' = [req EXCEPT ![w] = s],
           s.op = "done", s.id = req[w].id, s.old = req[w].old, s.cred = req[w].cred,
           ~s.wrote => s.status = row.status,
           s.status = "needs_reauth" /\ row.by = "web" => ~Accepted(Leaves(req[w])),
           UNCHANGED <<database, consent, newest, access, counters>>
    PROVE  Current'
  <1> DEFINE r == req[w]
  <1>1. r # Idle /\ UseIsCurrent(r)
    BY UseIsSound DEF Using
  <1>2. row' = row /\ token' = token /\ newest' = newest /\ consent' = consent
    BY DEF database
  <1>3. req'[w] = s
    BY DEF Inv, IInv, TypeOK
  <1>4. Leaves(req[w])' = Leaves(r)
    BY <1>2, <1>3 DEF Leaves
  <1>5. Accepted(Leaves(req[w]))' <=> Accepted(Leaves(r))
    BY <1>2, <1>4 DEF Accepted
  <1>6. UseIsCurrent(req[w])'
    <2>1. Present(r.id) /\ (r.old # None => r.old = token)
      BY <1>1 DEF UseIsCurrent
    <2>2. r.cred # None => /\ r.old # None /\ r.cred.grant = r.old.grant
                           /\ r.old.n <= r.cred.n
                           /\ r.cred.n <= newest[r.cred.grant]
                           /\ SingleUse => r.cred.n = newest[r.cred.grant]
      BY <1>1 DEF UseIsCurrent
    <2> QED
      BY <1>2, <1>3, <1>5, <2>1, <2>2 DEF UseIsCurrent, Present
  <1>7. RequestIsCurrent(req[w])'
    BY <1>3, <1>6 DEF RequestIsCurrent
  <1> QED
    BY <1>1, <1>7, CalmStep

LEMMA ReportIsInOrder ==
    ASSUME Inv, NEW w \in Workers, req[w].op \in {"refresh", "call"},
           Report(w, "needs_reauth"), UNCHANGED <<database, provider, memory, counters>>,
           row.by = "web" => ~Accepted(Leaves(req[w]))
    PROVE  Current'
  <1>1. /\ req[w] # Idle /\ req[w] \in UseReq /\ UseIsCurrent(req[w])
        /\ UNCHANGED <<database, consent, newest, access, counters>>
    BY UseIsSound DEF Using, provider, memory
  <1>2. CASE Become(w, [SetStatus(req[w], "needs_reauth") EXCEPT !.op = "done", !.held = TRUE])
    <2> DEFINE q == SetStatus(req[w], "needs_reauth")
               s == [q EXCEPT !.op = "done", !.held = TRUE]
    <2>1. /\ q \in UseReq /\ q.id = req[w].id /\ q.old = req[w].old /\ q.cred = req[w].cred
          /\ q.status = "needs_reauth"
          /\ ~q.wrote => ~req[w].wrote /\ req[w].status = "needs_reauth"
      BY <1>1, StatusIsSet DEF Status
    <2>2. req' = [req EXCEPT ![w] = s]
      BY <1>2 DEF Become
    <2> HIDE DEF q
    <2>3. /\ s \in UseReq /\ s.op = "done" /\ s.id = q.id /\ s.old = q.old
          /\ s.cred = q.cred /\ s.status = q.status /\ s.wrote = q.wrote
      BY <2>1 DEF UseReq
    <2>4. ~s.wrote => s.status = row.status
      BY <1>1, <2>1, <2>3 DEF UseIsCurrent
    <2> HIDE DEF s
    <2> QED
      BY <1>1, <2>1, <2>2, <2>3, <2>4, DoneIsInOrder
  <1>3. CASE Become(w, Idle)
    <2>1. req' = [req EXCEPT ![w] = Idle]
      BY <1>3 DEF Become
    <2> QED
      BY <1>1, <2>1, IdleIsCurrent, CalmStep
  <1> QED
    BY <1>2, <1>3 DEF Report, PageOnTheWeb

LEMMA RefreshRejectedIsInOrder ==
    ASSUME Inv, NEW w \in Workers, RefreshRejected(w)
    PROVE  Current'
  <1>1. /\ req[w].op = "refresh" /\ Sound(req[w]) /\ UseIsCurrent(req[w])
    BY UseIsSound DEF RefreshRejected, Using
  <1>2. Leaves(req[w]) = token /\ ~Accepted(token)
    BY <1>1 DEF Sound, UseIsCurrent, Leaves, RefreshRejected
  <1> QED
    BY <1>1, <1>2, ReportIsInOrder DEF RefreshRejected

(* The consent of an access token that is refused, and of every older one  *)
(* was withdrawn; so the credential that the request leaves is refused too. *)
LEMMA RefusedAtUse ==
    ASSUME Inv, NEW w \in Workers, req[w].op = "call", req[w].with \notin consent,
           row.by = "web"
    PROVE  ~Accepted(Leaves(req[w]))
  <1> DEFINE r == req[w]
  <1>1. UseIsCurrent(r) /\ token \in Credential
    BY UseIsSound DEF Using
  <1>2. r.with \in Grants /\ r.with < nextGrant /\ token.grant <= r.with
    BY <1>1 DEF UseIsCurrent
  <1>3. token.grant \notin consent
    BY <1>2 DEF Inv, Current, ConsentsInOrder
  <1>4. Leaves(r).grant = token.grant
    BY <1>1 DEF Leaves, UseIsCurrent
  <1> QED
    BY <1>3, <1>4 DEF Accepted

LEMMA CallIsInOrder ==
    ASSUME Inv, NEW w \in Workers, FromCache(w) \/ Call(w) \/ CallRejected(w)
    PROVE  Current'
  <1> DEFINE r == req[w]
             quiet == UNCHANGED <<database, consent, newest, access, counters>>
  <1>1. /\ r.op = "call" /\ r \in UseReq /\ UseIsCurrent(r) /\ r # Idle
    BY UseIsSound DEF FromCache, Call, CallRejected, Using
  <1>2. quiet
    BY DEF FromCache, Call, CallRejected, provider, memory
  <1>3. ASSUME Become(w, [r EXCEPT !.op = "done"])
        PROVE  Current'
    <2> DEFINE s == [r EXCEPT !.op = "done"]
    <2>1. req' = [req EXCEPT ![w] = s]
      BY <1>3 DEF Become
    <2>2. /\ s \in UseReq /\ s.op = "done" /\ s.id = r.id /\ s.old = r.old
          /\ s.cred = r.cred /\ s.status = r.status /\ s.wrote = r.wrote
      BY <1>1 DEF UseReq
    <2>3. /\ ~s.wrote => s.status = row.status
          /\ s.status = "needs_reauth" /\ row.by = "web" => ~Accepted(Leaves(r))
      BY <1>1, <2>2 DEF UseIsCurrent
    <2> HIDE DEF s
    <2> QED
      BY <1>1, <1>2, <2>1, <2>2, <2>3, DoneIsInOrder
  <1>4. CASE Call(w) /\ r.want = "test"
    <2> DEFINE q == SetStatus(r, "connected")
               s == [q EXCEPT !.op = "done", !.held = TRUE]
    <2>1. /\ q \in UseReq /\ q.id = r.id /\ q.old = r.old /\ q.cred = r.cred
          /\ q.status = "connected" /\ (~q.wrote => ~r.wrote /\ r.status = "connected")
      BY <1>1, StatusIsSet DEF Status
    <2>2. req' = [req EXCEPT ![w] = s]
      BY <1>4 DEF Call, Become
    <2> HIDE DEF q
    <2>3. /\ s \in UseReq /\ s.op = "done" /\ s.id = q.id /\ s.old = q.old
          /\ s.cred = q.cred /\ s.status = q.status /\ s.wrote = q.wrote
      BY <2>1 DEF UseReq
    <2>4. ~s.wrote => s.status = row.status
      BY <1>1, <2>1, <2>3 DEF UseIsCurrent
    <2> HIDE DEF s
    <2> QED
      BY <1>1, <1>2, <2>1, <2>2, <2>3, <2>4, DoneIsInOrder
  <1>5. CASE Call(w) /\ r.want # "test"
    BY <1>3, <1>5 DEF Call
  <1>6. CASE CallRejected(w)
    <2>1. r.with \notin consent
      BY <1>6 DEF CallRejected
    <2>2. row.by = "web" => ~Accepted(Leaves(r))
      BY <1>1, <2>1, RefusedAtUse
    <2>3. CASE PageOnTheWeb(r)
      BY <1>3, <1>6, <2>3 DEF CallRejected
    <2>4. CASE ~PageOnTheWeb(r)
      <3>1. Report(w, "needs_reauth") /\ UNCHANGED <<database, provider, memory, counters>>
        BY <1>6, <2>4 DEF CallRejected
      <3> QED
        BY <1>1, <2>2, <3>1, ReportIsInOrder
    <2> QED
      BY <2>3, <2>4
  <1> QED
    BY <1>3, <1>4, <1>5, <1>6 DEF FromCache

(* A commit puts into the tables what the request has found.               *)
LEMMA CommitWrites ==
    ASSUME Inv, NEW w \in Workers, Commit(w)
    PROVE  /\ req[w] # Idle /\ UseIsCurrent(req[w]) /\ row \in Row /\ row' \in Row
           /\ row'.id = row.id /\ row'.by = row.by /\ row'.status = req[w].status
           /\ token' = Leaves(req[w]) /\ Issued(token') /\ token'.grant = token.grant
           /\ token.n <= token'.n
  <1> DEFINE r == req[w]
  <1>1. /\ r.op = "done" /\ r \in UseReq /\ UseIsCurrent(r) /\ r # Idle /\ row \in Row
        /\ token \in Credential /\ Issued(token)
    BY UseIsSound DEF Commit, Using
  <1>2. row' \in Row /\ row'.id = row.id /\ row'.by = row.by /\ row'.status = r.status
    <2>1. CASE r.wrote
      BY <1>1, <2>1, UseFields DEF Commit, Row
    <2>2. CASE ~r.wrote
      BY <1>1, <2>2 DEF Commit, UseIsCurrent
    <2> QED
      BY <2>1, <2>2
  <1>3. token' = Leaves(r)
    BY DEF Commit, Leaves
  <1>4. r.cred # None => /\ r.old = token /\ r.cred.grant = token.grant
                         /\ token.n <= r.cred.n
                         /\ r.cred.n <= newest[r.cred.grant]
    BY <1>1 DEF UseIsCurrent
  <1>5. Issued(token') /\ token'.grant = token.grant
    BY <1>1, <1>3, <1>4 DEF Leaves, Issued
  <1>6. token.n \in Int
    BY <1>1, BoundsAssumption DEF Credential
  <1>7. token.n <= token'.n
    BY <1>3, <1>4, <1>6 DEF Leaves
  <1> QED
    BY <1>1, <1>2, <1>3, <1>4, <1>5, <1>7

LEMMA CommitIsInOrder ==
    ASSUME Inv, NEW w \in Workers, Commit(w)
    PROVE  Current'
  <1>1. /\ consent' = consent /\ newest' = newest /\ access' = access
        /\ nextGrant' = nextGrant /\ req' = [req EXCEPT ![w] = Idle]
    BY DEF Commit, Become, provider, memory, counters
  <1>2. /\ req[w] # Idle /\ UseIsCurrent(req[w]) /\ row \in Row /\ row'.id = row.id
        /\ row'.by = row.by /\ row'.status = req[w].status /\ req[w].op = "done"
        /\ token' = Leaves(req[w]) /\ Issued(token') /\ token'.grant = token.grant
    BY CommitWrites DEF Commit
  <1>3. ConsentsInOrder'
    BY <1>1 DEF Inv, Current, ConsentsInOrder
  <1>4. GrantsInOrder'
    <2>1. row # NoRow
      BY <1>2, BoundsAssumption
    <2>2. Issued(token)'
      BY <1>1, <1>2 DEF Issued
    <2> QED
      BY <1>1, <1>2, <2>1, <2>2 DEF Inv, Current, GrantsInOrder
  <1>5. StatusIsTrue'
    <2>1. req[w].status = "needs_reauth" /\ row.by = "web" => ~Accepted(Leaves(req[w]))
      BY <1>2 DEF UseIsCurrent
    <2> QED
      BY <1>1, <1>2, <2>1 DEF StatusIsTrue, Accepted
  <1>6. RequestIsCurrent(req[w])'
    BY <1>1, IdleIsCurrent
  <1> QED
    BY <1>1, <1>2, <1>3, <1>4, <1>5, <1>6, OneIsCurrent DEF Current

LEMMA FailIsInOrder ==
    ASSUME Inv, NEW w \in Workers, Fail(w)
    PROVE  Current'
  <1>1. /\ req[w] # Idle /\ req' = [req EXCEPT ![w] = Idle]
        /\ UNCHANGED <<database, consent, newest, access, counters>>
    BY DEF Fail, Become, provider, memory
  <1> QED
    BY <1>1, IdleIsCurrent, CalmStep

(* Withdrawn consents, expired entries, a restart of the web process, or   *)
(* nothing at all.                                                         *)
LEMMA OutsideIsInOrder ==
    ASSUME Inv, UNCHANGED <<row, token, newest, nextGrant>>,
           consent' = consent \/ consent' = {},
           \A i \in Ids : access'[i] \in {access[i], None},
           headers' \subseteq headers,
           \A w \in Workers : req'[w] \in {req[w], Idle}
    PROVE  Current'
  <1>1. OneRequest'
    BY DEF Inv, Current, OneRequest
  <1>2. ConsentsInOrder'
    BY DEF Inv, Current, ConsentsInOrder
  <1>3. GrantsInOrder'
    <2>1. row # NoRow => row.id \in Ids
      BY DEF Inv, IInv, TypeOK, Row
    <2> QED
      BY <2>1 DEF Inv, Current, GrantsInOrder, Issued
  <1>4. StatusIsTrue'
    <2>1. Accepted(token)' => Accepted(token)
      BY DEF Accepted
    <2> QED
      BY <2>1 DEF Inv, Current, StatusIsTrue
  <1>5. ASSUME NEW w \in Workers
        PROVE  RequestIsCurrent(req[w])'
    <2>1. CASE req'[w] = Idle
      BY <2>1 DEF RequestIsCurrent, Using, Idle
    <2>2. CASE req'[w] = req[w]
      <3>1. RequestIsCurrent(req[w])
        BY DEF Inv, Current, RequestsAreCurrent
      <3>2. req[w].op \in Using => UseIsCurrent(req[w])'
        <4>1. Accepted(Leaves(req[w]))' => Accepted(Leaves(req[w]))
          BY <2>2 DEF Accepted, Leaves
        <4> QED
          BY <2>2, <3>1, <4>1 DEF RequestIsCurrent, UseIsCurrent, Present
      <3>3. req[w].op = "connect" => ConnectIsCurrent(req[w])'
        <4>1. req[w].op = "connect" => req[w].id \in Ids
          BY ShapeOfRequest DEF Inv, IInv, ConnectReq
        <4> QED
          BY <2>2, <3>1, <4>1 DEF RequestIsCurrent, ConnectIsCurrent, Issued
      <3>4. req[w].op = "drop" => DropIsCurrent(req[w])'
        BY <2>2, <3>1 DEF RequestIsCurrent, DropIsCurrent
      <3> QED
        BY <2>2, <3>2, <3>3, <3>4 DEF RequestIsCurrent
    <2> QED
      BY <2>1, <2>2
  <1> QED
    BY <1>1, <1>2, <1>3, <1>4, <1>5 DEF Current, RequestsAreCurrent

LEMMA StepKeepsInv ==
    ASSUME Inv, [Next]_vars
    PROVE  Inv'
  <1>1. IInv'
    BY StepKeepsIInv DEF Inv
  <1>2. access \in [Ids -> Grants \cup {None}] /\ req \in [Workers -> Request]
    BY DEF Inv, IInv, TypeOK
  <1>3. ASSUME UNCHANGED vars
        PROVE  Current'
    <2>1. /\ UNCHANGED <<row, token, newest, nextGrant, consent>>
          /\ headers' = headers /\ access' = access /\ req' = req
      BY <1>3 DEF vars, database, provider, memory, counters
    <2>2. /\ \A i \in Ids : access'[i] \in {access[i], None}
          /\ \A w \in Workers : req'[w] \in {req[w], Idle}
      BY <2>1
    <2> QED
      BY <2>1, <2>2, OutsideIsInOrder
  <1>4. ASSUME Withdraw
        PROVE  Current'
    <2>1. /\ UNCHANGED <<row, token, newest, nextGrant>>
          /\ consent' = {}
          /\ headers' = headers /\ access' = access /\ req' = req
      BY <1>4 DEF Withdraw, database, memory, counters
    <2>2. /\ \A i \in Ids : access'[i] \in {access[i], None}
          /\ \A w \in Workers : req'[w] \in {req[w], Idle}
      BY <2>1
    <2> QED
      BY <2>1, <2>2, OutsideIsInOrder
  <1>5. ASSUME Expire
        PROVE  Current'
    <2>1. /\ UNCHANGED <<row, token, newest, nextGrant, consent>>
          /\ headers' \subseteq headers /\ req' = req
      BY <1>5 DEF Expire, database, provider, counters
    <2>2. \A i \in Ids : access'[i] \in {access[i], None}
      BY <1>2, <1>5 DEF Expire
    <2>3. \A w \in Workers : req'[w] \in {req[w], Idle}
      BY <2>1
    <2> QED
      BY <2>1, <2>2, <2>3, OutsideIsInOrder
  <1>6. ASSUME Restart
        PROVE  Current'
    <2>1. /\ UNCHANGED <<row, token, newest, nextGrant, consent>>
          /\ headers' \subseteq headers
      BY <1>6 DEF Restart, database, provider, counters
    <2>2. /\ \A i \in Ids : access'[i] \in {access[i], None}
          /\ \A w \in Workers : req'[w] \in {req[w], Idle}
      BY <1>6 DEF Restart
    <2> QED
      BY <2>1, <2>2, OutsideIsInOrder
  <1>7. ASSUME NEW w \in Workers, NEW place \in Places,
               Connect(w, place) \/ Disconnect(w, place)
        PROVE  Current'
    BY <1>7, ConnectIsInOrder, DisconnectIsInOrder
  <1>8. ASSUME NEW w \in Workers, Use(w)
        PROVE  Current'
    <2>1. ASSUME NEW place \in Places, NEW want \in Wants, Begin(w, place, want)
          PROVE  Current'
      BY <2>1, BeginIsInOrder
    <2> QED
      BY <1>8, <2>1, OpenIsInOrder, RefreshIsInOrder, FlushIsInOrder,
         RefreshRejectedIsInOrder, CallIsInOrder, CommitIsInOrder DEF Use
  <1>9. ASSUME NEW w \in Workers, ConnectCommit(w) \/ DisconnectCommit(w) \/ Fail(w)
        PROVE  Current'
    BY <1>9, ConnectCommitIsInOrder, DisconnectCommitIsInOrder, FailIsInOrder
  <1>10. ASSUME NEW w \in Workers,
                \/ \E place \in Places : Connect(w, place) \/ Disconnect(w, place)
                \/ ConnectCommit(w) \/ DisconnectCommit(w)
                \/ Use(w)
                \/ Fail(w)
         PROVE  Current'
    <2>1. CASE \E place \in Places : Connect(w, place) \/ Disconnect(w, place)
      BY <2>1, <1>7
    <2>2. CASE Use(w)
      BY <2>2, <1>8
    <2>3. CASE ConnectCommit(w) \/ DisconnectCommit(w) \/ Fail(w)
      BY <2>3, <1>9
    <2> QED
      BY <1>10, <2>1, <2>2, <2>3
  <1>11. ASSUME Next
         PROVE  Current'
    <2>1. CASE Withdraw \/ Expire \/ Restart
      BY <2>1, <1>4, <1>5, <1>6
    <2>2. CASE ~(Withdraw \/ Expire \/ Restart)
      <3>1. PICK w \in Workers :
              \/ \E place \in Places : Connect(w, place) \/ Disconnect(w, place)
              \/ ConnectCommit(w) \/ DisconnectCommit(w)
              \/ Use(w)
              \/ Fail(w)
        BY <1>11, <2>2 DEF Next
      <3> QED
        BY <3>1, <1>10
    <2> QED
      BY <2>1, <2>2
  <1> QED
    BY <1>1, <1>3, <1>11 DEF Inv

LEMMA InitInv == Init => Inv
  <1> SUFFICES ASSUME Init PROVE Inv
    OBVIOUS
  <1>1. OneRequest /\ RequestsAreCurrent
    BY DEF Init, OneRequest, RequestsAreCurrent, RequestIsCurrent, Using, Idle
  <1>2. ConsentsInOrder /\ GrantsInOrder /\ StatusIsTrue
    BY DEF Init, ConsentsInOrder, GrantsInOrder, StatusIsTrue
  <1> QED
    BY <1>1, <1>2, InitIInv DEF Inv, Current

-----------------------------------------------------------------------------
(* A mailbox connected in the web process and marked for reconnecting      *)
(* needs it, whatever requests, commands and restarts came before          *)
(* (_access_token_for, verify_account).                                    *)
THEOREM MarkedMeansRefused == Spec => []StatusIsTrue
  <1>1. Inv => StatusIsTrue
    BY DEF Inv, Current
  <1> QED
    BY <1>1, InitInv, StepKeepsInv, PTL DEF Spec

(* The web process never holds on to an access token that is older than    *)
(* the credential connected there: while the provider accepts this one, it *)
(* accepts the other (_access_tokens of browse.py).                        *)
THEOREM ReconnectingHelps == Spec => []ReconnectHelps
  <1>1. Inv => ReconnectHelps
    <2> SUFFICES ASSUME Inv, row # NoRow, row.by = "web", Accepted(token),
                        access[row.id] # None
                 PROVE  access[row.id] \in consent
      BY DEF ReconnectHelps
    <2>1. row.id \in Ids /\ access[row.id] \in Grants
      BY DEF Inv, IInv, TypeOK, Row
    <2>2. token.grant <= access[row.id] /\ access[row.id] < nextGrant
      BY <2>1 DEF Inv, Current, GrantsInOrder
    <2> QED
      BY <2>1, <2>2 DEF Inv, Current, ConsentsInOrder, Accepted
  <1> QED
    BY <1>1, InitInv, StepKeepsInv, PTL DEF Spec

(* Whether the provider refuses a refresh token that was exchanged or goes *)
(* on accepting it, no request that had the credential refreshed commits   *)
(* over a reconnect or over a later token (_access_token_for).             *)
THEOREM CredentialsOnlyAdvance == Spec => TokensOnlyAdvance
  <1> DEFINE Advances ==
        token # None /\ token' # None =>
            \/ \E w \in Workers : ConnectCommit(w)
            \/ token.grant = token'.grant /\ token.n <= token'.n
  <1>1. ASSUME Inv, [Next]_vars, token # None, token' # None,
               ~ \E w \in Workers : ConnectCommit(w)
        PROVE  token.grant = token'.grant /\ token.n <= token'.n
    <2>1. token \in Credential /\ token.n \in Int
      BY <1>1, BoundsAssumption DEF Inv, IInv, TypeOK, Credential
    <2>2. CASE token' = token
      BY <2>1, <2>2
    <2>3. ASSUME NEW w \in Workers, Commit(w)
          PROVE  token.grant = token'.grant /\ token.n <= token'.n
      BY <1>1, <2>3, CommitWrites
    <2>4. ASSUME NEW w \in Workers, DisconnectCommit(w)
          PROVE  FALSE
      BY <1>1, <2>4 DEF DisconnectCommit
    <2> QED
      BY <1>1, <2>2, <2>3, <2>4
         DEF Next, Use, vars, database, Connect, Disconnect, Begin, UseRemembered, OpenSecret,
             Refresh, Flush, RefreshRejected, FromCache, Call, CallRejected, Fail, Withdraw,
             Expire, Restart
  <1>2. Inv /\ [Next]_vars => Advances
    BY <1>1
  <1> QED
    BY <1>2, InitInv, StepKeepsInv, PTL DEF Spec, TokensOnlyAdvance

(* A disconnect in the web process leaves no headers behind, and no        *)
(* request brings them back (disconnect_account, browse).                  *)
THEOREM HeadersAreForgotten == Spec => HeadersForgotten
  <1>1. ASSUME Inv, NEW w \in Workers, DisconnectCommit(w), req[w].place = "web"
        PROVE  req[w].id \notin headers'
    BY <1>1 DEF DisconnectCommit, memory, Inv, Current, RequestsAreCurrent, RequestIsCurrent,
                DropIsCurrent
  <1>2. ASSUME Inv, Next, NEW i \in headers' \ headers
        PROVE  Present(i)
    <2>1. PICK w \in Workers : Call(w)
      BY <1>2 DEF Next, Use, Connect, Disconnect, ConnectCommit, DisconnectCommit, Begin,
                  UseRemembered, OpenSecret, Refresh, Flush, RefreshRejected, FromCache,
                  CallRejected, Commit, Fail, Withdraw, Expire, Restart, memory
    <2>2. i = req[w].id /\ req[w].op \in Using
      BY <1>2, <2>1 DEF Call, Using
    <2> QED
      BY <1>2, <2>2, UseIsSound DEF UseIsCurrent
  <1>3. Inv /\ [Next]_vars =>
          [/\ \A w \in Workers :
                DisconnectCommit(w) /\ req[w].place = "web" => req[w].id \notin headers'
           /\ \A i \in headers' \ headers : Present(i)]_vars
    BY <1>1, <1>2
  <1> QED
    BY <1>3, InitInv, StepKeepsInv, PTL DEF Spec, HeadersForgotten
=============================================================================
