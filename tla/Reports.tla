------------------------------ MODULE Reports ------------------------------
(***************************************************************************)
(* The life of one person's report for one month (reports.py), served by   *)
(* several workers.                                                        *)
(*                                                                         *)
(* A request is one database transaction: it reads, decides, and commits   *)
(* or rolls back (web/app.py db_session, db.py session_scope).  The        *)
(* database runs at READ COMMITTED, reports.py takes no row lock and no    *)
(* row carries a version, so what a request decided on could be stale when *)
(* it commits.  One statement keeps the requests of a person apart:        *)
(* authorize() sets last_seen_at, which the next query flushes, and the    *)
(* person's row of users stays locked until the transaction ends           *)
(* (UserRowFree).  What a request has read is kept in txn[w]; its writes   *)
(* reach the shared variables in the step that commits them.  Artifact     *)
(* files are put in a blob store that no transaction covers.               *)
(*                                                                         *)
(* Item positions, audit rows and the texts shown to the user are left     *)
(* out: no property here is about them.  The order in which a submission   *)
(* takes the items is therefore any order.                                 *)
(***************************************************************************)
EXTENDS Integers

CONSTANTS
    Workers,      \* requests that can be in progress at the same time
    Messages,     \* messages the owner can browse
    Mailboxes,    \* mail addresses the owner can connect
    Silent,       \* mailboxes read over IMAP, where a call may never return
    Home,         \* the mailbox each message is in
    Pid,          \* the provider's identifier of each message
    Texts,        \* justifications that say something
    Blank,        \* no justification, or one of spaces only
    NoText,       \* "report add" without --justification
    NoRow,        \* a report item that does not exist
    MaxItems,     \* bound: rows ever inserted in report_items
    MaxAccounts,  \* bound: rows ever inserted in mail_accounts
    MaxTries,     \* bound: submissions that get past the readiness checks
    MaxParts,     \* bound: receipt attachments of one message
    Faults,       \* what may go wrong, a subset of FaultKinds
    Stuck         \* files that the store will fail to delete

FaultKinds ==
    {"open",       \* the mailbox of an item cannot be opened
     "fetch",      \* listing, fetching or rendering fails with CCReportError
     "normalise",  \* an attachment is too large or cannot be converted
     "crash"}      \* the process dies, or an exception nobody catches

ItemIds == 1 .. MaxItems
AccountIds == 1 .. MaxAccounts
Null == 0

(* A row of report_items.  source is the mail_accounts row it came from.   *)
Row == [msg: Messages, source: AccountIds \cup {Null}, text: Texts \cup {Blank}]

ASSUME BoundsAssumption ==
    /\ MaxItems \in Nat
    /\ MaxAccounts \in Nat
    /\ MaxTries \in Nat
    /\ MaxParts \in Nat

ASSUME DataAssumption ==
    /\ Home \in [Messages -> Mailboxes]
    /\ Silent \subseteq Mailboxes
    /\ DOMAIN Pid = Messages
    /\ Blank \notin Texts
    /\ NoText \notin Texts \cup {Blank}
    /\ NoRow \notin Row
    /\ Faults \subseteq FaultKinds

(* An artifact's blob path: artifact_path() of a fresh artifact id.  The   *)
(* submission that stored it, the item and the part make it as fresh; part *)
(* 0 is the rendered message, the others are attachments.                  *)
Paths == [try: 1 .. MaxTries, item: ItemIds, part: 0 .. MaxParts]

VARIABLES
    report,       \* status of the report row, "absent" when there is none
    items,        \* the rows of report_items
    artifacts,    \* the rows of artifacts, as their blob paths
    account,      \* the mail_accounts row of each mailbox, or Null
    blobs,        \* the files in the artifact store
    txn,          \* what each worker's request is doing and has read
    nextItem, nextAccount, nextTry  \* identifiers not used yet

vars == <<report, items, artifacts, account, blobs, txn,
          nextItem, nextAccount, nextTry>>

-----------------------------------------------------------------------------
Status == {"absent", "draft", "submitted"}

Idle == [op |-> "idle"]

AddTxn == [op: {"add"}, seen: Status, msg: Messages,
           text: Texts \cup {Blank, NoText}, acct: AccountIds]
JustifyTxn == [op: {"justify"}, seen: Status, item: ItemIds, text: Texts]
RemoveTxn == [op: {"remove"}, seen: Status, item: ItemIds]
LoadTxn == [op: {"load"}, seen: Status]

(* A submission past its checks.  view is report.items as it was loaded,   *)
(* cur the item being materialised (0 between items), left the attachments *)
(* still to do; made are the files of cur, written those of earlier items. *)
SubmitTxn == [op: {"submit"}, try: 1 .. MaxTries,
              view: [ItemIds -> Row \cup {NoRow}], todo: SUBSET ItemIds,
              cur: 0 .. MaxItems, left: 0 .. MaxParts,
              made: SUBSET Paths, written: SUBSET Paths]

Txn == {Idle} \cup AddTxn \cup JustifyTxn \cup RemoveTxn \cup LoadTxn \cup SubmitTxn

TypeOK ==
    /\ report \in Status
    /\ items \in [ItemIds -> Row \cup {NoRow}]
    /\ artifacts \subseteq Paths
    /\ account \in [Mailboxes -> AccountIds \cup {Null}]
    /\ blobs \subseteq Paths
    /\ txn \in [Workers -> Txn]
    /\ nextItem \in 1 .. MaxItems + 1
    /\ nextAccount \in 1 .. MaxAccounts + 1
    /\ nextTry \in 1 .. MaxTries + 1

Init ==
    /\ report = "absent"
    /\ items = [i \in ItemIds |-> NoRow]
    /\ artifacts = {}
    /\ account = [b \in Mailboxes |-> Null]
    /\ blobs = {}
    /\ txn = [w \in Workers |-> Idle]
    /\ nextItem = 1
    /\ nextAccount = 1
    /\ nextTry = 1

Listed(table) == {i \in ItemIds : table[i] # NoRow}

(* Mutant: authorize() is called with touch=False. *)
UserRowUnlocked == TRUE

(* A request gets past authorize() only when no other request of the same  *)
(* person holds the row that it is about to update.                        *)
UserRowFree == \A v \in Workers : txn[v] = Idle

Begin(w, t) == txn[w] = Idle /\ UserRowFree /\ txn' = [txn EXCEPT ![w] = t]
End(w) == txn' = [txn EXCEPT ![w] = Idle]

-----------------------------------------------------------------------------
(* Mailboxes.  Connecting an address that has no row inserts a new row;    *)
(* disconnecting deletes the row, and the database clears every reference  *)
(* to it (ON DELETE SET NULL).                                             *)

Connect(b) ==
    /\ UserRowFree
    /\ account[b] = Null
    /\ nextAccount \in AccountIds
    /\ account' = [account EXCEPT ![b] = nextAccount]
    /\ nextAccount' = nextAccount + 1
    /\ UNCHANGED <<report, items, artifacts, blobs, txn, nextItem, nextTry>>

Unlinked(table, a) ==
    [i \in ItemIds |-> IF table[i] # NoRow /\ table[i].source = a
                         THEN [table[i] EXCEPT !.source = Null]
                         ELSE table[i]]

Disconnect(b) ==
    /\ UserRowFree
    /\ account[b] # Null
    /\ account' = [account EXCEPT ![b] = Null]
    /\ items' = Unlinked(items, account[b])
    /\ UNCHANGED <<report, artifacts, blobs, txn, nextItem, nextAccount, nextTry>>

-----------------------------------------------------------------------------
(* Editing a draft.  Every request first reads the report row; the status  *)
(* it saw then is the one _require_draft tests.                            *)

CreateReport ==
    /\ UserRowFree
    /\ report = "absent"
    /\ report' = "draft"
    /\ UNCHANGED <<items, artifacts, account, blobs, txn,
                   nextItem, nextAccount, nextTry>>

(* The account is looked up and the report found (or inserted, which is    *)
(* seen = "absent"); then the message's header is fetched from the         *)
(* provider, which takes as long as the provider takes.                    *)
AddBegin(w, m, text) ==
    /\ account[Home[m]] # Null
    /\ Begin(w, [op |-> "add", seen |-> report, msg |-> m, text |-> text,
                 acct |-> account[Home[m]]])
    /\ UNCHANGED <<report, items, artifacts, account, blobs,
                   nextItem, nextAccount, nextTry>>

(* The insert this request did at AddBegin survives only while no other    *)
(* request has inserted the same month (uq_reports_user_period).           *)
ReportAfter(seen) == IF seen = "absent" THEN "draft" ELSE report
StillUnique(seen) == seen = "absent" => report = "absent"

SameMessage(m) == {i \in Listed(items) : Pid[items[i].msg] = Pid[m]}

(* Mutant: a missing --justification erases the one the item has. *)
RetextAlways(table, i, text) == [table EXCEPT ![i].text = text]

Retext(table, i, text) ==
    IF text = NoText THEN table ELSE [table EXCEPT ![i].text = text]

AddExisting(w) ==
    LET t == txn[w] IN
    /\ t.op = "add"
    /\ t.seen # "submitted"
    /\ StillUnique(t.seen)
    /\ \E i \in SameMessage(t.msg) : items' = Retext(items, i, t.text)
    /\ report' = ReportAfter(t.seen)
    /\ End(w)
    /\ UNCHANGED <<artifacts, account, blobs, nextItem, nextAccount, nextTry>>

AddNew(w) ==
    LET t == txn[w] IN
    /\ t.op = "add"
    /\ t.seen # "submitted"
    /\ StillUnique(t.seen)
    /\ SameMessage(t.msg) = {}
    /\ account[Home[t.msg]] = t.acct
    /\ nextItem \in ItemIds
    /\ items' = [items EXCEPT ![nextItem] =
                   [msg |-> t.msg, source |-> t.acct,
                    text |-> IF t.text = NoText THEN Blank ELSE t.text]]
    /\ nextItem' = nextItem + 1
    /\ report' = ReportAfter(t.seen)
    /\ End(w)
    /\ UNCHANGED <<artifacts, account, blobs, nextAccount, nextTry>>

(* The provider no longer has the message: the web route redirects, which  *)
(* commits the report row this request may have inserted.                  *)
AddMissing(w) ==
    /\ txn[w].op = "add"
    /\ StillUnique(txn[w].seen)
    /\ report' = ReportAfter(txn[w].seen)
    /\ End(w)
    /\ UNCHANGED <<items, artifacts, account, blobs,
                   nextItem, nextAccount, nextTry>>

JustifyBegin(w, i, text) ==
    /\ items[i] # NoRow
    /\ Begin(w, [op |-> "justify", seen |-> report, item |-> i, text |-> text])
    /\ UNCHANGED <<report, items, artifacts, account, blobs,
                   nextItem, nextAccount, nextTry>>

JustifyFinish(w) ==
    LET t == txn[w] IN
    /\ t.op = "justify"
    /\ t.seen = "draft"
    /\ items[t.item] # NoRow
    /\ items' = [items EXCEPT ![t.item].text = t.text]
    /\ End(w)
    /\ UNCHANGED <<report, artifacts, account, blobs,
                   nextItem, nextAccount, nextTry>>

RemoveBegin(w, i) ==
    /\ items[i] # NoRow
    /\ Begin(w, [op |-> "remove", seen |-> report, item |-> i])
    /\ UNCHANGED <<report, items, artifacts, account, blobs,
                   nextItem, nextAccount, nextTry>>

(* An artifact row that is inserted but not committed holds a key-share    *)
(* lock on its item, so the delete waits for that submission to end.       *)
Locked(i) ==
    \E w \in Workers : /\ txn[w].op = "submit"
                       /\ \E p \in txn[w].made \cup txn[w].written : p.item = i

RemoveFinish(w) ==
    LET t == txn[w] IN
    /\ t.op = "remove"
    /\ t.seen = "draft"
    /\ items[t.item] # NoRow
    /\ ~Locked(t.item)
    /\ items' = [items EXCEPT ![t.item] = NoRow]
    /\ artifacts' = {p \in artifacts : p.item # t.item}
    /\ End(w)
    /\ UNCHANGED <<report, account, blobs, nextItem, nextAccount, nextTry>>

(* ReportStateError, ItemNotFound, a constraint violated by what another   *)
(* request committed first, a lost connection: the transaction is rolled   *)
(* back and leaves nothing.                                                *)
Abort(w) ==
    /\ txn[w].op \in {"add", "justify", "remove", "load"}
    /\ End(w)
    /\ UNCHANGED <<report, items, artifacts, account, blobs,
                   nextItem, nextAccount, nextTry>>

-----------------------------------------------------------------------------
(* Submission.                                                             *)

SubmitBegin(w) ==
    /\ report # "absent"
    /\ Begin(w, [op |-> "load", seen |-> report])
    /\ UNCHANGED <<report, items, artifacts, account, blobs,
                   nextItem, nextAccount, nextTry>>

(* Mutant: justifications are not required. *)
ReadyUnjustified(table) == Listed(table) # {}

Ready(table) ==
    /\ Listed(table) # {}
    /\ \A i \in Listed(table) : table[i].text \in Texts

SubmitLoad(w) ==
    /\ txn[w].op = "load"
    /\ txn[w].seen = "draft"
    /\ Ready(items)
    /\ nextTry <= MaxTries
    /\ nextTry' = nextTry + 1
    /\ txn' = [txn EXCEPT ![w] =
                 [op |-> "submit", try |-> nextTry, view |-> items,
                  todo |-> Listed(items), cur |-> 0, left |-> 0,
                  made |-> {}, written |-> {}]]
    /\ UNCHANGED <<report, items, artifacts, account, blobs, nextItem, nextAccount>>

Submitting(w) == txn[w].op = "submit"
BetweenItems(w) == Submitting(w) /\ txn[w].cur = 0
InItem(w) == Submitting(w) /\ txn[w].cur # 0

(* The row the item came from is read when its mailbox is first needed;    *)
(* later items of the same mailbox reuse the open connector.               *)
Reachable(t, i) ==
    /\ t.view[i].source # Null
    /\ \/ t.view[i].source = account[Home[t.view[i].msg]]
       \/ \E j \in Listed(t.view) \ t.todo : t.view[j].source = t.view[i].source

(* Mutant: the loop does not move past the item it takes. *)
OpenItemAgain(w, i) ==
    /\ BetweenItems(w)
    /\ i \in txn[w].todo
    /\ Reachable(txn[w], i)
    /\ \E n \in 0 .. MaxParts :
         txn' = [txn EXCEPT ![w].cur = i, ![w].left = n]
    /\ UNCHANGED <<report, items, artifacts, account, blobs,
                   nextItem, nextAccount, nextTry>>

OpenItem(w, i) ==
    /\ BetweenItems(w)
    /\ i \in txn[w].todo
    /\ Reachable(txn[w], i)
    /\ \E n \in 0 .. MaxParts :
         txn' = [txn EXCEPT ![w].cur = i, ![w].left = n,
                            ![w].todo = @ \ {i}]
    /\ UNCHANGED <<report, items, artifacts, account, blobs,
                   nextItem, nextAccount, nextTry>>

(* ValueError from normalize_attachment: the attachment is passed over.    *)
SkipAttachment(w) ==
    /\ InItem(w)
    /\ txn[w].left > 0
    /\ "normalise" \in Faults
    /\ txn' = [txn EXCEPT ![w].left = @ - 1]
    /\ UNCHANGED <<report, items, artifacts, account, blobs,
                   nextItem, nextAccount, nextTry>>

(* Mutant: the file is left for a task that runs after the request.        *)
StoreRowOnly(w, part) ==
    LET p == [try |-> txn[w].try, item |-> txn[w].cur, part |-> part] IN
    /\ items[txn[w].cur] # NoRow
    /\ txn' = [txn EXCEPT ![w].made = @ \cup {p},
                          ![w].left = IF part = 0 THEN @ ELSE @ - 1]
    /\ UNCHANGED <<report, items, artifacts, account, blobs,
                   nextItem, nextAccount, nextTry>>

(* Insert the artifact row (whose item must exist) and put its file.       *)
Store(w, part) ==
    LET p == [try |-> txn[w].try, item |-> txn[w].cur, part |-> part] IN
    /\ items[txn[w].cur] # NoRow
    /\ blobs' = blobs \cup {p}
    /\ txn' = [txn EXCEPT ![w].made = @ \cup {p},
                          ![w].left = IF part = 0 THEN @ ELSE @ - 1]
    /\ UNCHANGED <<report, items, artifacts, account,
                   nextItem, nextAccount, nextTry>>

StoreAttachment(w) ==
    /\ InItem(w)
    /\ txn[w].left > 0
    /\ Store(w, txn[w].left)

StoreRendered(w) ==
    /\ InItem(w)
    /\ txn[w].left = 0
    /\ txn[w].made = {}
    /\ Store(w, 0)

(* Mutant: the item's files are not added to those a failure cleans up. *)
FinishItemForgets(w) ==
    /\ InItem(w)
    /\ txn[w].left = 0
    /\ txn[w].made # {}
    /\ txn' = [txn EXCEPT ![w].made = {}, ![w].cur = 0]
    /\ UNCHANGED <<report, items, artifacts, account, blobs,
                   nextItem, nextAccount, nextTry>>

(* Only here do the item's files enter the list that a failure cleans up.  *)
FinishItem(w) ==
    /\ InItem(w)
    /\ txn[w].left = 0
    /\ txn[w].made # {}
    /\ txn' = [txn EXCEPT ![w].written = @ \cup txn[w].made,
                          ![w].made = {}, ![w].cur = 0]
    /\ UNCHANGED <<report, items, artifacts, account, blobs,
                   nextItem, nextAccount, nextTry>>

SubmitCommit(w) ==
    /\ BetweenItems(w)
    /\ txn[w].todo = {}
    /\ report' = "submitted"
    /\ artifacts' = artifacts \cup txn[w].written
    /\ End(w)
    /\ UNCHANGED <<items, account, blobs, nextItem, nextAccount, nextTry>>

(* The except clause: delete what earlier items wrote, as far as the store *)
(* lets it (a file is deleted here or never, so Stuck can say beforehand   *)
(* which deletions fail), and let the transaction roll back.               *)
CleanUp(w) ==
    /\ blobs' = blobs \ (txn[w].written \ Stuck)
    /\ End(w)
    /\ UNCHANGED <<report, items, artifacts, account,
                   nextItem, nextAccount, nextTry>>

FailOpening(w) ==
    /\ BetweenItems(w)
    /\ \E i \in txn[w].todo : "open" \in Faults \/ ~Reachable(txn[w], i)
    /\ CleanUp(w)

FailInItem(w) ==
    /\ InItem(w)
    /\ txn[w].left > 0 \/ txn[w].made = {}
    /\ "fetch" \in Faults
    /\ CleanUp(w)

(* An exception the except clause does not name - a killed process, a      *)
(* failed commit, or the insert of an artifact whose item is gone.         *)
Lose(w) ==
    /\ Submitting(w)
    /\ \/ "crash" \in Faults
       \/ txn[w].cur # 0 /\ items[txn[w].cur] = NoRow
    /\ End(w)
    /\ UNCHANGED <<report, items, artifacts, account, blobs,
                   nextItem, nextAccount, nextTry>>

-----------------------------------------------------------------------------
Start(w) ==
    \/ \E m \in Messages, text \in Texts \cup {Blank, NoText} : AddBegin(w, m, text)
    \/ \E i \in ItemIds, text \in Texts : JustifyBegin(w, i, text)
    \/ \E i \in ItemIds : RemoveBegin(w, i)
    \/ SubmitBegin(w)

Step(w) ==
    \/ AddExisting(w) \/ AddNew(w) \/ AddMissing(w)
    \/ JustifyFinish(w)
    \/ RemoveFinish(w)
    \/ Abort(w)
    \/ SubmitLoad(w)
    \/ \E i \in ItemIds : OpenItem(w, i)
    \/ SkipAttachment(w) \/ StoreAttachment(w) \/ StoreRendered(w)
    \/ FinishItem(w)
    \/ SubmitCommit(w)
    \/ FailOpening(w) \/ FailInItem(w) \/ Lose(w)

Next ==
    \/ CreateReport
    \/ \E b \in Mailboxes : Connect(b) \/ Disconnect(b)
    \/ \E w \in Workers : Start(w) \/ Step(w)

Spec == Init /\ [][Next]_vars

(* The request is at a call of a mailbox in Silent: ImapConnector opens     *)
(* its connection without a timeout, so the answer may never come.         *)
Waits(w) ==
    LET t == txn[w] IN
    \/ t.op = "add" /\ Home[t.msg] \in Silent
    \/ BetweenItems(w) /\ \E i \in t.todo : Home[t.view[i].msg] \in Silent
    \/ /\ InItem(w)
       /\ Home[t.view[t.cur].msg] \in Silent
       /\ t.left > 0 \/ t.made = {}

(* A request that has started is run to its end by its thread: no step     *)
(* waits for the user, and a call over HTTP ends within 30 seconds.        *)
FairSpec == Spec /\ \A w \in Workers : WF_vars(Step(w) /\ ~Waits(w))

-----------------------------------------------------------------------------
(* What holds in every reachable state and makes the properties below      *)
(* inductive.                                                              *)

(* The file of every artifact row, committed or not, has been put. *)
StagedHaveBlobs ==
    \A w \in Workers : Submitting(w) => txn[w].made \cup txn[w].written \subseteq blobs

(* No two submissions, committed or running, share an artifact path. *)
PathsApart ==
    /\ \A p \in artifacts : p.try < nextTry
    /\ \A w \in Workers : Submitting(w) =>
         /\ txn[w].try < nextTry
         /\ \A p \in txn[w].made \cup txn[w].written : p.try = txn[w].try
         /\ \A p \in artifacts : p.try # txn[w].try
         /\ \A v \in Workers \ {w} : Submitting(v) => txn[v].try # txn[w].try

(* A running submission read justified items only; those it is done with   *)
(* have files; and an item with such a file is still there.                *)
ReadIsCovered ==
    \A w \in Workers : Submitting(w) =>
        LET t == txn[w] IN
        /\ \A i \in Listed(t.view) : t.view[i].text \in Texts
        /\ \A i \in Listed(t.view) \ (t.todo \cup {t.cur}) : \E p \in t.written : p.item = i
        /\ \A p \in t.made : p.item = t.cur
        /\ \A p \in t.made \cup t.written : items[p.item] # NoRow

(* What a request has read is still so: there is no other request, and the *)
(* report a submission is working on is the draft it loaded.               *)
RequestIsCurrent ==
    /\ \A v, w \in Workers : txn[v] # Idle /\ txn[w] # Idle => v = w
    /\ \A w \in Workers :
         /\ txn[w].op \in {"add", "justify", "remove", "load"} => txn[w].seen = report
         /\ Submitting(w) => /\ report = "draft"
                             /\ txn[w].view = items
                             /\ Ready(items)

-----------------------------------------------------------------------------
(* Properties. *)

(* A submitted report has at least one item; each carries a justification  *)
(* and at least one file (the two rules at the top of reports.py).  No     *)
(* request that began before the submission can add to it or edit it       *)
(* afterwards, because the person's row is locked.                         *)
SubmittedIsComplete ==
    report = "submitted" =>
        /\ Ready(items)
        /\ \A i \in Listed(items) : \E p \in artifacts : p.item = i

(* Every file an artifact row names is in the store, whatever crashes and  *)
(* failures came before: export_bundle, which stops at the first file it   *)
(* cannot get, can always build the bundle.                                *)
ArtifactsHaveBlobs == artifacts \subseteq blobs

(* A draft has no artifact rows: the files of an attempt that failed or is *)
(* still running never become part of the report.                          *)
NothingHalfSubmitted == artifacts # {} => report = "submitted"

(* When a submission commits, each item it read when it started still      *)
(* exists, was justified then, and has files from this very submission,    *)
(* although minutes may pass while the providers are being called.         *)
KeepsWhatItRead ==
    [][\A w \in Workers : SubmitCommit(w) =>
         \A i \in Listed(txn[w].view) :
            /\ txn[w].view[i].text \in Texts
            /\ items'[i] # NoRow
            /\ \E p \in artifacts' : p.item = i /\ p.try = txn[w].try]_vars

(* A submission that fails leaves none of its files in the store, but      *)
(* those the store fails to delete ("blobs already written are removed so  *)
(* a retry does not accumulate orphans", submit_report).                   *)
FailureCleansUp ==
    [][\A w \in Workers : FailOpening(w) \/ FailInItem(w) =>
         {p \in blobs' : p.try = txn[w].try} \subseteq Stuck]_vars

(* A failing submission takes away no file of another one, committed or    *)
(* running, and of its own files the store keeps, beside those it fails to *)
(* delete, none of an item that was done: FailureCleansUp but for the item *)
(* in progress, whose files are not in the list yet.                       *)
EarlierItemsAreCleanedUp ==
    [][\A w \in Workers : FailOpening(w) \/ FailInItem(w) =>
         /\ \A p \in blobs \ blobs' : p.try = txn[w].try
         /\ \A p \in blobs' : p.try = txn[w].try =>
                                  p.item = txn[w].cur \/ p \in Stuck]_vars

(* Once submitted, the report's messages, their justifications and their   *)
(* files stay as they are, also when the mailbox they came from is         *)
(* disconnected ("the submitted report must survive that", models.py).     *)
(* _require_draft tests a status that was read earlier; that it cannot be  *)
(* stale is the doing of authorize(), not of reports.py.                   *)
Frozen ==
    [][report = "submitted" =>
         /\ report' = "submitted"
         /\ artifacts' = artifacts
         /\ \A i \in ItemIds :
              /\ (items'[i] = NoRow) <=> (items[i] = NoRow)
              /\ items[i] # NoRow => /\ items'[i].msg = items[i].msg
                                     /\ items'[i].text = items[i].text]_vars

(* What the code implements: ReportPromise, step by step.                  *)
Contents == {[msg |-> items[i].msg, text |-> items[i].text] : i \in Listed(items)}
Abstract == INSTANCE ReportPromise WITH
                status <- report,
                selection <- Contents,
                evidence <- {items[p.item].msg : p \in artifacts}
KeepsPromise == Abstract!Promise

(* Every submission that reads no mailbox over IMAP ends, and so frees the *)
(* items it keeps locked, however many attachments are skipped and         *)
(* whichever calls fail: no call over HTTP holds a worker for ever         *)
(* (httpclient.py).                                                        *)
SubmissionsOverHttpEnd ==
    \A w \in Workers :
        /\ Submitting(w)
        /\ \A i \in Listed(txn[w].view) : Home[txn[w].view[i].msg] \notin Silent
        ~> ~Submitting(w)
=============================================================================
