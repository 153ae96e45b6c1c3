--------------------------- MODULE ReportsProofs ---------------------------
(***************************************************************************)
(* Theorems about Reports, for every number of requests, messages,         *)
(* mailboxes and attachments and every choice of faults, and that Reports  *)
(* implements ReportPromise.                                               *)
(*                                                                         *)
(* The argument for the promise: because a request gets past authorize()   *)
(* only while no other request of the person is in progress, what it has   *)
(* read is still so when it commits (RequestIsCurrent).  Hence an edit     *)
(* that saw a draft commits into a draft, and a submission freezes the     *)
(* items that it read.                                                     *)
(***************************************************************************)
EXTENDS Reports, TLAPS

(* A transaction is recognised by its op. *)
LEMMA ShapeOfTxn ==
    ASSUME TypeOK, NEW w \in Workers
    PROVE  /\ txn[w].op = "submit" => txn[w] \in SubmitTxn
           /\ txn[w].op = "add" => txn[w] \in AddTxn
           /\ txn[w].op = "justify" => txn[w] \in JustifyTxn
           /\ txn[w].op = "remove" => txn[w] \in RemoveTxn
           /\ txn[w].op = "load" => txn[w] \in LoadTxn
  <1>1. txn[w] \in Txn
    BY DEF TypeOK
  <1> QED
    BY <1>1 DEF Txn, Idle, AddTxn, JustifyTxn, RemoveTxn, LoadTxn, SubmitTxn

(* The bounds are natural numbers, so the identifiers are too. *)
LEMMA NullIsNoAccount == Null \in Nat /\ Null \notin AccountIds
  BY BoundsAssumption DEF Null, AccountIds

(* Rows and their updates. *)
LEMMA UnlinkedType ==
    ASSUME NEW table \in [ItemIds -> Row \cup {NoRow}], NEW a
    PROVE  Unlinked(table, a) \in [ItemIds -> Row \cup {NoRow}]
  <1> SUFFICES ASSUME NEW i \in ItemIds, table[i] # NoRow
               PROVE  [table[i] EXCEPT !.source = Null] \in Row
    BY DEF Unlinked
  <1> QED
    BY DEF Row

LEMMA RetextType ==
    ASSUME NEW table \in [ItemIds -> Row \cup {NoRow}], NEW i \in Listed(table),
           NEW text \in Texts \cup {Blank, NoText}
    PROVE  Retext(table, i, text) \in [ItemIds -> Row \cup {NoRow}]
  <1>1. table[i] \in Row /\ i \in ItemIds
    BY DEF Listed
  <1>2. text # NoText => [table[i] EXCEPT !.text = text] \in Row
    BY <1>1 DEF Row
  <1> QED
    BY <1>1, <1>2 DEF Retext

-----------------------------------------------------------------------------
(* Every variable keeps its type.  The steps of editing requests. *)
LEMMA EditType ==
    ASSUME TypeOK, NEW w \in Workers,
           \/ AddExisting(w) \/ AddNew(w) \/ AddMissing(w)
           \/ JustifyFinish(w) \/ RemoveFinish(w) \/ Abort(w)
    PROVE  TypeOK'
  <1> USE DEF Status
  <1>t. txn' = [txn EXCEPT ![w] = Idle] => txn' \in [Workers -> Txn]
    BY DEF TypeOK, Txn
  <1>r. \A seen : ReportAfter(seen) \in Status
    BY DEF TypeOK, ReportAfter
  <1>1. CASE AddExisting(w)
    <2>1. txn[w] \in AddTxn
      BY <1>1, ShapeOfTxn DEF AddExisting
    <2>2. items' \in [ItemIds -> Row \cup {NoRow}]
      <3>1. PICK i \in SameMessage(txn[w].msg) : items' = Retext(items, i, txn[w].text)
        BY <1>1 DEF AddExisting
      <3>2. i \in Listed(items)
        BY <3>1 DEF SameMessage
      <3>3. txn[w].text \in Texts \cup {Blank, NoText}
        BY <2>1 DEF AddTxn
      <3> QED
        BY <3>1, <3>2, <3>3, RetextType DEF TypeOK
    <2> QED
      BY <1>1, <1>t, <1>r, <2>2 DEF AddExisting, TypeOK, End
  <1>2. CASE AddNew(w)
    <2>1. txn[w] \in AddTxn
      BY <1>2, ShapeOfTxn DEF AddNew
    <2>2. [msg |-> txn[w].msg, source |-> txn[w].acct,
           text |-> IF txn[w].text = NoText THEN Blank ELSE txn[w].text] \in Row
      BY <2>1 DEF AddTxn, Row
    <2>3. nextItem' \in 1 .. MaxItems + 1
      BY <1>2, BoundsAssumption DEF AddNew, TypeOK, ItemIds
    <2> QED
      BY <1>2, <1>t, <1>r, <2>2, <2>3 DEF AddNew, TypeOK, End
  <1>3. CASE AddMissing(w)
    BY <1>3, <1>t, <1>r DEF AddMissing, TypeOK, End
  <1>4. CASE JustifyFinish(w)
    <2>1. txn[w] \in JustifyTxn
      BY <1>4, ShapeOfTxn DEF JustifyFinish
    <2>2. txn[w].item \in ItemIds /\ txn[w].text \in Texts
      BY <2>1 DEF JustifyTxn
    <2>3. items[txn[w].item] \in Row
      BY <1>4, <2>2 DEF JustifyFinish, TypeOK
    <2>4. [items[txn[w].item] EXCEPT !.text = txn[w].text] \in Row
      BY <2>2, <2>3 DEF Row
    <2> QED
      BY <1>4, <1>t, <2>2, <2>4 DEF JustifyFinish, TypeOK, End
  <1>5. CASE RemoveFinish(w)
    BY <1>5, <1>t DEF RemoveFinish, TypeOK, End
  <1>6. CASE Abort(w)
    BY <1>6, <1>t DEF Abort, TypeOK, End
  <1> QED
    BY <1>1, <1>2, <1>3, <1>4, <1>5, <1>6

(* The beginnings of requests. *)
LEMMA StartType ==
    ASSUME TypeOK, NEW w \in Workers, Start(w)
    PROVE  TypeOK'
  <1>1. ASSUME NEW m \in Messages, NEW text \in Texts \cup {Blank, NoText},
               AddBegin(w, m, text)
        PROVE  TypeOK'
    <2>1. Home[m] \in Mailboxes
      BY DataAssumption
    <2>2. [op |-> "add", seen |-> report, msg |-> m, text |-> text,
           acct |-> account[Home[m]]] \in AddTxn
      BY <1>1, <2>1 DEF AddBegin, AddTxn, TypeOK
    <2> QED
      BY <1>1, <2>2 DEF AddBegin, Begin, TypeOK, Txn
  <1>2. ASSUME NEW i \in ItemIds, NEW text \in Texts, JustifyBegin(w, i, text)
        PROVE  TypeOK'
    <2>1. [op |-> "justify", seen |-> report, item |-> i, text |-> text] \in JustifyTxn
      BY DEF JustifyTxn, TypeOK
    <2> QED
      BY <1>2, <2>1 DEF JustifyBegin, Begin, TypeOK, Txn
  <1>3. ASSUME NEW i \in ItemIds, RemoveBegin(w, i)
        PROVE  TypeOK'
    <2>1. [op |-> "remove", seen |-> report, item |-> i] \in RemoveTxn
      BY DEF RemoveTxn, TypeOK
    <2> QED
      BY <1>3, <2>1 DEF RemoveBegin, Begin, TypeOK, Txn
  <1>4. CASE SubmitBegin(w)
    <2>1. [op |-> "load", seen |-> report] \in LoadTxn
      BY DEF LoadTxn, TypeOK
    <2> QED
      BY <1>4, <2>1 DEF SubmitBegin, Begin, TypeOK, Txn
  <1> QED
    BY <1>1, <1>2, <1>3, <1>4 DEF Start

(* The three ways a submission's record is updated. *)
LEMMA OpenShape ==
    ASSUME NEW t \in SubmitTxn, NEW i \in ItemIds, NEW n \in 0 .. MaxParts,
           NEW rest \in SUBSET ItemIds
    PROVE  [t EXCEPT !.cur = i, !.left = n, !.todo = rest] \in SubmitTxn
  <1>1. i \in 0 .. MaxItems
    BY BoundsAssumption DEF ItemIds
  <1> QED
    BY <1>1 DEF SubmitTxn

LEMMA StoreShape ==
    ASSUME NEW t \in SubmitTxn, NEW n \in 0 .. MaxParts, NEW files \in SUBSET Paths
    PROVE  [t EXCEPT !.made = files, !.left = n] \in SubmitTxn
  BY DEF SubmitTxn

LEMMA FinishShape ==
    ASSUME NEW t \in SubmitTxn, NEW files \in SUBSET Paths
    PROVE  [t EXCEPT !.written = files, !.made = {}, !.cur = 0] \in SubmitTxn
  <1>1. {} \in SUBSET Paths /\ 0 \in 0 .. MaxItems
    BY BoundsAssumption
  <1>2. ASSUME NEW none \in SUBSET Paths, NEW c \in 0 .. MaxItems
        PROVE  [t EXCEPT !.written = files, !.made = none, !.cur = c] \in SubmitTxn
    BY DEF SubmitTxn
  <1> QED
    BY <1>1, <1>2

LEMMA SubmitFields ==
    ASSUME NEW t \in SubmitTxn
    PROVE  /\ t.try \in 1 .. MaxTries
           /\ t.view \in [ItemIds -> Row \cup {NoRow}]
           /\ t.todo \in SUBSET ItemIds
           /\ t.cur \in 0 .. MaxItems
           /\ t.left \in 0 .. MaxParts
           /\ t.made \in SUBSET Paths
           /\ t.written \in SUBSET Paths
  BY DEF SubmitTxn

(* The steps of a submission. *)
LEMMA SubmitType ==
    ASSUME TypeOK, NEW w \in Workers,
           \/ SubmitLoad(w)
           \/ \E i \in ItemIds : OpenItem(w, i)
           \/ SkipAttachment(w) \/ StoreAttachment(w) \/ StoreRendered(w)
           \/ FinishItem(w) \/ SubmitCommit(w)
           \/ FailOpening(w) \/ FailInItem(w) \/ Lose(w)
    PROVE  TypeOK'
  <1> USE BoundsAssumption
  <1>t. txn' = [txn EXCEPT ![w] = Idle] => txn' \in [Workers -> Txn]
    BY DEF TypeOK, Txn
  <1>s. ASSUME NEW t \in SubmitTxn, txn' = [txn EXCEPT ![w] = t]
        PROVE  txn' \in [Workers -> Txn]
    BY <1>s DEF TypeOK, Txn
  <1>u. Submitting(w) => txn[w] \in SubmitTxn
    BY ShapeOfTxn DEF Submitting
  <1>1. CASE SubmitLoad(w)
    <2>1. [op |-> "submit", try |-> nextTry, view |-> items,
           todo |-> Listed(items), cur |-> 0, left |-> 0,
           made |-> {}, written |-> {}] \in SubmitTxn
      BY <1>1 DEF SubmitLoad, SubmitTxn, TypeOK, Listed
    <2>2. txn' \in [Workers -> Txn]
      BY <1>1, <1>s, <2>1 DEF SubmitLoad
    <2>3. nextTry' \in 1 .. MaxTries + 1
      BY <1>1 DEF SubmitLoad, TypeOK
    <2> QED
      BY <1>1, <2>2, <2>3 DEF SubmitLoad, TypeOK
  <1>2. ASSUME NEW i \in ItemIds, OpenItem(w, i)
        PROVE  TypeOK'
    <2>1. txn[w] \in SubmitTxn
      BY <1>2, <1>u DEF OpenItem, BetweenItems
    <2>2. PICK n \in 0 .. MaxParts :
            txn' = [txn EXCEPT ![w].cur = i, ![w].left = n, ![w].todo = @ \ {i}]
      BY <1>2 DEF OpenItem
    <2>3. [txn[w] EXCEPT !.cur = i, !.left = n, !.todo = @ \ {i}] \in SubmitTxn
      <3>1. txn[w].todo \ {i} \in SUBSET ItemIds
        BY <2>1, SubmitFields
      <3> QED
        BY <2>1, <3>1, OpenShape
    <2>4. txn' \in [Workers -> Txn]
      BY <2>2, <2>3, <1>s DEF TypeOK
    <2> QED
      BY <1>2, <2>4 DEF OpenItem, TypeOK
  <1>3. CASE SkipAttachment(w)
    <2>1. txn[w] \in SubmitTxn
      BY <1>3, <1>u DEF SkipAttachment, InItem
    <2>2. [txn[w] EXCEPT !.left = @ - 1] \in SubmitTxn
      BY <1>3, <2>1 DEF SkipAttachment, SubmitTxn
    <2> QED
      BY <1>3, <2>2, <1>s DEF SkipAttachment, TypeOK
  <1>4. ASSUME NEW part \in 0 .. MaxParts, InItem(w), Store(w, part),
               part = 0 \/ txn[w].left = part
        PROVE  TypeOK'
    <2> DEFINE p == [try |-> txn[w].try, item |-> txn[w].cur, part |-> part]
    <2>1. txn[w] \in SubmitTxn
      BY <1>4, <1>u DEF InItem
    <2>2. p \in Paths
      BY <1>4, <2>1 DEF Paths, SubmitTxn, InItem, ItemIds
    <2>3. [txn[w] EXCEPT !.made = @ \cup {p},
                         !.left = IF part = 0 THEN @ ELSE @ - 1] \in SubmitTxn
      <3>1. txn[w].made \cup {p} \in SUBSET Paths
        BY <2>1, <2>2, SubmitFields
      <3>2. (IF part = 0 THEN txn[w].left ELSE txn[w].left - 1) \in 0 .. MaxParts
        <4>1. txn[w].left \in 0 .. MaxParts
          BY <2>1, SubmitFields
        <4> QED
          BY <1>4, <4>1
      <3> HIDE DEF p
      <3> QED
        BY <2>1, <3>1, <3>2, StoreShape
    <2>4. txn' \in [Workers -> Txn]
      BY <1>4, <2>3, <1>s DEF Store, TypeOK
    <2>5. blobs' \subseteq Paths
      BY <1>4, <2>2 DEF Store, TypeOK
    <2> QED
      BY <1>4, <2>4, <2>5 DEF Store, TypeOK
  <1>5. CASE StoreAttachment(w)
    <2>1. txn[w].left \in 0 .. MaxParts
      BY <1>5, <1>u DEF StoreAttachment, InItem, SubmitTxn
    <2> QED
      BY <1>5, <1>4, <2>1 DEF StoreAttachment
  <1>6. CASE StoreRendered(w)
    BY <1>6, <1>4 DEF StoreRendered
  <1>7. CASE FinishItem(w)
    <2>1. txn[w] \in SubmitTxn
      BY <1>7, <1>u DEF FinishItem, InItem
    <2>2. [txn[w] EXCEPT !.written = @ \cup txn[w].made, !.made = {}, !.cur = 0]
            \in SubmitTxn
      <3>1. txn[w].written \cup txn[w].made \in SUBSET Paths
        BY <2>1, SubmitFields
      <3> QED
        BY <2>1, <3>1, FinishShape
    <2> QED
      BY <1>7, <2>2, <1>s DEF FinishItem, TypeOK
  <1>8. CASE SubmitCommit(w)
    <2>1. txn[w].written \subseteq Paths
      BY <1>8, <1>u DEF SubmitCommit, BetweenItems, SubmitTxn
    <2> QED
      BY <1>8, <1>t, <2>1 DEF SubmitCommit, TypeOK, End, Status
  <1>9. CASE FailOpening(w)
    BY <1>9, <1>t DEF FailOpening, CleanUp, TypeOK, End
  <1>10. CASE FailInItem(w)
    BY <1>10, <1>t DEF FailInItem, CleanUp, TypeOK, End
  <1>11. CASE Lose(w)
    BY <1>11, <1>t DEF Lose, TypeOK, End
  <1> QED
    BY <1>1, <1>2, <1>3, <1>5, <1>6, <1>7, <1>8, <1>9, <1>10, <1>11

(* The steps that are not a worker's. *)
LEMMA OtherType ==
    ASSUME TypeOK, CreateReport \/ \E b \in Mailboxes : Connect(b) \/ Disconnect(b)
    PROVE  TypeOK'
  <1>1. CASE CreateReport
    BY <1>1 DEF CreateReport, TypeOK, Status
  <1>2. ASSUME NEW b \in Mailboxes, Connect(b)
        PROVE  TypeOK'
    BY <1>2, BoundsAssumption DEF Connect, TypeOK, AccountIds
  <1>3. ASSUME NEW b \in Mailboxes, Disconnect(b)
        PROVE  TypeOK'
    BY <1>3, UnlinkedType DEF Disconnect, TypeOK
  <1> QED
    BY <1>1, <1>2, <1>3

LEMMA StepCases ==
    ASSUME NEW w \in Workers, Step(w)
    PROVE  \/ AddExisting(w) \/ AddNew(w) \/ AddMissing(w)
           \/ JustifyFinish(w) \/ RemoveFinish(w) \/ Abort(w)
           \/ SubmitLoad(w)
           \/ \E i \in ItemIds : OpenItem(w, i)
           \/ SkipAttachment(w) \/ StoreAttachment(w) \/ StoreRendered(w)
           \/ FinishItem(w) \/ SubmitCommit(w)
           \/ FailOpening(w) \/ FailInItem(w) \/ Lose(w)
  BY DEF Step

(* The state of the report, its items, its files and its requests is well  *)
(* typed in every reachable state.                                         *)
THEOREM TypeCorrect == Spec => []TypeOK
  <1>1. Init => TypeOK
    BY BoundsAssumption DEF Init, TypeOK, Status, Txn
  <1>2. TypeOK /\ [Next]_vars => TypeOK'
    <2> SUFFICES ASSUME TypeOK, [Next]_vars
                 PROVE  TypeOK'
      OBVIOUS
    <2>1. CASE CreateReport \/ \E b \in Mailboxes : Connect(b) \/ Disconnect(b)
      BY <2>1, OtherType
    <2>2. ASSUME NEW w \in Workers, Start(w)
          PROVE  TypeOK'
      BY <2>2, StartType
    <2>3. ASSUME NEW w \in Workers, Step(w)
          PROVE  TypeOK'
      BY <2>3, StepCases, EditType, SubmitType
    <2>4. CASE UNCHANGED vars
      BY <2>4 DEF vars, TypeOK
    <2> QED
      BY <2>1, <2>2, <2>3, <2>4 DEF Next
  <1> QED
    BY <1>1, <1>2, PTL DEF Spec

-----------------------------------------------------------------------------
(* How a step changes the submissions in progress.                         *)

Others(w) == \A v \in Workers \ {w} : txn'[v] = txn[v]

(* A step that starts no submission, ends none but by dropping it, and     *)
(* touches no file. *)
Quiet ==
    /\ artifacts' \subseteq artifacts
    /\ blobs' = blobs
    /\ nextTry' = nextTry
    /\ \A v \in Workers : Submitting(v)' => txn'[v] = txn[v]

Editing(w) ==
    \/ AddExisting(w) \/ AddNew(w) \/ AddMissing(w)
    \/ JustifyFinish(w) \/ RemoveFinish(w) \/ Abort(w)

LEMMA QuietSteps ==
    ASSUME TypeOK, [Next]_vars
    PROVE  \/ Quiet
           \/ \E w \in Workers :
                \/ SubmitLoad(w)
                \/ \E i \in ItemIds : OpenItem(w, i)
                \/ SkipAttachment(w) \/ StoreAttachment(w) \/ StoreRendered(w)
                \/ FinishItem(w) \/ SubmitCommit(w)
                \/ FailOpening(w) \/ FailInItem(w)
  <1> USE DEF Submitting
  <1>e. ASSUME NEW w \in Workers, End(w), artifacts' \subseteq artifacts,
               blobs' = blobs, nextTry' = nextTry
        PROVE  Quiet
    BY <1>e DEF End, Quiet, Idle, TypeOK
  <1>b. ASSUME NEW w \in Workers, NEW t, Begin(w, t), t.op # "submit",
               UNCHANGED <<artifacts, blobs, nextTry>>
        PROVE  Quiet
    BY <1>b DEF Begin, Quiet, TypeOK
  <1>1. CASE CreateReport
    BY <1>1 DEF CreateReport, Quiet
  <1>2. ASSUME NEW b \in Mailboxes, Connect(b) \/ Disconnect(b)
        PROVE  Quiet
    BY <1>2 DEF Connect, Disconnect, Quiet
  <1>3. ASSUME NEW w \in Workers, Start(w)
        PROVE  Quiet
    <2>1. ASSUME NEW m \in Messages, NEW text \in Texts \cup {Blank, NoText},
                 AddBegin(w, m, text)
          PROVE  Quiet
      BY <2>1, <1>b DEF AddBegin
    <2>2. ASSUME NEW i \in ItemIds, NEW text \in Texts, JustifyBegin(w, i, text)
          PROVE  Quiet
      BY <2>2, <1>b DEF JustifyBegin
    <2>3. ASSUME NEW i \in ItemIds, RemoveBegin(w, i)
          PROVE  Quiet
      BY <2>3, <1>b DEF RemoveBegin
    <2>4. CASE SubmitBegin(w)
      BY <2>4, <1>b DEF SubmitBegin
    <2> QED
      BY <1>3, <2>1, <2>2, <2>3, <2>4 DEF Start
  <1>4. ASSUME NEW w \in Workers, Editing(w)
        PROVE  Quiet
    <2>1. artifacts' \subseteq artifacts /\ UNCHANGED <<blobs, nextTry>> /\ End(w)
      BY <1>4 DEF Editing, AddExisting, AddNew, AddMissing, JustifyFinish,
                  RemoveFinish, Abort
    <2> QED
      BY <2>1, <1>e
  <1>5. ASSUME NEW w \in Workers, Lose(w)
        PROVE  Quiet
    BY <1>5, <1>e DEF Lose
  <1>6. CASE UNCHANGED vars
    BY <1>6 DEF vars, Quiet
  <1> QED
    BY <1>1, <1>2, <1>3, <1>4, <1>5, <1>6, StepCases DEF Next, Editing

(* What each step of a submission does to the files it has put. *)
LEMMA OpenOrSkip ==
    ASSUME TypeOK, NEW w \in Workers,
           (\E i \in ItemIds : OpenItem(w, i)) \/ SkipAttachment(w)
    PROVE  /\ Submitting(w) /\ Others(w)
           /\ Submitting(w)'
           /\ txn'[w].try = txn[w].try
           /\ txn'[w].made = txn[w].made
           /\ txn'[w].written = txn[w].written
           /\ txn'[w].view = txn[w].view
           /\ UNCHANGED <<artifacts, blobs, nextTry, items>>
  <1>1. CASE SkipAttachment(w)
    <2>1. txn[w] \in SubmitTxn
      BY <1>1, ShapeOfTxn DEF SkipAttachment, InItem, Submitting
    <2> QED
      BY <1>1, <2>1 DEF SkipAttachment, InItem, Submitting, Others, SubmitTxn, TypeOK
  <1>2. ASSUME NEW i \in ItemIds, OpenItem(w, i)
        PROVE  /\ Submitting(w) /\ Others(w)
               /\ Submitting(w)'
               /\ txn'[w].try = txn[w].try
               /\ txn'[w].made = txn[w].made
               /\ txn'[w].written = txn[w].written
               /\ txn'[w].view = txn[w].view
               /\ UNCHANGED <<artifacts, blobs, nextTry, items>>
    <2>1. txn[w] \in SubmitTxn
      BY <1>2, ShapeOfTxn DEF OpenItem, BetweenItems, Submitting
    <2>2. PICK n \in 0 .. MaxParts :
            txn' = [txn EXCEPT ![w].cur = i, ![w].left = n, ![w].todo = @ \ {i}]
      BY <1>2 DEF OpenItem
    <2> QED
      BY <1>2, <2>1, <2>2 DEF OpenItem, BetweenItems, Submitting, Others, SubmitTxn, TypeOK
  <1> QED
    BY <1>1, <1>2

LEMMA StoreStep ==
    ASSUME TypeOK, NEW w \in Workers, StoreAttachment(w) \/ StoreRendered(w)
    PROVE  \E p \in Paths :
             /\ Submitting(w) /\ Others(w)
             /\ Submitting(w)'
             /\ p.try = txn[w].try /\ p.item = txn[w].cur
             /\ items[txn[w].cur] # NoRow
             /\ txn'[w].try = txn[w].try
             /\ txn'[w].made = txn[w].made \cup {p}
             /\ txn'[w].written = txn[w].written
             /\ txn'[w].view = txn[w].view
             /\ txn'[w].todo = txn[w].todo
             /\ txn'[w].cur = txn[w].cur
             /\ blobs' = blobs \cup {p}
             /\ UNCHANGED <<artifacts, nextTry, items>>
  <1>1. txn[w] \in SubmitTxn /\ InItem(w)
    BY ShapeOfTxn DEF StoreAttachment, StoreRendered, InItem, Submitting
  <1>2. PICK part \in 0 .. MaxParts : Store(w, part)
    <2>1. txn[w].left \in 0 .. MaxParts /\ 0 \in 0 .. MaxParts
      BY <1>1, SubmitFields, BoundsAssumption
    <2> QED
      BY <2>1 DEF StoreAttachment, StoreRendered
  <1> DEFINE p == [try |-> txn[w].try, item |-> txn[w].cur, part |-> part]
  <1>3. p \in Paths
    BY <1>1, BoundsAssumption DEF InItem, SubmitTxn, Paths, ItemIds
  <1> WITNESS p \in Paths
  <1> QED
    BY <1>1, <1>2 DEF Store, InItem, Submitting, Others, SubmitTxn, TypeOK

LEMMA FinishStep ==
    ASSUME TypeOK, NEW w \in Workers, FinishItem(w)
    PROVE  /\ Submitting(w) /\ Others(w)
           /\ Submitting(w)'
           /\ txn[w].made # {}
           /\ txn'[w].try = txn[w].try
           /\ txn'[w].made = {}
           /\ txn'[w].written = txn[w].written \cup txn[w].made
           /\ txn'[w].view = txn[w].view
           /\ txn'[w].todo = txn[w].todo
           /\ txn'[w].cur = 0
           /\ UNCHANGED <<artifacts, blobs, nextTry, items>>
  <1>1. txn[w] \in SubmitTxn
    BY ShapeOfTxn DEF FinishItem, InItem, Submitting
  <1> QED
    BY <1>1 DEF FinishItem, InItem, Submitting, Others, SubmitTxn, TypeOK

LEMMA EndStep ==
    ASSUME TypeOK, NEW w \in Workers, SubmitCommit(w) \/ FailOpening(w) \/ FailInItem(w)
    PROVE  /\ Submitting(w) /\ Others(w)
           /\ ~Submitting(w)'
           /\ UNCHANGED <<nextTry, items>>
  BY DEF SubmitCommit, FailOpening, FailInItem, CleanUp, BetweenItems, InItem,
         Submitting, Others, End, Idle, TypeOK

LEMMA LoadStep ==
    ASSUME TypeOK, NEW w \in Workers, SubmitLoad(w)
    PROVE  /\ ~Submitting(w) /\ Others(w)
           /\ txn'[w].try = nextTry
           /\ txn'[w].made = {} /\ txn'[w].written = {}
           /\ txn'[w].view = items
           /\ txn'[w].todo = Listed(items)
           /\ Ready(items)
           /\ nextTry' = nextTry + 1
           /\ UNCHANGED <<artifacts, blobs, items>>
  BY DEF SubmitLoad, Submitting, Others, TypeOK

-----------------------------------------------------------------------------
(* The files of committed artifacts.  The danger is the cleanup of a       *)
(* failed submission deleting files that another one committed; PathsApart *)
(* says why it cannot.                                                     *)

StoreInv == ArtifactsHaveBlobs /\ StagedHaveBlobs /\ PathsApart

LEMMA QuietKeepsStore ==
    ASSUME StoreInv, Quiet
    PROVE  StoreInv'
  <1>1. ASSUME NEW v \in Workers, Submitting(v)'
        PROVE  txn'[v] = txn[v] /\ Submitting(v)
    BY <1>1 DEF Quiet, Submitting
  <1>2. ArtifactsHaveBlobs'
    BY DEF StoreInv, ArtifactsHaveBlobs, Quiet
  <1>3. StagedHaveBlobs'
    BY <1>1 DEF StoreInv, StagedHaveBlobs, Quiet
  <1>4. PathsApart'
    BY <1>1 DEF StoreInv, PathsApart, Quiet
  <1> QED
    BY <1>2, <1>3, <1>4 DEF StoreInv

(* One running submission changes only the record of its own files, and    *)
(* every file it has put carries its own number.                           *)
LEMMA RunningKeepsStore ==
    ASSUME StoreInv, NEW w \in Workers, Submitting(w), Submitting(w)', Others(w),
           txn'[w].try = txn[w].try,
           UNCHANGED <<artifacts, nextTry>>,
           blobs \subseteq blobs',
           txn'[w].made \cup txn'[w].written \subseteq blobs',
           \A p \in txn'[w].made \cup txn'[w].written : p.try = txn[w].try
    PROVE  StoreInv'
  <1>1. \A v \in Workers : (Submitting(v)' <=> Submitting(v)) /\ txn'[v].try = txn[v].try
    BY DEF Others, Submitting
  <1>2. ArtifactsHaveBlobs'
    BY DEF StoreInv, ArtifactsHaveBlobs
  <1>3. StagedHaveBlobs'
    BY <1>1 DEF StoreInv, StagedHaveBlobs, Others
  <1>4. PathsApart'
    <2>1. \A v \in Workers : Submitting(v)' =>
            \A p \in txn'[v].made \cup txn'[v].written : p.try = txn[v].try
      BY <1>1 DEF StoreInv, PathsApart, Others
    <2> QED
      BY <1>1, <2>1 DEF StoreInv, PathsApart
  <1> QED
    BY <1>2, <1>3, <1>4 DEF StoreInv

LEMMA CleanUpKeepsStore ==
    ASSUME StoreInv, TypeOK, NEW w \in Workers, Submitting(w), CleanUp(w)
    PROVE  StoreInv'
  <1>1. /\ Others(w) /\ ~Submitting(w)' /\ UNCHANGED <<artifacts, nextTry>>
        /\ blobs \ txn[w].written \subseteq blobs'
    BY DEF CleanUp, End, Idle, Others, Submitting, TypeOK
  <1>2. \A v \in Workers : Submitting(v)' => v # w /\ txn'[v] = txn[v] /\ Submitting(v)
    BY <1>1 DEF Others, Submitting
  <1>3. ArtifactsHaveBlobs'
    <2>1. artifacts \cap txn[w].written = {}
      BY DEF StoreInv, PathsApart
    <2> QED
      BY <1>1, <2>1 DEF StoreInv, ArtifactsHaveBlobs
  <1>4. StagedHaveBlobs'
    <2> SUFFICES ASSUME NEW v \in Workers, Submitting(v)'
                 PROVE  txn[v].made \cup txn[v].written \subseteq blobs'
      BY <1>2 DEF StagedHaveBlobs
    <2>1. Submitting(v) /\ v # w
      BY <1>2
    <2>2. txn[v].try # txn[w].try
      BY <2>1 DEF StoreInv, PathsApart
    <2>3. (txn[v].made \cup txn[v].written) \cap txn[w].written = {}
      BY <2>1, <2>2 DEF StoreInv, PathsApart
    <2> QED
      BY <1>1, <2>1, <2>3 DEF StoreInv, StagedHaveBlobs
  <1>5. PathsApart'
    BY <1>1, <1>2 DEF StoreInv, PathsApart
  <1> QED
    BY <1>3, <1>4, <1>5 DEF StoreInv

LEMMA LoadKeepsStore ==
    ASSUME StoreInv, TypeOK, NEW w \in Workers, SubmitLoad(w)
    PROVE  StoreInv'
  <1>1. /\ Others(w)
        /\ txn'[w].try = nextTry
        /\ txn'[w].made = {} /\ txn'[w].written = {}
        /\ nextTry' = nextTry + 1
        /\ UNCHANGED <<artifacts, blobs>>
    BY LoadStep
  <1>2. \A v \in Workers : Submitting(v)' => v = w \/ (txn'[v] = txn[v] /\ Submitting(v))
    BY <1>1 DEF Others, Submitting
  <1>n. nextTry \in Nat /\ \A p \in artifacts : p.try \in Nat
    BY BoundsAssumption DEF TypeOK, Paths
  <1>t. \A v \in Workers : Submitting(v) => txn[v].try \in Nat
    BY ShapeOfTxn, SubmitFields, BoundsAssumption DEF Submitting
  <1>3. ArtifactsHaveBlobs'
    BY <1>1 DEF StoreInv, ArtifactsHaveBlobs
  <1>4. StagedHaveBlobs'
    BY <1>1, <1>2 DEF StoreInv, StagedHaveBlobs
  <1>5. PathsApart'
    <2>1. \A p \in artifacts' : p.try < nextTry'
      BY <1>1, <1>n DEF StoreInv, PathsApart
    <2>2. ASSUME NEW v \in Workers, Submitting(v)'
          PROVE  /\ txn'[v].try < nextTry'
                 /\ \A p \in txn'[v].made \cup txn'[v].written : p.try = txn'[v].try
                 /\ \A p \in artifacts' : p.try # txn'[v].try
      <3>1. CASE v = w
        BY <1>1, <1>n, <3>1 DEF StoreInv, PathsApart
      <3>2. CASE v # w
        <4>1. txn'[v] = txn[v] /\ Submitting(v)
          BY <1>2, <2>2, <3>2
        <4> QED
          BY <1>1, <1>n, <1>t, <4>1 DEF StoreInv, PathsApart
      <3> QED
        BY <3>1, <3>2
    <2>3. ASSUME NEW v \in Workers, NEW u \in Workers, u # v,
                 Submitting(v)', Submitting(u)'
          PROVE  txn'[u].try # txn'[v].try
      <3>1. CASE v # w /\ u # w
        BY <1>2, <2>3, <3>1 DEF StoreInv, PathsApart
      <3>2. CASE v = w
        BY <1>1, <1>2, <1>n, <1>t, <2>3, <3>2 DEF StoreInv, PathsApart
      <3>3. CASE u = w
        BY <1>1, <1>2, <1>n, <1>t, <2>3, <3>3 DEF StoreInv, PathsApart
      <3> QED
        BY <3>1, <3>2, <3>3
    <2> QED
      BY <2>1, <2>2, <2>3 DEF PathsApart
  <1> QED
    BY <1>3, <1>4, <1>5 DEF StoreInv

LEMMA CommitKeepsStore ==
    ASSUME StoreInv, TypeOK, NEW w \in Workers, SubmitCommit(w)
    PROVE  StoreInv'
  <1>1. /\ Submitting(w) /\ Others(w) /\ ~Submitting(w)'
        /\ artifacts' = artifacts \cup txn[w].written
        /\ UNCHANGED <<blobs, nextTry>>
    BY EndStep DEF SubmitCommit
  <1>2. \A v \in Workers : Submitting(v)' => v # w /\ txn'[v] = txn[v] /\ Submitting(v)
    BY <1>1 DEF Others, Submitting
  <1>3. ArtifactsHaveBlobs'
    BY <1>1 DEF StoreInv, ArtifactsHaveBlobs, StagedHaveBlobs
  <1>4. StagedHaveBlobs'
    BY <1>1, <1>2 DEF StoreInv, StagedHaveBlobs
  <1>5. PathsApart'
    <2>1. \A p \in txn[w].written : p.try = txn[w].try
      BY <1>1 DEF StoreInv, PathsApart
    <2>2. \A p \in artifacts' : p.try < nextTry'
      BY <1>1, <2>1 DEF StoreInv, PathsApart
    <2>3. \A v \in Workers : Submitting(v)' => \A p \in artifacts' : p.try # txn'[v].try
      BY <1>1, <1>2, <2>1 DEF StoreInv, PathsApart
    <2> QED
      BY <1>1, <1>2, <2>2, <2>3 DEF StoreInv, PathsApart
  <1> QED
    BY <1>3, <1>4, <1>5 DEF StoreInv

LEMMA StoreInvStep ==
    ASSUME TypeOK, StoreInv, [Next]_vars
    PROVE  StoreInv'
  <1>1. CASE Quiet
    BY <1>1, QuietKeepsStore
  <1>2. ASSUME NEW w \in Workers, SubmitLoad(w)
        PROVE  StoreInv'
    BY <1>2, LoadKeepsStore
  <1>3. ASSUME NEW w \in Workers,
               (\E i \in ItemIds : OpenItem(w, i)) \/ SkipAttachment(w)
        PROVE  StoreInv'
    <2>1. /\ Submitting(w) /\ Others(w) /\ Submitting(w)'
          /\ txn'[w].try = txn[w].try
          /\ txn'[w].made = txn[w].made /\ txn'[w].written = txn[w].written
          /\ UNCHANGED <<artifacts, blobs, nextTry>>
      BY <1>3, OpenOrSkip
    <2>2. /\ txn'[w].made \cup txn'[w].written \subseteq blobs'
          /\ \A p \in txn'[w].made \cup txn'[w].written : p.try = txn[w].try
      BY <2>1 DEF StoreInv, StagedHaveBlobs, PathsApart
    <2> QED
      BY <2>1, <2>2, RunningKeepsStore
  <1>4. ASSUME NEW w \in Workers, StoreAttachment(w) \/ StoreRendered(w)
        PROVE  StoreInv'
    <2>1. PICK p \in Paths :
             /\ Submitting(w) /\ Others(w) /\ Submitting(w)'
             /\ p.try = txn[w].try
             /\ txn'[w].try = txn[w].try
             /\ txn'[w].made = txn[w].made \cup {p}
             /\ txn'[w].written = txn[w].written
             /\ blobs' = blobs \cup {p}
             /\ UNCHANGED <<artifacts, nextTry>>
      BY <1>4, StoreStep
    <2>2. /\ txn'[w].made \cup txn'[w].written \subseteq blobs'
          /\ \A q \in txn'[w].made \cup txn'[w].written : q.try = txn[w].try
      BY <2>1 DEF StoreInv, StagedHaveBlobs, PathsApart
    <2> QED
      BY <2>1, <2>2, RunningKeepsStore
  <1>5. ASSUME NEW w \in Workers, FinishItem(w)
        PROVE  StoreInv'
    <2>1. /\ Submitting(w) /\ Others(w) /\ Submitting(w)'
          /\ txn'[w].try = txn[w].try
          /\ txn'[w].made = {}
          /\ txn'[w].written = txn[w].written \cup txn[w].made
          /\ UNCHANGED <<artifacts, blobs, nextTry>>
      BY <1>5, FinishStep
    <2>2. /\ txn'[w].made \cup txn'[w].written \subseteq blobs'
          /\ \A q \in txn'[w].made \cup txn'[w].written : q.try = txn[w].try
      BY <2>1 DEF StoreInv, StagedHaveBlobs, PathsApart
    <2> QED
      BY <2>1, <2>2, RunningKeepsStore
  <1>6. ASSUME NEW w \in Workers, SubmitCommit(w)
        PROVE  StoreInv'
    BY <1>6, CommitKeepsStore
  <1>7. ASSUME NEW w \in Workers, FailOpening(w) \/ FailInItem(w)
        PROVE  StoreInv'
    BY <1>7, CleanUpKeepsStore DEF FailOpening, FailInItem, BetweenItems, InItem
  <1> QED
    BY <1>1, <1>2, <1>3, <1>4, <1>5, <1>6, <1>7, QuietSteps

(* In every reachable state, however requests interleave, fail or die,     *)
(* each artifact row names a file that is in the store; so export_bundle   *)
(* never meets a missing file.                                             *)
THEOREM BundlesAreWhole == Spec => []ArtifactsHaveBlobs
  <1>1. Init => StoreInv
    BY DEF Init, StoreInv, ArtifactsHaveBlobs, StagedHaveBlobs, PathsApart,
           Submitting, Idle
  <1>2. TypeOK /\ StoreInv /\ [Next]_vars => StoreInv'
    BY StoreInvStep
  <1>3. StoreInv => ArtifactsHaveBlobs
    BY DEF StoreInv
  <1> QED
    BY <1>1, <1>2, <1>3, TypeCorrect, PTL DEF Spec

-----------------------------------------------------------------------------
(* A draft has no artifacts. *)

LEMMA ReportOnlyMovesOn ==
    ASSUME NEW w \in Workers, AddExisting(w) \/ AddNew(w) \/ AddMissing(w)
    PROVE  report' = report \/ report = "absent"
  BY DEF AddExisting, AddNew, AddMissing, ReportAfter, StillUnique

(* No failure, crash or race leaves a report that is not submitted with    *)
(* rows in the artifacts table: the artifact rows of a submission become   *)
(* visible together with its change of status, or never.                   *)
THEOREM NeverHalfSubmitted == Spec => []NothingHalfSubmitted
  <1>1. Init => NothingHalfSubmitted
    BY DEF Init, NothingHalfSubmitted
  <1>2. NothingHalfSubmitted /\ [Next]_vars => NothingHalfSubmitted'
    <2> SUFFICES ASSUME NothingHalfSubmitted, [Next]_vars
                 PROVE  NothingHalfSubmitted'
      OBVIOUS
    <2>1. CASE CreateReport
      BY <2>1 DEF CreateReport, NothingHalfSubmitted
    <2>2. ASSUME NEW b \in Mailboxes, Connect(b) \/ Disconnect(b)
          PROVE  NothingHalfSubmitted'
      BY <2>2 DEF Connect, Disconnect, NothingHalfSubmitted
    <2>3. ASSUME NEW w \in Workers, Start(w)
          PROVE  NothingHalfSubmitted'
      BY <2>3 DEF Start, AddBegin, JustifyBegin, RemoveBegin, SubmitBegin,
                  NothingHalfSubmitted
    <2>4. ASSUME NEW w \in Workers, AddExisting(w) \/ AddNew(w) \/ AddMissing(w)
          PROVE  NothingHalfSubmitted'
      <3>1. artifacts' = artifacts
        BY <2>4 DEF AddExisting, AddNew, AddMissing
      <3> QED
        BY <2>4, <3>1, ReportOnlyMovesOn DEF NothingHalfSubmitted
    <2>5. ASSUME NEW w \in Workers, RemoveFinish(w)
          PROVE  NothingHalfSubmitted'
      BY <2>5 DEF RemoveFinish, NothingHalfSubmitted
    <2>6. ASSUME NEW w \in Workers, SubmitCommit(w)
          PROVE  NothingHalfSubmitted'
      BY <2>6 DEF SubmitCommit, NothingHalfSubmitted
    <2>7. ASSUME NEW w \in Workers,
                 \/ JustifyFinish(w) \/ Abort(w) \/ SubmitLoad(w)
                 \/ \E i \in ItemIds : OpenItem(w, i)
                 \/ SkipAttachment(w) \/ StoreAttachment(w) \/ StoreRendered(w)
                 \/ FinishItem(w) \/ FailOpening(w) \/ FailInItem(w) \/ Lose(w)
          PROVE  NothingHalfSubmitted'
      BY <2>7 DEF JustifyFinish, Abort, SubmitLoad, OpenItem, SkipAttachment,
                  StoreAttachment, StoreRendered, Store, FinishItem, FailOpening,
                  FailInItem, CleanUp, Lose, NothingHalfSubmitted
    <2>8. CASE UNCHANGED vars
      BY <2>8 DEF vars, NothingHalfSubmitted
    <2> QED
      BY <2>1, <2>2, <2>3, <2>4, <2>5, <2>6, <2>7, <2>8, StepCases DEF Next
  <1> QED
    BY <1>1, <1>2, PTL DEF Spec

-----------------------------------------------------------------------------
(* What a submission read stays until it commits.                          *)

(* Only a removal deletes a row, and it waits for the submissions that     *)
(* have stored a file for it.                                              *)
LEMMA LockedItemsStay ==
    ASSUME TypeOK, [Next]_vars, NEW i \in ItemIds, items[i] # NoRow, Locked(i)
    PROVE  items'[i] # NoRow
  <1> USE DataAssumption
  <1>r. items[i] \in Row
    BY DEF TypeOK
  <1>1. ASSUME NEW b \in Mailboxes, Disconnect(b)
        PROVE  items'[i] # NoRow
    <2>1. [items[i] EXCEPT !.source = Null] \in Row
      BY <1>r DEF Row
    <2> QED
      BY <1>1, <2>1 DEF Disconnect, Unlinked
  <1>2. ASSUME NEW w \in Workers, AddExisting(w)
        PROVE  items'[i] # NoRow
    <2>1. PICK j \in SameMessage(txn[w].msg) : items' = Retext(items, j, txn[w].text)
      BY <1>2 DEF AddExisting
    <2>2. j \in Listed(items) /\ txn[w].text \in Texts \cup {Blank, NoText}
      BY <1>2, <2>1, ShapeOfTxn DEF AddExisting, AddTxn, SameMessage
    <2>3. items' \in [ItemIds -> Row \cup {NoRow}]
      BY <2>1, <2>2, RetextType DEF TypeOK
    <2>4. txn[w].text # NoText => [items[i] EXCEPT !.text = txn[w].text] \in Row
      BY <1>r, <2>2 DEF Row
    <2> QED
      BY <2>1, <2>2, <2>4 DEF Retext, TypeOK
  <1>3. ASSUME NEW w \in Workers, AddNew(w)
        PROVE  items'[i] # NoRow
    <2>1. txn[w] \in AddTxn
      BY <1>3, ShapeOfTxn DEF AddNew
    <2>2. [msg |-> txn[w].msg, source |-> txn[w].acct,
           text |-> IF txn[w].text = NoText THEN Blank ELSE txn[w].text] \in Row
      BY <2>1 DEF AddTxn, Row
    <2> QED
      BY <1>3, <2>2 DEF AddNew, TypeOK
  <1>4. ASSUME NEW w \in Workers, JustifyFinish(w)
        PROVE  items'[i] # NoRow
    <2>1. txn[w].text \in Texts
      BY <1>4, ShapeOfTxn DEF JustifyFinish, JustifyTxn
    <2>2. [items[i] EXCEPT !.text = txn[w].text] \in Row
      BY <1>r, <2>1 DEF Row
    <2> QED
      BY <1>4, <2>2 DEF JustifyFinish, TypeOK
  <1>5. ASSUME NEW w \in Workers, RemoveFinish(w)
        PROVE  items'[i] # NoRow
    BY <1>5 DEF RemoveFinish, TypeOK
  <1>6. CASE UNCHANGED items
    BY <1>6
  <1>7. ASSUME NEW w \in Workers,
               \/ AddMissing(w) \/ Abort(w) \/ SubmitLoad(w)
               \/ \E j \in ItemIds : OpenItem(w, j)
               \/ SkipAttachment(w) \/ StoreAttachment(w) \/ StoreRendered(w)
               \/ FinishItem(w) \/ SubmitCommit(w) \/ FailOpening(w)
               \/ FailInItem(w) \/ Lose(w)
        PROVE  UNCHANGED items
    BY <1>7 DEF AddMissing, Abort, SubmitLoad, OpenItem, SkipAttachment,
                StoreAttachment, StoreRendered, Store, FinishItem, SubmitCommit,
                FailOpening, FailInItem, CleanUp, Lose
  <1>8. ASSUME CreateReport \/ (\E b \in Mailboxes : Connect(b))
               \/ (\E w \in Workers : Start(w)) \/ UNCHANGED vars
        PROVE  UNCHANGED items
    BY <1>8 DEF CreateReport, Connect, Start, AddBegin, JustifyBegin, RemoveBegin,
                SubmitBegin, vars
  <1> QED
    BY <1>1, <1>2, <1>3, <1>4, <1>5, <1>6, <1>7, <1>8, StepCases DEF Next

(* The part of ReadIsCovered about one submission. *)
Covered(t) ==
    /\ \A i \in Listed(t.view) : t.view[i].text \in Texts
    /\ \A i \in Listed(t.view) \ (t.todo \cup {t.cur}) : \E p \in t.written : p.item = i
    /\ \A p \in t.made : p.item = t.cur
    /\ \A p \in t.made \cup t.written : items[p.item] # NoRow

LEMMA CoveredStays ==
    ASSUME TypeOK, [Next]_vars, NEW v \in Workers, Submitting(v), Covered(txn[v]),
           txn'[v] = txn[v]
    PROVE  Covered(txn[v])'
  <1>1. ASSUME NEW p \in txn[v].made \cup txn[v].written
        PROVE  items'[p.item] # NoRow
    <2>1. p \in Paths
      BY ShapeOfTxn, SubmitFields DEF Submitting
    <2>2. p.item \in ItemIds
      BY <2>1 DEF Paths
    <2>3. Locked(p.item)
      BY DEF Locked, Submitting
    <2> QED
      BY <2>2, <2>3, LockedItemsStay DEF Covered
  <1> QED
    BY <1>1 DEF Covered

LEMMA ReadStaysCovered ==
    ASSUME TypeOK, ReadIsCovered, [Next]_vars
    PROVE  ReadIsCovered'
  <1>c. \A v \in Workers : Submitting(v) => Covered(txn[v])
    BY DEF ReadIsCovered, Covered
  <1>o. ASSUME NEW w \in Workers, Others(w), Submitting(w)' => Covered(txn[w])'
        PROVE  ReadIsCovered'
    <2> SUFFICES ASSUME NEW v \in Workers, Submitting(v)'
                 PROVE  Covered(txn[v])'
      BY DEF ReadIsCovered, Covered
    <2>1. CASE v = w
      BY <1>o, <2>1
    <2>2. CASE v # w
      <3>1. txn'[v] = txn[v] /\ Submitting(v)
        BY <1>o, <2>2 DEF Others, Submitting
      <3> QED
        BY <1>c, <3>1, CoveredStays
    <2> QED
      BY <2>1, <2>2
  <1>1. CASE Quiet
    <2> SUFFICES ASSUME NEW v \in Workers, Submitting(v)'
                 PROVE  Covered(txn[v])'
      BY DEF ReadIsCovered, Covered
    <2>1. txn'[v] = txn[v] /\ Submitting(v)
      BY <1>1 DEF Quiet, Submitting
    <2> QED
      BY <1>c, <2>1, CoveredStays
  <1>2. ASSUME NEW w \in Workers, SubmitLoad(w)
        PROVE  ReadIsCovered'
    <2>1. Covered(txn[w])'
      BY <1>2, LoadStep DEF Covered, Ready
    <2> QED
      BY <1>2, <2>1, <1>o, LoadStep
  <1>3. ASSUME NEW w \in Workers, NEW i \in ItemIds, OpenItem(w, i)
        PROVE  ReadIsCovered'
    <2>1. txn[w] \in SubmitTxn /\ Submitting(w) /\ txn[w].cur = 0
      BY <1>3, ShapeOfTxn DEF OpenItem, BetweenItems, Submitting
    <2>2. PICK n \in 0 .. MaxParts :
            txn' = [txn EXCEPT ![w].cur = i, ![w].left = n, ![w].todo = @ \ {i}]
      BY <1>3 DEF OpenItem
    <2>3. /\ txn'[w].cur = i /\ txn'[w].todo = txn[w].todo \ {i}
          /\ txn'[w].made = txn[w].made /\ txn'[w].written = txn[w].written
          /\ txn'[w].view = txn[w].view
      BY <2>1, <2>2 DEF SubmitTxn, TypeOK
    <2>4. txn[w].made = {}
      <3> SUFFICES ASSUME NEW p \in txn[w].made
                   PROVE  FALSE
        OBVIOUS
      <3>1. p.item = 0
        BY <1>c, <2>1 DEF Covered
      <3>2. p \in Paths
        BY <2>1, SubmitFields
      <3> QED
        BY <3>1, <3>2, BoundsAssumption DEF Paths, ItemIds
    <2>5. 0 \notin ItemIds /\ Listed(txn[w].view) \subseteq ItemIds
      BY DEF ItemIds, Listed
    <2>c. items' = items
      BY <1>3 DEF OpenItem
    <2>d. Covered(txn[w])
      BY <1>c, <2>1
    <2>e. \A j \in Listed(txn[w].view) \ (txn'[w].todo \cup {txn'[w].cur}) :
            j \in Listed(txn[w].view) \ (txn[w].todo \cup {txn[w].cur})
      BY <2>1, <2>3, <2>5
    <2>6. Covered(txn[w])'
      <3>1. Listed(txn'[w].view) = Listed(txn[w].view)
        BY <2>3
      <3>2. \A j \in Listed(txn'[w].view) : txn'[w].view[j].text \in Texts
        BY <2>3, <2>d, <3>1 DEF Covered
      <3>3. \A j \in Listed(txn'[w].view) \ (txn'[w].todo \cup {txn'[w].cur}) :
               \E p \in txn'[w].written : p.item = j
        BY <2>3, <2>d, <2>e, <3>1 DEF Covered
      <3>4. \A p \in txn'[w].made : p.item = txn'[w].cur
        BY <2>3, <2>4
      <3>5. \A p \in txn'[w].made \cup txn'[w].written : items'[p.item] # NoRow
        BY <2>3, <2>c, <2>d DEF Covered
      <3> QED
        BY <3>2, <3>3, <3>4, <3>5 DEF Covered, Listed
    <2> QED
      BY <1>3, <1>o, <2>6, OpenOrSkip
  <1>4. ASSUME NEW w \in Workers, SkipAttachment(w)
        PROVE  ReadIsCovered'
    <2>1. txn[w] \in SubmitTxn /\ Submitting(w)
      BY <1>4, ShapeOfTxn DEF SkipAttachment, InItem, Submitting
    <2>2. txn'[w].cur = txn[w].cur /\ txn'[w].todo = txn[w].todo
      BY <1>4, <2>1 DEF SkipAttachment, SubmitTxn, TypeOK
    <2>3. Covered(txn[w])'
      BY <1>4, <1>c, <2>1, <2>2, OpenOrSkip DEF Covered
    <2> QED
      BY <1>4, <1>o, <2>3, OpenOrSkip
  <1>5. ASSUME NEW w \in Workers, StoreAttachment(w) \/ StoreRendered(w)
        PROVE  ReadIsCovered'
    <2>1. PICK p \in Paths :
             /\ Submitting(w) /\ Others(w)
             /\ p.item = txn[w].cur
             /\ items[txn[w].cur] # NoRow
             /\ txn'[w].made = txn[w].made \cup {p}
             /\ txn'[w].written = txn[w].written
             /\ txn'[w].view = txn[w].view
             /\ txn'[w].todo = txn[w].todo
             /\ txn'[w].cur = txn[w].cur
             /\ items' = items
      BY <1>5, StoreStep
    <2>2. Covered(txn[w])'
      BY <1>c, <2>1 DEF Covered
    <2> QED
      BY <1>o, <2>1, <2>2
  <1>6. ASSUME NEW w \in Workers, FinishItem(w)
        PROVE  ReadIsCovered'
    <2>1. /\ Submitting(w) /\ Others(w)
          /\ txn[w].made # {}
          /\ txn'[w].made = {}
          /\ txn'[w].written = txn[w].written \cup txn[w].made
          /\ txn'[w].view = txn[w].view
          /\ txn'[w].todo = txn[w].todo
          /\ txn'[w].cur = 0
          /\ items' = items
      BY <1>6, FinishStep
    <2>2. Covered(txn[w])'
      BY <1>c, <2>1 DEF Covered
    <2> QED
      BY <1>o, <2>1, <2>2
  <1>7. ASSUME NEW w \in Workers, SubmitCommit(w) \/ FailOpening(w) \/ FailInItem(w)
        PROVE  ReadIsCovered'
    BY <1>7, <1>o, EndStep
  <1> QED
    BY <1>1, <1>2, <1>3, <1>4, <1>5, <1>6, <1>7, QuietSteps

(* A submission that commits has, for every item it read at its start, a   *)
(* row that still exists and at least one file of its own; none of them    *)
(* lacked a justification when it was read.                                *)
THEOREM SubmissionKeepsWhatItRead == Spec => KeepsWhatItRead
  <1>1. Init => ReadIsCovered
    BY DEF Init, ReadIsCovered, Submitting, Idle
  <1>2. Init => StoreInv
    BY DEF Init, StoreInv, ArtifactsHaveBlobs, StagedHaveBlobs, PathsApart,
           Submitting, Idle
  <1>3. TypeOK /\ ReadIsCovered /\ [Next]_vars => ReadIsCovered'
    BY ReadStaysCovered
  <1>4. TypeOK /\ StoreInv /\ [Next]_vars => StoreInv'
    BY StoreInvStep
  <1> DEFINE Kept == \A w \in Workers : SubmitCommit(w) =>
                       \A i \in Listed(txn[w].view) :
                          /\ txn[w].view[i].text \in Texts
                          /\ items'[i] # NoRow
                          /\ \E p \in artifacts' : p.item = i /\ p.try = txn[w].try
  <1>5. TypeOK /\ ReadIsCovered /\ StoreInv => Kept
    <2> SUFFICES ASSUME TypeOK, ReadIsCovered, StoreInv, NEW w \in Workers,
                        SubmitCommit(w), NEW i \in Listed(txn[w].view)
                 PROVE  /\ txn[w].view[i].text \in Texts
                        /\ items'[i] # NoRow
                        /\ \E p \in artifacts' : p.item = i /\ p.try = txn[w].try
      OBVIOUS
    <2>1. Submitting(w) /\ txn[w].cur = 0 /\ txn[w].todo = {}
      BY DEF SubmitCommit, BetweenItems
    <2>2. i # 0
      BY DEF Listed, ItemIds
    <2>3. PICK p \in txn[w].written : p.item = i
      BY <2>1, <2>2 DEF ReadIsCovered
    <2>4. p.try = txn[w].try /\ items[i] # NoRow
      BY <2>1, <2>3 DEF ReadIsCovered, StoreInv, PathsApart
    <2> QED
      BY <2>1, <2>3, <2>4 DEF ReadIsCovered, SubmitCommit
  <1> QED
    BY <1>1, <1>2, <1>3, <1>4, <1>5, TypeCorrect, PTL DEF Spec, KeepsWhatItRead

-----------------------------------------------------------------------------
(* What a submission that fails leaves behind.                             *)

(* Every file of a running submission is in one of its two lists, and the  *)
(* items of the one that a failure cleans up are behind it.                *)
FilesAreListed ==
    /\ \A p \in blobs : p.try < nextTry
    /\ \A w \in Workers : Submitting(w) =>
         LET t == txn[w] IN
         /\ \A p \in blobs : p.try = t.try => p \in t.made \cup t.written
         /\ \A p \in t.written : p.item \notin t.todo \cup {t.cur}
         /\ t.cur \notin t.todo

(* The part of it about one submission. *)
ListedFor(t) ==
    /\ \A p \in blobs : p.try = t.try => p \in t.made \cup t.written
    /\ \A p \in t.written : p.item \notin t.todo \cup {t.cur}
    /\ t.cur \notin t.todo

LEMMA FewerFilesStayListed ==
    ASSUME FilesAreListed, blobs' \subseteq blobs, nextTry' = nextTry,
           \A v \in Workers : Submitting(v)' => Submitting(v) /\ txn'[v] = txn[v]
    PROVE  FilesAreListed'
  BY DEF FilesAreListed

(* One running submission goes on, with one file more or with none. *)
LEMMA RunningStaysListed ==
    ASSUME FilesAreListed, PathsApart, NEW w \in Workers,
           Submitting(w), Others(w), nextTry' = nextTry,
           txn'[w].try = txn[w].try,
           \A p \in blobs' : p \in blobs \/ p.try = txn[w].try,
           ListedFor(txn[w])'
    PROVE  FilesAreListed'
  <1>1. \A p \in blobs' : p.try < nextTry'
    BY DEF FilesAreListed, PathsApart
  <1>2. ASSUME NEW v \in Workers, Submitting(v)'
        PROVE  ListedFor(txn[v])'
    <2>1. CASE v = w
      BY <2>1
    <2>2. CASE v # w
      <3>1. txn'[v] = txn[v] /\ Submitting(v)
        BY <1>2, <2>2 DEF Others, Submitting
      <3>2. txn[v].try # txn[w].try
        BY <2>2, <3>1 DEF PathsApart
      <3> QED
        BY <3>1, <3>2 DEF FilesAreListed, ListedFor
    <2> QED
      BY <2>1, <2>2
  <1> QED
    BY <1>1, <1>2 DEF FilesAreListed, ListedFor

LEMMA FilesStayListed ==
    ASSUME TypeOK, ReadIsCovered, PathsApart, FilesAreListed, [Next]_vars
    PROVE  FilesAreListed'
  <1>c. \A v \in Workers : Submitting(v) => ListedFor(txn[v])
    BY DEF FilesAreListed, ListedFor
  <1>1. CASE Quiet
    BY <1>1, FewerFilesStayListed DEF Quiet, Submitting
  <1>2. ASSUME NEW w \in Workers, SubmitLoad(w)
        PROVE  FilesAreListed'
    <2>1. /\ Others(w) /\ txn'[w].try = nextTry
          /\ txn'[w].made = {} /\ txn'[w].written = {}
          /\ txn'[w].todo = Listed(items) /\ txn'[w].cur = 0
          /\ nextTry' = nextTry + 1 /\ blobs' = blobs
      BY <1>2, LoadStep DEF SubmitLoad, TypeOK
    <2>2. nextTry \in Nat /\ \A p \in blobs : p.try \in Nat
      BY BoundsAssumption DEF TypeOK, Paths
    <2>3. 0 \notin Listed(items)
      BY DEF Listed, ItemIds
    <2>4. \A p \in blobs' : p.try < nextTry' /\ p.try # nextTry
      BY <2>1, <2>2 DEF FilesAreListed
    <2>5. ASSUME NEW v \in Workers, Submitting(v)'
          PROVE  ListedFor(txn[v])'
      <3>1. CASE v = w
        BY <2>1, <2>3, <2>4, <3>1 DEF ListedFor
      <3>2. CASE v # w
        BY <1>c, <2>1, <2>5, <3>2 DEF Others, Submitting, ListedFor
      <3> QED
        BY <3>1, <3>2
    <2> QED
      BY <2>4, <2>5 DEF FilesAreListed, ListedFor
  <1>3. ASSUME NEW w \in Workers, NEW i \in ItemIds, OpenItem(w, i)
        PROVE  FilesAreListed'
    <2>1. txn[w] \in SubmitTxn /\ Submitting(w) /\ i \in txn[w].todo
      BY <1>3, ShapeOfTxn DEF OpenItem, BetweenItems, Submitting
    <2>2. PICK n \in 0 .. MaxParts :
            txn' = [txn EXCEPT ![w].cur = i, ![w].left = n, ![w].todo = @ \ {i}]
      BY <1>3 DEF OpenItem
    <2>3. txn'[w].cur = i /\ txn'[w].todo = txn[w].todo \ {i}
      BY <2>1, <2>2 DEF SubmitTxn, TypeOK
    <2>4. /\ Others(w) /\ txn'[w].try = txn[w].try
          /\ txn'[w].made = txn[w].made /\ txn'[w].written = txn[w].written
          /\ UNCHANGED <<blobs, nextTry>>
      BY <1>3, OpenOrSkip
    <2>5. ListedFor(txn[w])'
      BY <1>c, <2>1, <2>3, <2>4 DEF ListedFor
    <2> QED
      BY <2>1, <2>4, <2>5, RunningStaysListed
  <1>4. ASSUME NEW w \in Workers, SkipAttachment(w)
        PROVE  FilesAreListed'
    <2>1. txn[w] \in SubmitTxn /\ Submitting(w)
      BY <1>4, ShapeOfTxn DEF SkipAttachment, InItem, Submitting
    <2>2. txn'[w].cur = txn[w].cur /\ txn'[w].todo = txn[w].todo
      BY <1>4, <2>1 DEF SkipAttachment, SubmitTxn, TypeOK
    <2>3. /\ Others(w) /\ txn'[w].try = txn[w].try
          /\ txn'[w].made = txn[w].made /\ txn'[w].written = txn[w].written
          /\ UNCHANGED <<blobs, nextTry>>
      BY <1>4, OpenOrSkip
    <2>4. ListedFor(txn[w])'
      BY <1>c, <2>1, <2>2, <2>3 DEF ListedFor
    <2> QED
      BY <2>1, <2>3, <2>4, RunningStaysListed
  <1>5. ASSUME NEW w \in Workers, StoreAttachment(w) \/ StoreRendered(w)
        PROVE  FilesAreListed'
    <2>1. PICK p \in Paths :
             /\ Submitting(w) /\ Others(w)
             /\ p.try = txn[w].try
             /\ txn'[w].try = txn[w].try
             /\ txn'[w].made = txn[w].made \cup {p}
             /\ txn'[w].written = txn[w].written
             /\ txn'[w].todo = txn[w].todo
             /\ txn'[w].cur = txn[w].cur
             /\ blobs' = blobs \cup {p}
             /\ nextTry' = nextTry
      BY <1>5, StoreStep
    <2>2. ListedFor(txn[w])'
      BY <1>c, <2>1 DEF ListedFor
    <2> QED
      BY <2>1, <2>2, RunningStaysListed
  <1>6. ASSUME NEW w \in Workers, FinishItem(w)
        PROVE  FilesAreListed'
    <2>1. /\ Submitting(w) /\ Others(w)
          /\ txn'[w].try = txn[w].try
          /\ txn'[w].made = {}
          /\ txn'[w].written = txn[w].written \cup txn[w].made
          /\ txn'[w].todo = txn[w].todo
          /\ txn'[w].cur = 0
          /\ UNCHANGED <<blobs, nextTry>>
      BY <1>6, FinishStep
    <2>2. txn[w].todo \subseteq ItemIds /\ 0 \notin ItemIds
      BY <2>1, ShapeOfTxn DEF Submitting, SubmitTxn, ItemIds
    <2>3. \A p \in txn'[w].written : p.item \in ItemIds
      BY <2>1, ShapeOfTxn, SubmitFields DEF Submitting, Paths
    <2>4. \A p \in txn[w].made : p.item = txn[w].cur
      BY <2>1 DEF ReadIsCovered
    <2>5. ListedFor(txn[w])'
      BY <1>c, <2>1, <2>2, <2>3, <2>4 DEF ListedFor
    <2> QED
      BY <2>1, <2>5, RunningStaysListed
  <1>7. ASSUME NEW w \in Workers, SubmitCommit(w) \/ FailOpening(w) \/ FailInItem(w)
        PROVE  FilesAreListed'
    <2>1. /\ Others(w) /\ ~Submitting(w)' /\ nextTry' = nextTry
      BY <1>7, EndStep
    <2>2. blobs' \subseteq blobs
      BY <1>7 DEF SubmitCommit, FailOpening, FailInItem, CleanUp
    <2> QED
      BY <2>1, <2>2, FewerFilesStayListed DEF Others, Submitting
  <1> QED
    BY <1>1, <1>2, <1>3, <1>4, <1>5, <1>6, <1>7, QuietSteps

(* A submission that fails takes no file of another one, and of its own    *)
(* it leaves those of the item it was in the middle of and those the store *)
(* cannot delete, for any number of requests.                              *)
THEOREM EarlierFilesAreCleanedUp == Spec => EarlierItemsAreCleanedUp
  <1>1. Init => ReadIsCovered /\ StoreInv /\ FilesAreListed
    BY DEF Init, ReadIsCovered, FilesAreListed, StoreInv, ArtifactsHaveBlobs,
           StagedHaveBlobs, PathsApart, Submitting, Idle
  <1>2. TypeOK /\ ReadIsCovered /\ StoreInv /\ FilesAreListed /\ [Next]_vars
          => ReadIsCovered' /\ StoreInv' /\ FilesAreListed'
    BY ReadStaysCovered, StoreInvStep, FilesStayListed DEF StoreInv
  <1> DEFINE Cleaned == \A w \in Workers : FailOpening(w) \/ FailInItem(w) =>
               /\ \A p \in blobs \ blobs' : p.try = txn[w].try
               /\ \A p \in blobs' : p.try = txn[w].try =>
                                        p.item = txn[w].cur \/ p \in Stuck
  <1>3. TypeOK /\ ReadIsCovered /\ StoreInv /\ FilesAreListed => Cleaned
    <2> SUFFICES ASSUME TypeOK, ReadIsCovered, StoreInv, FilesAreListed,
                        NEW w \in Workers, FailOpening(w) \/ FailInItem(w)
                 PROVE  /\ \A p \in blobs \ blobs' : p.try = txn[w].try
                        /\ \A p \in blobs' : p.try = txn[w].try =>
                                                 p.item = txn[w].cur \/ p \in Stuck
      OBVIOUS
    <2>1. Submitting(w) /\ blobs' = blobs \ (txn[w].written \ Stuck)
      BY DEF FailOpening, FailInItem, CleanUp, BetweenItems, InItem
    <2>2. \A p \in txn[w].written : p.try = txn[w].try
      BY <2>1 DEF StoreInv, PathsApart
    <2>3. \A p \in blobs : p.try = txn[w].try /\ p.item # txn[w].cur => p \in txn[w].written
      BY <2>1 DEF FilesAreListed, ReadIsCovered
    <2> QED
      BY <2>1, <2>2, <2>3
  <1> QED
    BY <1>1, <1>2, <1>3, TypeCorrect, PTL DEF Spec, EarlierItemsAreCleanedUp

-----------------------------------------------------------------------------
(* One request at a time.                                                  *)

LEMMA NobodyIsCurrent ==
    ASSUME \A v \in Workers : txn[v] = Idle
    PROVE  RequestIsCurrent
  BY DEF RequestIsCurrent, Submitting, Idle

LEMMA NobodyWillBeCurrent ==
    ASSUME \A v \in Workers : txn'[v] = Idle
    PROVE  RequestIsCurrent'
  BY DEF RequestIsCurrent, Submitting, Idle

(* A request that takes a step is the only one there is. *)
LEMMA StepsAlone ==
    ASSUME RequestIsCurrent, NEW w \in Workers, Step(w)
    PROVE  \A v \in Workers \ {w} : txn[v] = Idle
  <1>1. txn[w].op # "idle"
    BY StepCases DEF AddExisting, AddNew, AddMissing, JustifyFinish, RemoveFinish,
       Abort, SubmitLoad, OpenItem, SkipAttachment, StoreAttachment, StoreRendered,
       FinishItem, SubmitCommit, FailOpening, FailInItem, Lose,
       BetweenItems, InItem, Submitting
  <1>2. txn[w] # Idle
    BY <1>1 DEF Idle
  <1> QED
    BY <1>2 DEF RequestIsCurrent

(* A request that begins, and one that ends. *)
LEMMA BeginStaysCurrent ==
    ASSUME TypeOK, NEW w \in Workers, NEW t, Begin(w, t),
           t.op \in {"add", "justify", "remove", "load"}, t.seen = report,
           report' = report
    PROVE  RequestIsCurrent'
  <1>1. txn'[w] = t /\ \A v \in Workers \ {w} : txn'[v] = Idle
    BY DEF Begin, UserRowFree, TypeOK
  <1> QED
    BY <1>1 DEF RequestIsCurrent, Submitting, Idle

LEMMA EndStaysCurrent ==
    ASSUME TypeOK, NEW w \in Workers, \A v \in Workers \ {w} : txn[v] = Idle, End(w)
    PROVE  RequestIsCurrent'
  <1>1. \A v \in Workers : txn'[v] = Idle
    BY DEF End, TypeOK
  <1> QED
    BY <1>1, NobodyWillBeCurrent

(* A submission goes on with the report and the items it has loaded. *)
LEMMA GoingOnStaysCurrent ==
    ASSUME TypeOK, RequestIsCurrent, NEW w \in Workers, Step(w),
           Submitting(w), Submitting(w)', Others(w),
           txn'[w].view = txn[w].view, UNCHANGED <<report, items>>
    PROVE  RequestIsCurrent'
  <1>1. \A v \in Workers \ {w} : txn'[v] = Idle
    BY StepsAlone DEF Others
  <1>2. Ready(items)'
    BY DEF RequestIsCurrent, Ready, Listed
  <1> QED
    BY <1>1, <1>2 DEF RequestIsCurrent, Submitting, Idle

LEMMA RequestStaysCurrent ==
    ASSUME TypeOK, RequestIsCurrent, [Next]_vars
    PROVE  RequestIsCurrent'
  <1>1. ASSUME CreateReport \/ \E b \in Mailboxes : Connect(b) \/ Disconnect(b)
        PROVE  RequestIsCurrent'
    BY <1>1, NobodyWillBeCurrent DEF CreateReport, Connect, Disconnect, UserRowFree
  <1>2. ASSUME NEW w \in Workers, Start(w)
        PROVE  RequestIsCurrent'
    <2>1. ASSUME NEW m \in Messages, NEW text \in Texts \cup {Blank, NoText},
                 AddBegin(w, m, text)
          PROVE  RequestIsCurrent'
      BY <2>1, BeginStaysCurrent DEF AddBegin
    <2>2. ASSUME NEW i \in ItemIds, NEW text \in Texts, JustifyBegin(w, i, text)
          PROVE  RequestIsCurrent'
      BY <2>2, BeginStaysCurrent DEF JustifyBegin
    <2>3. ASSUME NEW i \in ItemIds, RemoveBegin(w, i)
          PROVE  RequestIsCurrent'
      BY <2>3, BeginStaysCurrent DEF RemoveBegin
    <2>4. CASE SubmitBegin(w)
      BY <2>4, BeginStaysCurrent DEF SubmitBegin
    <2> QED
      BY <1>2, <2>1, <2>2, <2>3, <2>4 DEF Start
  <1>3. ASSUME NEW w \in Workers, Step(w)
        PROVE  RequestIsCurrent'
    <2> USE <1>3
    <2>0. \A v \in Workers \ {w} : txn[v] = Idle
      BY StepsAlone
    <2>1. CASE \/ AddExisting(w) \/ AddNew(w) \/ AddMissing(w)
               \/ JustifyFinish(w) \/ RemoveFinish(w) \/ Abort(w)
               \/ SubmitCommit(w) \/ FailOpening(w) \/ FailInItem(w) \/ Lose(w)
      <3>1. End(w)
        BY <2>1 DEF AddExisting, AddNew, AddMissing, JustifyFinish, RemoveFinish,
           Abort, SubmitCommit, FailOpening, FailInItem, CleanUp, Lose
      <3> QED
        BY <2>0, <3>1, EndStaysCurrent
    <2>2. CASE SubmitLoad(w)
      <3>1. \A v \in Workers \ {w} : txn'[v] = Idle
        BY <2>0, <2>2, LoadStep DEF Others
      <3>2. txn'[w].op = "submit" /\ txn'[w].view = items' /\ Ready(items)'
        BY <2>2 DEF SubmitLoad, TypeOK, Ready, Listed
      <3>3. report' = "draft"
        BY <2>2 DEF SubmitLoad, RequestIsCurrent
      <3> QED
        BY <3>1, <3>2, <3>3 DEF RequestIsCurrent, Submitting, Idle
    <2>3. CASE \/ \E i \in ItemIds : OpenItem(w, i)
               \/ SkipAttachment(w) \/ StoreAttachment(w) \/ StoreRendered(w)
               \/ FinishItem(w)
      <3>1. /\ Submitting(w) /\ Submitting(w)' /\ Others(w)
            /\ txn'[w].view = txn[w].view /\ items' = items
        BY <2>3, OpenOrSkip, StoreStep, FinishStep
      <3>2. report' = report
        BY <2>3 DEF OpenItem, SkipAttachment, StoreAttachment, StoreRendered, Store,
           FinishItem
      <3> QED
        BY <3>1, <3>2, GoingOnStaysCurrent
    <2> QED
      BY <2>1, <2>2, <2>3, StepCases
  <1>4. CASE UNCHANGED vars
    BY <1>4 DEF vars, RequestIsCurrent, Submitting, Ready, Listed
  <1> QED
    BY <1>1, <1>2, <1>3, <1>4 DEF Next

(* What every request has read holds until it ends, for any number of      *)
(* requests: the lock on the person's row is all the isolation there is.   *)
THEOREM RequestsAreCurrent == Spec => []RequestIsCurrent
  <1>1. Init => RequestIsCurrent
    BY NobodyIsCurrent DEF Init
  <1>2. TypeOK /\ RequestIsCurrent /\ [Next]_vars => RequestIsCurrent'
    BY RequestStaysCurrent
  <1> QED
    BY <1>1, <1>2, TypeCorrect, PTL DEF Spec

-----------------------------------------------------------------------------
(* A submitted report.                                                     *)

(* Two tables list the same messages with the same justifications. *)
SameRows(old, new) ==
    \A i \in ItemIds :
        /\ (new[i] = NoRow) <=> (old[i] = NoRow)
        /\ old[i] # NoRow => new[i].msg = old[i].msg /\ new[i].text = old[i].text

LEMMA UnlinkedSameRows ==
    ASSUME NEW table \in [ItemIds -> Row \cup {NoRow}], NEW a
    PROVE  SameRows(table, Unlinked(table, a))
  <1> SUFFICES ASSUME NEW i \in ItemIds, table[i] # NoRow, table[i].source = a
               PROVE  LET row == [table[i] EXCEPT !.source = Null] IN
                      row # NoRow /\ row.msg = table[i].msg /\ row.text = table[i].text
    BY DEF SameRows, Unlinked
  <1> QED
    BY DataAssumption DEF Row

(* Steps that edit nothing. *)
LEMMA StepsThatKeepTheRows ==
    ASSUME TypeOK, [Next]_vars,
           \A w \in Workers : ~( \/ AddExisting(w) \/ AddNew(w)
                                 \/ JustifyFinish(w) \/ RemoveFinish(w))
    PROVE  SameRows(items, items')
  <1>1. CASE UNCHANGED items
    BY <1>1 DEF SameRows
  <1>2. ASSUME NEW b \in Mailboxes, Disconnect(b)
        PROVE  SameRows(items, items')
    BY <1>2, UnlinkedSameRows DEF Disconnect, TypeOK
  <1>3. ASSUME NEW w \in Workers,
               \/ AddMissing(w) \/ Abort(w) \/ SubmitLoad(w)
               \/ \E j \in ItemIds : OpenItem(w, j)
               \/ SkipAttachment(w) \/ StoreAttachment(w) \/ StoreRendered(w)
               \/ FinishItem(w) \/ SubmitCommit(w) \/ FailOpening(w)
               \/ FailInItem(w) \/ Lose(w)
        PROVE  UNCHANGED items
    BY <1>3 DEF AddMissing, Abort, SubmitLoad, OpenItem, SkipAttachment,
                StoreAttachment, StoreRendered, Store, FinishItem, SubmitCommit,
                FailOpening, FailInItem, CleanUp, Lose
  <1>4. ASSUME CreateReport \/ (\E b \in Mailboxes : Connect(b))
               \/ (\E w \in Workers : Start(w)) \/ UNCHANGED vars
        PROVE  UNCHANGED items
    BY <1>4 DEF CreateReport, Connect, Start, AddBegin, JustifyBegin, RemoveBegin,
                SubmitBegin, vars
  <1> QED
    BY <1>1, <1>2, <1>3, <1>4, StepCases DEF Next

(* A request that saw a draft sees one still: none edits after the end. *)
LEMMA NoEditsAfterwards ==
    ASSUME RequestIsCurrent, report # "draft", NEW w \in Workers
    PROVE  /\ ~JustifyFinish(w) /\ ~RemoveFinish(w) /\ ~Submitting(w)
           /\ report = "submitted" => ~AddExisting(w) /\ ~AddNew(w)
  BY DEF RequestIsCurrent, JustifyFinish, RemoveFinish, AddExisting, AddNew

LEMMA SubmittedStays ==
    ASSUME TypeOK, RequestIsCurrent, [Next]_vars, report = "submitted"
    PROVE  /\ report' = "submitted"
           /\ artifacts' = artifacts
           /\ SameRows(items, items')
  <1>0. \A w \in Workers : /\ ~JustifyFinish(w) /\ ~RemoveFinish(w) /\ ~Submitting(w)
                           /\ ~AddExisting(w) /\ ~AddNew(w)
    BY NoEditsAfterwards
  <1>1. SameRows(items, items')
    BY <1>0, StepsThatKeepTheRows
  <1>2. ASSUME NEW w \in Workers, Step(w)
        PROVE  report' = "submitted" /\ artifacts' = artifacts
    <2>1. CASE AddMissing(w)
      BY <2>1 DEF AddMissing, RequestIsCurrent, ReportAfter
    <2>2. CASE Abort(w) \/ SubmitLoad(w)
      BY <2>2 DEF Abort, SubmitLoad
    <2> QED
      BY <1>0, <1>2, <2>1, <2>2, StepCases DEF OpenItem, SkipAttachment,
         StoreAttachment, StoreRendered, FinishItem, SubmitCommit, FailOpening,
         FailInItem, Lose, BetweenItems, InItem
  <1>3. ASSUME CreateReport \/ (\E b \in Mailboxes : Connect(b) \/ Disconnect(b))
               \/ (\E w \in Workers : Start(w)) \/ UNCHANGED vars
        PROVE  report' = "submitted" /\ artifacts' = artifacts
    BY <1>3 DEF CreateReport, Connect, Disconnect, Start, AddBegin, JustifyBegin,
                RemoveBegin, SubmitBegin, vars
  <1> QED
    BY <1>1, <1>2, <1>3 DEF Next

(* Once submitted, a report's messages, justifications and files stay,     *)
(* whatever the person asks for and however many requests there are.       *)
THEOREM SubmittedIsFrozen == Spec => Frozen
  <1> DEFINE Kept == report = "submitted" =>
         /\ report' = "submitted"
         /\ artifacts' = artifacts
         /\ \A i \in ItemIds :
              /\ (items'[i] = NoRow) <=> (items[i] = NoRow)
              /\ items[i] # NoRow => /\ items'[i].msg = items[i].msg
                                     /\ items'[i].text = items[i].text
  <1>1. TypeOK /\ RequestIsCurrent /\ [Next]_vars => Kept
    BY SubmittedStays DEF SameRows
  <1> QED
    BY <1>1, TypeCorrect, RequestsAreCurrent, PTL DEF Spec, Frozen

-----------------------------------------------------------------------------
(* The step that submits.                                                  *)

LEMMA OnlyCommitSubmits ==
    ASSUME TypeOK, [Next]_vars, report # "submitted", report' = "submitted"
    PROVE  \E w \in Workers : SubmitCommit(w)
  <1>1. ASSUME NEW w \in Workers, AddExisting(w) \/ AddNew(w) \/ AddMissing(w)
        PROVE  report' # "submitted"
    BY <1>1 DEF AddExisting, AddNew, AddMissing, ReportAfter
  <1>2. ASSUME NEW w \in Workers,
               \/ JustifyFinish(w) \/ RemoveFinish(w) \/ Abort(w) \/ SubmitLoad(w)
               \/ \E i \in ItemIds : OpenItem(w, i)
               \/ SkipAttachment(w) \/ StoreAttachment(w) \/ StoreRendered(w)
               \/ FinishItem(w) \/ FailOpening(w) \/ FailInItem(w) \/ Lose(w)
        PROVE  report' = report
    BY <1>2 DEF JustifyFinish, RemoveFinish, Abort, SubmitLoad, OpenItem,
                SkipAttachment, StoreAttachment, StoreRendered, Store, FinishItem,
                FailOpening, FailInItem, CleanUp, Lose
  <1>3. ASSUME CreateReport \/ (\E b \in Mailboxes : Connect(b) \/ Disconnect(b))
               \/ (\E w \in Workers : Start(w)) \/ UNCHANGED vars
        PROVE  report' # "submitted"
    BY <1>3 DEF CreateReport, Connect, Disconnect, Start, AddBegin, JustifyBegin,
                RemoveBegin, SubmitBegin, vars
  <1> QED
    BY <1>1, <1>2, <1>3, StepCases DEF Next

(* It finds the draft it loaded, and every item has a file of its own. *)
LEMMA CommitFindsAll ==
    ASSUME RequestIsCurrent, ReadIsCovered, NothingHalfSubmitted,
           NEW w \in Workers, SubmitCommit(w)
    PROVE  /\ report = "draft" /\ report' = "submitted"
           /\ Ready(items) /\ items' = items
           /\ artifacts = {} /\ artifacts' = txn[w].written
           /\ \A i \in Listed(items) : \E p \in txn[w].written : p.item = i
           /\ \A p \in txn[w].written : items[p.item] # NoRow
  <1>1. Submitting(w) /\ txn[w].cur = 0 /\ txn[w].todo = {}
    BY DEF SubmitCommit, BetweenItems
  <1>2. report = "draft" /\ txn[w].view = items /\ Ready(items)
    BY <1>1 DEF RequestIsCurrent
  <1>3. artifacts = {} /\ artifacts' = txn[w].written
    BY <1>2 DEF NothingHalfSubmitted, SubmitCommit
  <1>4. 0 \notin Listed(items)
    BY DEF Listed, ItemIds
  <1>5. \A i \in Listed(items) : \E p \in txn[w].written : p.item = i
    BY <1>1, <1>2, <1>4 DEF ReadIsCovered
  <1>6. \A p \in txn[w].written : items[p.item] # NoRow
    BY <1>1 DEF ReadIsCovered
  <1> QED
    BY <1>2, <1>3, <1>5, <1>6 DEF SubmitCommit

LEMMA CompleteStays ==
    ASSUME TypeOK, RequestIsCurrent, ReadIsCovered, NothingHalfSubmitted,
           SubmittedIsComplete, [Next]_vars
    PROVE  SubmittedIsComplete'
  <1> SUFFICES ASSUME report' = "submitted"
               PROVE  /\ Ready(items)'
                      /\ \A i \in Listed(items)' : \E p \in artifacts' : p.item = i
    BY DEF SubmittedIsComplete
  <1>1. CASE report = "submitted"
    <2>1. artifacts' = artifacts /\ SameRows(items, items')
      BY <1>1, SubmittedStays
    <2>2. Listed(items)' = Listed(items) /\ Listed(items) \subseteq ItemIds
      BY <2>1 DEF SameRows, Listed
    <2>3. \A i \in Listed(items) : items'[i].text = items[i].text
      BY <2>1 DEF SameRows, Listed
    <2> QED
      BY <1>1, <2>1, <2>2, <2>3 DEF SubmittedIsComplete, Ready
  <1>2. CASE report # "submitted"
    <2>1. PICK w \in Workers : SubmitCommit(w)
      BY <1>2, OnlyCommitSubmits
    <2>2. /\ Ready(items) /\ items' = items
          /\ \A i \in Listed(items) : \E p \in artifacts' : p.item = i
      BY <2>1, CommitFindsAll
    <2> QED
      BY <2>2 DEF Ready, Listed
  <1> QED
    BY <1>1, <1>2

(* What a submission has read is always covered by what it has done. *)
LEMMA ReadsAreCovered == Spec => []ReadIsCovered
  <1>1. Init => ReadIsCovered
    BY DEF Init, ReadIsCovered, Submitting, Idle
  <1>2. TypeOK /\ ReadIsCovered /\ [Next]_vars => ReadIsCovered'
    BY ReadStaysCovered
  <1> QED
    BY <1>1, <1>2, TypeCorrect, PTL DEF Spec

(* A submitted report has items, each justified and each with a file: the  *)
(* two rules at the top of reports.py, for every value of the constants.   *)
THEOREM SubmittedReportsAreComplete == Spec => []SubmittedIsComplete
  <1>1. Init => SubmittedIsComplete
    BY DEF Init, SubmittedIsComplete
  <1>2. TypeOK /\ RequestIsCurrent /\ ReadIsCovered /\ NothingHalfSubmitted
          /\ SubmittedIsComplete /\ [Next]_vars => SubmittedIsComplete'
    BY CompleteStays
  <1> QED
    BY <1>1, <1>2, TypeCorrect, RequestsAreCurrent, ReadsAreCovered,
       NeverHalfSubmitted, PTL DEF Spec

-----------------------------------------------------------------------------
(* The refinement.                                                         *)

Evidence == {items[p.item].msg : p \in artifacts}

LEMMA SameRowsSameContents ==
    ASSUME SameRows(items, items')
    PROVE  Contents' = Contents
  <1>1. Listed(items)' = Listed(items) /\ Listed(items) \subseteq ItemIds
    BY DEF SameRows, Listed
  <1>2. \A i \in Listed(items) : items'[i].msg = items[i].msg /\ items'[i].text = items[i].text
    BY DEF SameRows, Listed
  <1> QED
    BY <1>1, <1>2 DEF Contents

LEMMA ContentsAreTheItems ==
    /\ \A e \in Contents : \E i \in Listed(items) :
         e.msg = items[i].msg /\ e.text = items[i].text
    /\ \A i \in Listed(items) : \E e \in Contents : e.msg = items[i].msg
  <1> DEFINE entry(i) == [msg |-> items[i].msg, text |-> items[i].text]
  <1>1. \A i : entry(i).msg = items[i].msg /\ entry(i).text = items[i].text
    OBVIOUS
  <1>2. Contents = {entry(i) : i \in Listed(items)}
    BY DEF Contents
  <1> HIDE DEF entry
  <1> QED
    BY <1>1, <1>2

(* A report that has not been created stays as empty as it was. *)
LEMMA AbsentStays ==
    ASSUME TypeOK, RequestIsCurrent, [Next]_vars, report' = "absent"
    PROVE  report = "absent" /\ SameRows(items, items')
  <1>1. ASSUME NEW w \in Workers, AddExisting(w) \/ AddNew(w) \/ AddMissing(w)
        PROVE  FALSE
    BY <1>1 DEF AddExisting, AddNew, AddMissing, RequestIsCurrent, ReportAfter
  <1>2. ASSUME NEW w \in Workers, JustifyFinish(w) \/ RemoveFinish(w)
        PROVE  FALSE
    BY <1>2 DEF JustifyFinish, RemoveFinish, RequestIsCurrent
  <1>3. SameRows(items, items')
    BY <1>1, <1>2, StepsThatKeepTheRows
  <1>4. ASSUME NEW w \in Workers,
               \/ Abort(w) \/ SubmitLoad(w)
               \/ \E i \in ItemIds : OpenItem(w, i)
               \/ SkipAttachment(w) \/ StoreAttachment(w) \/ StoreRendered(w)
               \/ FinishItem(w) \/ SubmitCommit(w)
               \/ FailOpening(w) \/ FailInItem(w) \/ Lose(w)
        PROVE  report' \in {report, "submitted"}
    BY <1>4 DEF Abort, SubmitLoad, OpenItem, SkipAttachment, StoreAttachment,
                StoreRendered, Store, FinishItem, SubmitCommit, FailOpening,
                FailInItem, CleanUp, Lose
  <1>5. ASSUME CreateReport \/ (\E b \in Mailboxes : Connect(b) \/ Disconnect(b))
               \/ (\E w \in Workers : Start(w)) \/ UNCHANGED vars
        PROVE  report' \in {report, "draft"}
    BY <1>5 DEF CreateReport, Connect, Disconnect, Start, AddBegin, JustifyBegin,
                RemoveBegin, SubmitBegin, vars
  <1> QED
    BY <1>1, <1>2, <1>3, <1>4, <1>5, StepCases DEF Next

LEMMA StepKeepsPromise ==
    ASSUME TypeOK, TypeOK', RequestIsCurrent, ReadIsCovered,
           NothingHalfSubmitted, NothingHalfSubmitted', [Next]_vars
    PROVE  [Abstract!PromiseNext]_(Abstract!promise)
  <1>1. CASE report = "submitted"
    <2>1. report' = report /\ artifacts' = artifacts /\ SameRows(items, items')
      BY <1>1, SubmittedStays
    <2>2. \A p \in artifacts : items'[p.item].msg = items[p.item].msg
      BY <2>1 DEF TypeOK, Paths, SameRows
    <2>3. Evidence' = Evidence
      BY <2>1, <2>2 DEF Evidence
    <2> QED
      BY <2>1, <2>3, SameRowsSameContents DEF Evidence, Abstract!promise
  <1>2. CASE report # "submitted" /\ report' = "submitted"
    <2>1. PICK w \in Workers : SubmitCommit(w)
      BY <1>2, OnlyCommitSubmits
    <2>2. /\ report = "draft"
          /\ Ready(items) /\ items' = items
          /\ artifacts' = txn[w].written
          /\ \A i \in Listed(items) : \E p \in txn[w].written : p.item = i
          /\ \A p \in txn[w].written : items[p.item] # NoRow
      BY <2>1, CommitFindsAll
    <2>3. Contents' = Contents
      BY <2>2 DEF Contents, Listed
    <2>4. Contents # {} /\ \A e \in Contents : e.text \in Texts
      BY <2>2, ContentsAreTheItems DEF Ready
    <2>5. \A p \in artifacts' : p.item \in Listed(items)
      BY <2>2 DEF TypeOK, Paths, Listed
    <2>6. Evidence' = {items[i].msg : i \in Listed(items)}
      BY <2>2, <2>5 DEF Evidence
    <2>7. Evidence' = {e.msg : e \in Contents}
      BY <2>6, ContentsAreTheItems
    <2> QED
      BY <1>2, <2>2, <2>3, <2>4, <2>7 DEF Evidence, Abstract!PromiseNext, Abstract!Freeze
  <1>3. CASE report # "submitted" /\ report' # "submitted"
    <2>1. Evidence = {} /\ Evidence' = {}
      BY <1>3 DEF NothingHalfSubmitted, Evidence
    <2>2. CASE report' = "absent"
      BY <2>1, <2>2, AbsentStays, SameRowsSameContents DEF Evidence, Abstract!promise
    <2>3. CASE report' # "absent"
      <3>1. report \in {"absent", "draft"} /\ report' = "draft"
        BY <1>3, <2>3 DEF TypeOK, Status
      <3>2. Contents' \subseteq Abstract!Entry
        <4>1. \A i \in Listed(items)' : items'[i] \in Row
          BY DEF TypeOK, Listed
        <4> QED
          BY <4>1 DEF Contents, Row, Abstract!Entry
      <3> QED
        BY <2>1, <3>1, <3>2 DEF Evidence, Abstract!PromiseNext, Abstract!Edit
    <2> QED
      BY <2>2, <2>3
  <1> QED
    BY <1>1, <1>2, <1>3

(* reports.py implements ReportPromise: every step of every request is an  *)
(* edit of a draft, the one step that freezes a complete report, or        *)
(* nothing that the promise is about.                                      *)
THEOREM ReportsKeepTheirPromise == Spec => KeepsPromise
  <1>1. Init => Abstract!PromiseInit
    BY DEF Init, Abstract!PromiseInit, Contents, Listed
  <1>2. TypeOK /\ TypeOK' /\ RequestIsCurrent /\ ReadIsCovered
          /\ NothingHalfSubmitted /\ NothingHalfSubmitted' /\ [Next]_vars
          => [Abstract!PromiseNext]_(Abstract!promise)
    BY StepKeepsPromise
  <1> QED
    BY <1>1, <1>2, TypeCorrect, RequestsAreCurrent, ReadsAreCovered,
       NeverHalfSubmitted, PTL DEF Spec, KeepsPromise, Abstract!Promise
=============================================================================
