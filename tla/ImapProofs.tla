----------------------------- MODULE ImapProofs -----------------------------
(***************************************************************************)
(* What is proved of Imap for any mailbox, any number of renumberings and  *)
(* any way of answering: states are well typed, what is shown or stored    *)
(* under an identifier is never another message than the one the server    *)
(* gave that identifier to, and an item that has attachments has all that  *)
(* were not passed over.                                                   *)
(***************************************************************************)
EXTENDS Imap, TLAPS

-----------------------------------------------------------------------------
(***************************************************************************)
(* The inductive invariant.                                                *)
(***************************************************************************)

\* The body is asked for only when no attachment is left.
BodyIsLast == request.pc = "body" => request.left = {}

\* The folder agrees with the history, and what is to come has not been given.
FolderAsIssued ==
    /\ \A u \in DOMAIN box :
           u < server.next /\ issued[Id(server.epoch, u)] = box[u]
    /\ \A i \in MessageId :
           (\/ i.uidvalidity = 0
            \/ i.uidvalidity > server.epoch
            \/ i.uidvalidity = server.epoch /\ i.uid >= server.next)
           => issued[i] = Nothing

\* What the connector remembers is the server's, for as long as the connection
\* lives; and a submission has a folder open only where the server has named
\* its UIDVALIDITY.
SessionIsCurrent ==
    /\ imap.state = "auth" => imap.uidvalidity = 0
    /\ imap.state = "selected" =>
           imap.uidvalidity = IF server.announces THEN server.epoch ELSE 0
    /\ request.pc \in {"refs", "attachments", "body"} /\ imap.state = "selected" =>
           server.announces

\* What a header or a file shows, if it shows anything.
Shows(of, id) == of \in {issued[id], Nothing}
HeaderTrue(h) == Shows(h.of, h.id) \/ h.id.uidvalidity = 0

AnswersTrue ==
    /\ \A h \in listed : HeaderTrue(h)
    /\ request.pc \in {"search", "header"} => \A h \in request.out : HeaderTrue(h)
    /\ request.pc \in {"refs", "attachments", "body", "done"} =>
           \A f \in request.produced : Shows(f.of, request.header.id)

IInv ==
    /\ TypeOK
    /\ BodyIsLast
    /\ FolderAsIssued
    /\ SessionIsCurrent
    /\ AnswersTrue

-----------------------------------------------------------------------------
(***************************************************************************)
(* What a fetch returns.                                                   *)
(***************************************************************************)

\* A fetch returns the message that has the UID, or nothing (_fetch_mime).
LEMMA ReadIsHere ==
    ASSUME TypeOK, NEW u \in Uids
    PROVE  /\ Read(u) \in Messages \cup {Nothing}
           /\ Read(u) # Nothing => u \in DOMAIN box /\ Read(u) = box[u]
<1>1. CASE u \notin DOMAIN box
  <2>1. Response(u) = <<>>
    BY <1>1 DEF Response
  <2>2. Ok(Response(u)) = {}
    BY <2>1 DEF Ok
  <2> QED
    BY <2>2 DEF Read
<1>2. CASE u \in DOMAIN box
  <2>1. box[u] \in Messages
    BY <1>2 DEF TypeOK
  <2>2. server.shape \in {"flat", "literal"}
    BY MailboxAssumption DEF TypeOK
  <2>3. \A l \in Ok(Response(u)) : l.of \in {box[u], Nothing}
    <3>1. CASE server.shape = "flat"
      BY <1>2, <3>1 DEF Response, Ok
    <3>2. CASE server.shape = "literal"
      BY <1>2, <3>2 DEF Response, Ok
    <3> QED
      BY <2>2, <3>1, <3>2
  <2>4. CASE \E l \in Ok(Response(u)) : l.of # Nothing
    <3>1. Read(u) = (CHOOSE l \in Ok(Response(u)) : l.of # Nothing).of
      BY <2>4 DEF Read
    <3> QED
      BY <1>2, <2>1, <2>3, <2>4, <3>1
  <2>5. CASE ~ \E l \in Ok(Response(u)) : l.of # Nothing
    BY <2>5 DEF Read
  <2> QED
    BY <2>4, <2>5
<1> QED
  BY <1>1, <1>2

\* A submission that may fetch reads the message its identifier names
\* (_split_id): the comparison of UIDVALIDITY is what this rests on.
LEMMA FetchIsTrue ==
    ASSUME IInv, NEW id \in MessageId, Fetchable(id),
           request.pc \in {"refs", "attachments", "body"}
    PROVE  Shows(Read(id.uid), id)
<1>1. id.uid \in Uids /\ id = Id(id.uidvalidity, id.uid)
  BY DEF MessageId, Id
<1>2. server.announces
  <2>1. CASE id.uidvalidity # imap.uidvalidity
    BY <2>1 DEF Fetchable, Passes, Split, Examined
  <2>2. CASE id.uidvalidity = imap.uidvalidity
    BY <2>2 DEF Fetchable, Split, IInv, SessionIsCurrent
  <2> QED
    BY <2>1, <2>2
<1>3. id.uidvalidity = server.epoch
  <2>1. CASE id.uidvalidity # imap.uidvalidity
    BY <1>2, <2>1 DEF Fetchable, Passes, Split, Examined
  <2>2. CASE id.uidvalidity = imap.uidvalidity
    BY <1>2, <2>2 DEF Fetchable, Split, IInv, SessionIsCurrent
  <2> QED
    BY <2>1, <2>2
<1>4. Read(id.uid) # Nothing => id.uid \in DOMAIN box /\ Read(id.uid) = box[id.uid]
  BY <1>1, ReadIsHere DEF IInv
<1> QED
  BY <1>1, <1>3, <1>4 DEF IInv, FolderAsIssued, Shows

-----------------------------------------------------------------------------
(***************************************************************************)
(* Types.                                                                  *)
(***************************************************************************)

\* A request is told apart by its pc.
LEMMA ShapeOfRequest ==
    ASSUME TypeOK
    PROVE  /\ request.pc \in {"search", "header"} => request \in Searching
           /\ request.pc \in {"refs", "attachments", "body", "done"} =>
                  request \in Submitting
           /\ request.pc \in {"idle", "search", "header", "refs", "attachments",
                             "body", "done"}
  BY DEF TypeOK, None, Searching, Submitting

LEMMA SplitType ==
    ASSUME TypeOK, NEW id \in MessageId
    PROVE  /\ Split(id) \in [state: {"closed", "auth", "selected"},
                             uidvalidity: 0 .. MaxEpoch]
           /\ Examined \in [state: {"closed", "auth", "selected"},
                            uidvalidity: 0 .. MaxEpoch]
  BY MailboxAssumption DEF TypeOK, Split, Examined, Epochs

LEMMA PartsType ==
    ASSUME NEW m \in Messages \cup {Nothing}
    PROVE  PartsOf(m) \in SUBSET Parts
  BY MailboxAssumption DEF PartsOf

LEMMA InitTypes == Init => TypeOK /\ BodyIsLast
<1> SUFFICES ASSUME Init PROVE TypeOK /\ BodyIsLast
  OBVIOUS
<1>1. request.pc = "idle" /\ request = None
  BY DEF Init, None
<1>2. 1 \in Epochs /\ 1 \in 1 .. MaxUid + 1
  BY MailboxAssumption DEF Epochs
<1>3. /\ server \in [epoch: Epochs, next: 1 .. MaxUid + 1, announces: BOOLEAN,
                   shape: Shapes]
  BY <1>2 DEF Init
<1>4. DOMAIN box \subseteq Uids /\ box \in [DOMAIN box -> Messages]
  BY DEF Init
<1>5. issued \in [MessageId -> Messages \cup {Nothing}]
  BY DEF Init
<1>6. imap \in [state: {"closed", "auth", "selected"}, uidvalidity: 0 .. MaxEpoch]
  BY MailboxAssumption DEF Init, Closed
<1> QED
  BY <1>1, <1>3, <1>4, <1>5, <1>6 DEF TypeOK, BodyIsLast, Init

\* What the folder's own changes do to it.
LEMMA ArriveTypes ==
    ASSUME TypeOK, BodyIsLast, NEW m \in Messages, Arrive(m)
    PROVE  TypeOK' /\ BodyIsLast'
<1>1. server.next \in Uids /\ server.epoch \in Epochs
  BY DEF Arrive, TypeOK
<1>2. server' \in [epoch: Epochs, next: 1 .. MaxUid + 1, announces: BOOLEAN,
                  shape: Shapes]
  BY <1>1, MailboxAssumption DEF Arrive, TypeOK, Uids
<1>3. DOMAIN box' \subseteq Uids /\ box' \in [DOMAIN box' -> Messages]
  BY <1>1 DEF Arrive, TypeOK
<1>4. issued' \in [MessageId -> Messages \cup {Nothing}]
  BY DEF Arrive, TypeOK
<1> QED
  BY <1>2, <1>3, <1>4 DEF Arrive, TypeOK, BodyIsLast

LEMMA ExpungeTypes ==
    ASSUME TypeOK, BodyIsLast, NEW u \in Uids, Expunge(u)
    PROVE  TypeOK' /\ BodyIsLast'
<1>1. DOMAIN box' \subseteq Uids /\ box' \in [DOMAIN box' -> Messages]
  BY DEF Expunge, TypeOK
<1> QED
  BY <1>1 DEF Expunge, TypeOK, BodyIsLast

LEMMA RenumberTypes ==
    ASSUME TypeOK, BodyIsLast, Renumber
    PROVE  TypeOK' /\ BodyIsLast'
<1>1. PICK n \in 0 .. MaxUid :
          /\ box' \in [1 .. n -> Renumbered]
          /\ issued' = [i \in MessageId |->
                 IF i.uidvalidity = server.epoch + 1 /\ i.uid \in 1 .. n
                 THEN box'[i.uid] ELSE issued[i]]
          /\ server' = [server EXCEPT !.epoch = @ + 1, !.next = n + 1]
  BY DEF Renumber
<1>2. Renumbered \subseteq Messages
  BY DEF TypeOK, Renumbered
<1>3. server' \in [epoch: Epochs, next: 1 .. MaxUid + 1, announces: BOOLEAN,
                  shape: Shapes]
  <2>1. server.epoch + 1 \in Epochs
    BY MailboxAssumption DEF Renumber, TypeOK, Epochs
  <2>2. n + 1 \in 1 .. MaxUid + 1
    BY MailboxAssumption
  <2> QED
    BY <1>1, <2>1, <2>2 DEF TypeOK
<1>4. DOMAIN box' \subseteq Uids /\ box' \in [DOMAIN box' -> Messages]
  BY <1>1, <1>2, MailboxAssumption DEF Uids
<1>5. issued' \in [MessageId -> Messages \cup {Nothing}]
  <2>1. \A i \in MessageId : i.uid \in 1 .. n => box'[i.uid] \in Messages
    BY <1>1, <1>2
  <2> QED
    BY <1>1, <2>1 DEF TypeOK
<1>6. imap' \in [state: {"closed", "auth", "selected"}, uidvalidity: 0 .. MaxEpoch]
  BY DEF Renumber, TypeOK
<1> QED
  BY <1>3, <1>4, <1>5, <1>6 DEF Renumber, TypeOK, BodyIsLast

LEMMA BrowseTypes ==
    ASSUME TypeOK, BodyIsLast, Search \/ SearchIds \/ FetchHeader \/ SearchDone
    PROVE  TypeOK' /\ BodyIsLast'
<1>1. CASE Search
  <2>1. request' \in Searching /\ request'.pc = "search"
    BY <1>1 DEF Search, Searching
  <2>2. imap' \in [state: {"closed", "auth", "selected"}, uidvalidity: 0 .. MaxEpoch]
    BY <1>1, MailboxAssumption DEF Search, Fresh
  <2> QED
    BY <1>1, <2>1, <2>2 DEF Search, TypeOK, BodyIsLast
<1>2. CASE SearchIds
  <2>1. request \in Searching
    BY <1>2, ShapeOfRequest DEF SearchIds
  <2>2. First(DOMAIN box) \in SUBSET Uids
    BY DEF First, TypeOK
  <2>3. request' \in Searching /\ request'.pc = "header"
    BY <1>2, <2>1, <2>2 DEF SearchIds, Searching
  <2>4. imap' \in [state: {"closed", "auth", "selected"}, uidvalidity: 0 .. MaxEpoch]
    BY <1>2, MailboxAssumption DEF SearchIds, Examined, TypeOK, Epochs
  <2> QED
    BY <1>2, <2>3, <2>4 DEF SearchIds, TypeOK, BodyIsLast
<1>3. CASE FetchHeader
  <2>1. request \in Searching
    BY <1>3, ShapeOfRequest DEF FetchHeader
  <2>2. PICK u \in request.ids :
            request' = [request EXCEPT
                !.ids = @ \ {u},
                !.out = @ \cup {[id |-> Id(imap.uidvalidity, u), of |-> Read(u)]}]
    BY <1>3 DEF FetchHeader
  <2>3. u \in Uids
    BY <2>1, <2>2 DEF Searching
  <2>4. [id |-> Id(imap.uidvalidity, u), of |-> Read(u)] \in Header
    BY <2>3, ReadIsHere DEF Header, MessageId, Id, TypeOK
  <2>5. request' \in Searching /\ request'.pc = "header"
    BY <1>3, <2>1, <2>2, <2>4 DEF FetchHeader, Searching
  <2> QED
    BY <1>3, <2>5 DEF FetchHeader, TypeOK, BodyIsLast
<1>4. CASE SearchDone
  <2>1. request.out \subseteq Header
    BY <1>4, ShapeOfRequest DEF SearchDone, Searching
  <2>2. imap' \in [state: {"closed", "auth", "selected"}, uidvalidity: 0 .. MaxEpoch]
    BY <1>4, MailboxAssumption DEF SearchDone, Closed
  <2> QED
    BY <1>4, <2>1, <2>2 DEF SearchDone, TypeOK, BodyIsLast, None
<1> QED
  BY <1>1, <1>2, <1>3, <1>4

LEMMA SubmitTypes ==
    ASSUME TypeOK, BodyIsLast, NEW h \in Header, Submit(h)
    PROVE  TypeOK' /\ BodyIsLast'
<1>1. request' \in Submitting /\ request'.pc = "refs"
  BY DEF Submit, Submitting
<1>2. imap' \in [state: {"closed", "auth", "selected"}, uidvalidity: 0 .. MaxEpoch]
  BY MailboxAssumption DEF Submit, Fresh
<1> QED
  BY <1>1, <1>2 DEF Submit, TypeOK, BodyIsLast

LEMMA FailTypes ==
    ASSUME TypeOK, BodyIsLast, Fail
    PROVE  TypeOK' /\ BodyIsLast'
<1>1. imap' \in [state: {"closed", "auth", "selected"}, uidvalidity: 0 .. MaxEpoch]
  BY MailboxAssumption DEF Fail, Closed
<1> QED
  BY <1>1 DEF Fail, TypeOK, BodyIsLast, None

LEMMA AttachmentRefsTypes ==
    ASSUME TypeOK, BodyIsLast, AttachmentRefs
    PROVE  TypeOK' /\ BodyIsLast'
<1>1. request \in Submitting
  BY ShapeOfRequest DEF AttachmentRefs
<1>2. request.header.id \in MessageId /\ request.header.id.uid \in Uids
  BY <1>1 DEF Submitting, Header, MessageId
<1> DEFINE refs == PartsOf(Read(request.header.id.uid))
<1>3. refs \in SUBSET Parts
  BY <1>2, ReadIsHere, PartsType
<1>4. request' = [request EXCEPT !.left = refs,
                      !.pc = IF refs = {} THEN "body" ELSE "attachments"]
  BY DEF AttachmentRefs
<1> HIDE DEF refs
<1>5. /\ request' \in Submitting
      /\ request'.pc \in {"body", "attachments"}
      /\ request'.pc = "body" => request'.left = {}
  BY <1>1, <1>3, <1>4 DEF Submitting
<1>6. imap' \in [state: {"closed", "auth", "selected"}, uidvalidity: 0 .. MaxEpoch]
  BY <1>2, SplitType DEF AttachmentRefs
<1> QED
  BY <1>5, <1>6 DEF AttachmentRefs, TypeOK, BodyIsLast

LEMMA ProceedTypes ==
    ASSUME request \in Submitting, NEW left \in SUBSET Parts,
           NEW produced \in SUBSET File, NEW skipped \in SUBSET Parts,
           Proceed(left, produced, skipped)
    PROVE  /\ request' \in Submitting
           /\ request'.pc = "body" => request'.left = {}
           /\ request'.pc = "done" => request'.left = {} /\ request'.produced # {}
  BY DEF Proceed, After, Submitting

LEMMA FetchAttachmentTypes ==
    ASSUME TypeOK, BodyIsLast, NEW p \in Parts, FetchAttachment(p)
    PROVE  TypeOK' /\ BodyIsLast'
<1>1. request \in Submitting
  BY ShapeOfRequest DEF FetchAttachment
<1>2. request.header.id.uid \in Uids
  BY <1>1 DEF Submitting, Header, MessageId
<1> DEFINE m == Read(request.header.id.uid)
<1> DEFINE produced == request.produced \cup
                           {[kind |-> "attachment", part |-> p, of |-> m]}
<1>3. m \in Messages \cup {Nothing}
  BY <1>2, ReadIsHere
<1>4. produced \in SUBSET File
  BY <1>1, <1>3 DEF Submitting, File
<1>5. /\ request.left \ {p} \in SUBSET Parts
      /\ request.skipped \in SUBSET Parts
      /\ request.skipped \cup {p} \in SUBSET Parts
      /\ request.produced \in SUBSET File
  BY <1>1 DEF Submitting
<1>6. \/ Proceed(request.left \ {p}, produced, request.skipped)
      \/ Proceed(request.left \ {p}, request.produced, request.skipped \cup {p})
  BY DEF FetchAttachment
<1>7. /\ request' \in Submitting
      /\ request'.pc = "body" => request'.left = {}
      /\ request'.pc = "done" => request'.left = {} /\ request'.produced # {}
  <2> HIDE DEF produced
  <2> QED
    BY <1>1, <1>4, <1>5, <1>6, ProceedTypes
<1>8. UNCHANGED <<server, box, issued, listed, imap>>
  BY <1>6 DEF FetchAttachment, Proceed
<1> QED
  BY <1>7, <1>8 DEF TypeOK, BodyIsLast

LEMMA FetchBodyTypes ==
    ASSUME TypeOK, BodyIsLast, FetchBody
    PROVE  TypeOK' /\ BodyIsLast'
<1>1. request \in Submitting /\ request.left = {}
  BY ShapeOfRequest DEF FetchBody, BodyIsLast
<1>2. request.header.id.uid \in Uids
  BY <1>1 DEF Submitting, Header, MessageId
<1>3. [kind |-> "message_pdf", part |-> Nothing,
       of |-> Read(request.header.id.uid)] \in File
  BY <1>2, ReadIsHere DEF File
<1>4. /\ request' \in Submitting /\ request'.pc = "done"
      /\ request'.left = {} /\ request'.produced # {}
  BY <1>1, <1>3 DEF FetchBody, Submitting
<1> QED
  BY <1>4 DEF FetchBody, TypeOK, BodyIsLast

LEMMA StepTypes ==
    ASSUME TypeOK, BodyIsLast, [Next]_vars
    PROVE  TypeOK' /\ BodyIsLast'
<1>1. CASE UNCHANGED vars
  BY <1>1 DEF vars, TypeOK, BodyIsLast
<1>2. CASE \/ \E m \in Messages : Arrive(m)
           \/ \E u \in Uids : Expunge(u)
           \/ Renumber
  BY <1>2, ArriveTypes, ExpungeTypes, RenumberTypes
<1>3. CASE Search \/ SearchIds \/ FetchHeader \/ SearchDone
  BY <1>3, BrowseTypes
<1>4. CASE (\E h \in Header : Submit(h)) \/ Fail
  BY <1>4, SubmitTypes, FailTypes
<1>5. CASE AttachmentRefs \/ (\E p \in Parts : FetchAttachment(p)) \/ FetchBody
  BY <1>5, AttachmentRefsTypes, FetchAttachmentTypes, FetchBodyTypes
<1> QED
  BY <1>1, <1>2, <1>3, <1>4, <1>5 DEF Next

\* Every reachable state of Imap is well typed, and a finished item has files.
THEOREM TypeCorrect == Spec => []TypeOK
<1>1. Init => TypeOK /\ BodyIsLast
  BY InitTypes
<1>2. TypeOK /\ BodyIsLast /\ [Next]_vars => TypeOK' /\ BodyIsLast'
  BY StepTypes
<1> QED
  BY <1>1, <1>2, PTL DEF Spec

-----------------------------------------------------------------------------
(***************************************************************************)
(* Meaning.                                                                *)
(***************************************************************************)
LEMMA FolderStep ==
    ASSUME TypeOK, TypeOK', FolderAsIssued, [Next]_vars
    PROVE  FolderAsIssued'
<1>1. CASE UNCHANGED <<server, box, issued>>
  BY <1>1 DEF FolderAsIssued, Id
<1>2. ASSUME NEW m \in Messages, Arrive(m) PROVE FolderAsIssued'
  <2> DEFINE new == Id(server.epoch, server.next)
  <2>1. /\ server.next \in Uids /\ server.epoch \in Epochs
        /\ server'.next = server.next + 1 /\ server'.epoch = server.epoch
    BY <1>2 DEF Arrive, TypeOK
  <2>2. new \in MessageId /\ server.epoch \in Nat \ {0} /\ server.next \in Nat
    BY <2>1, MailboxAssumption DEF MessageId, Id, Epochs, Uids
  <2>3. issued' = [issued EXCEPT ![new] = m]
    BY <1>2 DEF Arrive
  <2>4. ASSUME NEW u \in DOMAIN box'
        PROVE  u < server'.next /\ issued'[Id(server'.epoch, u)] = box'[u]
    <3>1. u \in Uids
      BY DEF TypeOK
    <3>2. Id(server.epoch, u) \in MessageId /\ u \in Nat
      BY <2>1, <3>1, MailboxAssumption DEF MessageId, Id, Epochs, Uids
    <3>3. CASE u = server.next
      BY <1>2, <2>1, <2>2, <2>3, <3>2, <3>3 DEF Arrive, TypeOK
    <3>4. CASE u # server.next
      <4>1. u \in DOMAIN box /\ box'[u] = box[u]
        BY <1>2, <3>4 DEF Arrive
      <4>2. Id(server.epoch, u) # new
        BY <3>4 DEF Id
      <4> QED
        BY <2>1, <2>2, <2>3, <3>2, <4>1, <4>2 DEF FolderAsIssued, TypeOK
    <3> QED
      BY <3>3, <3>4
  <2>5. ASSUME NEW i \in MessageId,
               \/ i.uidvalidity = 0
               \/ i.uidvalidity > server'.epoch
               \/ i.uidvalidity = server'.epoch /\ i.uid >= server'.next
        PROVE  issued'[i] = Nothing
    <3>1. i.uidvalidity \in Nat /\ i.uid \in Nat
      BY MailboxAssumption DEF MessageId, Uids
    <3>2. i # new
      BY <2>1, <2>2, <2>5, <3>1 DEF Id
    <3>3. \/ i.uidvalidity = 0
          \/ i.uidvalidity > server.epoch
          \/ i.uidvalidity = server.epoch /\ i.uid >= server.next
      BY <2>1, <2>2, <2>5, <3>1
    <3> QED
      BY <2>3, <3>2, <3>3 DEF FolderAsIssued, TypeOK
  <2> QED
    BY <2>4, <2>5 DEF FolderAsIssued
<1>3. ASSUME NEW v \in Uids, Expunge(v) PROVE FolderAsIssued'
  BY <1>3 DEF Expunge, FolderAsIssued, Id
<1>4. CASE Renumber
  <2>1. PICK n \in 0 .. MaxUid :
            /\ box' \in [1 .. n -> Renumbered]
            /\ issued' = [i \in MessageId |->
                   IF i.uidvalidity = server.epoch + 1 /\ i.uid \in 1 .. n
                   THEN box'[i.uid] ELSE issued[i]]
            /\ server' = [server EXCEPT !.epoch = @ + 1, !.next = n + 1]
    BY <1>4 DEF Renumber
  <2>2. server'.epoch = server.epoch + 1 /\ server'.next = n + 1
    BY <2>1 DEF TypeOK
  <2>3. server.epoch \in Nat \ {0} /\ server'.epoch \in Epochs /\ n \in Nat
    BY MailboxAssumption DEF TypeOK, Epochs
  <2>4. ASSUME NEW u \in DOMAIN box'
        PROVE  u < server'.next /\ issued'[Id(server'.epoch, u)] = box'[u]
    <3>1. u \in 1 .. n /\ u \in Uids
      BY <2>1 DEF TypeOK
    <3>2. Id(server'.epoch, u) \in MessageId
      BY <2>3, <3>1, MailboxAssumption DEF MessageId, Id, Epochs
    <3> QED
      BY <2>1, <2>2, <3>1, <3>2 DEF Id
  <2>5. ASSUME NEW i \in MessageId,
               \/ i.uidvalidity = 0
               \/ i.uidvalidity > server'.epoch
               \/ i.uidvalidity = server'.epoch /\ i.uid >= server'.next
        PROVE  issued'[i] = Nothing
    <3>1. i.uidvalidity \in Nat /\ i.uid \in Nat
      BY MailboxAssumption DEF MessageId, Uids
    <3>2. ~(i.uidvalidity = server.epoch + 1 /\ i.uid \in 1 .. n)
      BY <2>2, <2>3, <2>5, <3>1
    <3>3. i.uidvalidity = 0 \/ i.uidvalidity > server.epoch
      BY <2>2, <2>3, <2>5, <3>1
    <3> QED
      BY <2>1, <3>2, <3>3 DEF FolderAsIssued
  <2> QED
    BY <2>4, <2>5 DEF FolderAsIssued
<1> QED
  BY <1>1, <1>2, <1>3, <1>4
  DEF Next, vars, Search, SearchIds, FetchHeader, SearchDone, Submit, Fail,
      AttachmentRefs, FetchAttachment, FetchBody

\* An identifier that was given out keeps its message.
LEMMA NamesStay ==
    ASSUME TypeOK, FolderAsIssued, [Next]_vars, NEW id \in MessageId,
           issued[id] # Nothing
    PROVE  issued'[id] = issued[id]
<1>0. id.uidvalidity \in Nat /\ id.uid \in Nat
  BY MailboxAssumption DEF MessageId, Uids
<1>1. /\ id.uidvalidity # 0
      /\ ~(id.uidvalidity > server.epoch)
      /\ ~(id.uidvalidity = server.epoch /\ id.uid >= server.next)
  BY DEF FolderAsIssued
<1>2. server.epoch \in Nat /\ server.next \in Nat
  BY MailboxAssumption DEF TypeOK, Epochs
<1>3. ASSUME NEW m \in Messages, Arrive(m) PROVE issued'[id] = issued[id]
  BY <1>0, <1>1, <1>2, <1>3 DEF Arrive, Id, TypeOK
<1>4. CASE Renumber
  BY <1>0, <1>1, <1>2, <1>4 DEF Renumber
<1>5. CASE UNCHANGED issued
  BY <1>5
<1> QED
  BY <1>3, <1>4, <1>5
  DEF Next, vars, Expunge, Search, SearchIds, FetchHeader, SearchDone, Submit, Fail,
      AttachmentRefs, FetchAttachment, FetchBody

LEMMA SessionStep ==
    ASSUME TypeOK, SessionIsCurrent, [Next]_vars
    PROVE  SessionIsCurrent'
<1>1. CASE UNCHANGED vars
  BY <1>1 DEF vars, SessionIsCurrent
<1>2. ASSUME NEW m \in Messages, Arrive(m) PROVE SessionIsCurrent'
  BY <1>2 DEF Arrive, SessionIsCurrent, TypeOK
<1>3. ASSUME NEW u \in Uids, Expunge(u) PROVE SessionIsCurrent'
  BY <1>3 DEF Expunge, SessionIsCurrent
<1>4. CASE Renumber
  <2>1. imap'.state = "closed"
    BY <1>4 DEF Renumber, TypeOK
  <2> QED
    BY <2>1 DEF SessionIsCurrent
<1>5. CASE Search
  BY <1>5 DEF Search, SessionIsCurrent, Fresh
<1>6. CASE SearchIds
  <2>1. request'.pc = "header"
    BY <1>6, ShapeOfRequest DEF SearchIds, Searching
  <2> QED
    BY <1>6, <2>1 DEF SearchIds, SessionIsCurrent, Examined
<1>7. CASE FetchHeader
  <2>1. request'.pc = request.pc
    BY <1>7, ShapeOfRequest DEF FetchHeader, Searching
  <2> QED
    BY <1>7, <2>1 DEF FetchHeader, SessionIsCurrent
<1>8. CASE SearchDone \/ Fail
  BY <1>8 DEF SearchDone, Fail, SessionIsCurrent, Closed
<1>9. ASSUME NEW h \in Header, Submit(h) PROVE SessionIsCurrent'
  BY <1>9 DEF Submit, SessionIsCurrent, Fresh
<1>10. CASE AttachmentRefs
  <2> DEFINE id == request.header.id
  <2>1. Fetchable(id) /\ imap' = Split(id) /\ UNCHANGED server
    BY <1>10 DEF AttachmentRefs
  <2>2. CASE id.uidvalidity # imap.uidvalidity
    BY <2>1, <2>2
    DEF Fetchable, Passes, Split, Examined, SessionIsCurrent
  <2>3. CASE id.uidvalidity = imap.uidvalidity
    BY <1>10, <2>1, <2>3
    DEF Fetchable, Split, SessionIsCurrent, AttachmentRefs
  <2> QED
    BY <2>2, <2>3
<1>11. ASSUME NEW p \in Parts, FetchAttachment(p) PROVE SessionIsCurrent'
  BY <1>11 DEF FetchAttachment, Proceed, SessionIsCurrent
<1>12. CASE FetchBody
  BY <1>12 DEF FetchBody, SessionIsCurrent
<1> QED
  BY <1>1, <1>2, <1>3, <1>4, <1>5, <1>6, <1>7, <1>8, <1>9, <1>10, <1>11, <1>12 DEF Next

\* What was true of a header or a file stays true of it.
LEMMA ShowsStays ==
    ASSUME TypeOK, FolderAsIssued, [Next]_vars, NEW id \in MessageId, NEW of,
           Shows(of, id)
    PROVE  Shows(of, id)'
  BY NamesStay DEF Shows

LEMMA HeaderStays ==
    ASSUME TypeOK, FolderAsIssued, [Next]_vars, NEW h \in Header, HeaderTrue(h)
    PROVE  HeaderTrue(h)'
<1>1. h.id \in MessageId
  BY DEF Header
<1> QED
  BY <1>1, ShowsStays DEF HeaderTrue

LEMMA AnswersStep ==
    ASSUME IInv, [Next]_vars
    PROVE  AnswersTrue'
<1> USE DEF IInv
<1>1. ASSUME NEW h \in listed PROVE HeaderTrue(h)'
  BY HeaderStays DEF TypeOK, AnswersTrue
<1>2. ASSUME NEW h \in request.out, request.pc \in {"search", "header"}
      PROVE  HeaderTrue(h)'
  <2>1. h \in Header
    BY <1>2, ShapeOfRequest DEF Searching
  <2> QED
    BY <1>2, <2>1, HeaderStays DEF AnswersTrue
<1>3. ASSUME NEW f \in request.produced,
             request.pc \in {"refs", "attachments", "body", "done"}
      PROVE  f.of \in {issued'[request.header.id], Nothing}
  <2>1. request.header.id \in MessageId
    BY <1>3, ShapeOfRequest DEF Submitting, Header
  <2> QED
    BY <1>3, <2>1, NamesStay DEF AnswersTrue, Shows
<1>4. CASE UNCHANGED <<request, listed>>
  BY <1>1, <1>2, <1>3, <1>4 DEF AnswersTrue, Shows
<1>5. CASE Search
  BY <1>1, <1>5 DEF Search, AnswersTrue
<1>6. CASE SearchIds
  <2>1. request \in Searching
    BY <1>6, ShapeOfRequest DEF SearchIds
  <2>2. request'.pc = "header" /\ request'.out = request.out
    BY <1>6, <2>1 DEF SearchIds, Searching
  <2> QED
    BY <1>1, <1>2, <1>6, <2>2 DEF SearchIds, AnswersTrue
<1>7. CASE FetchHeader
  <2>1. request \in Searching
    BY <1>7, ShapeOfRequest DEF FetchHeader
  <2>2. PICK u \in request.ids :
            request' = [request EXCEPT
                !.ids = @ \ {u},
                !.out = @ \cup {[id |-> Id(imap.uidvalidity, u), of |-> Read(u)]}]
    BY <1>7 DEF FetchHeader
  <2> PICK new : new = [id |-> Id(imap.uidvalidity, u), of |-> Read(u)]
    OBVIOUS
  <2>3. request'.out = request.out \cup {new} /\ request'.pc = "header"
    BY <1>7, <2>1, <2>2 DEF FetchHeader, Searching
  <2>4. new.id \in MessageId /\ u \in Uids
    BY <2>1, <2>2 DEF MessageId, Id, TypeOK, Searching
  <2>5. CASE ~server.announces
    BY <1>1, <1>2, <1>7, <2>3, <2>5
    DEF FetchHeader, AnswersTrue, HeaderTrue, SessionIsCurrent, Id
  <2>6. CASE server.announces
    <3>1. Read(u) # Nothing => u \in DOMAIN box /\ Read(u) = box[u]
      BY <2>4, ReadIsHere
    <3>2. imap.uidvalidity = server.epoch
      BY <1>7, <2>6 DEF FetchHeader, SessionIsCurrent
    <3>3. new.of \in {issued[new.id], Nothing}
      BY <3>1, <3>2 DEF FolderAsIssued
    <3>4. issued' = issued /\ listed' = listed
      BY <1>7 DEF FetchHeader
    <3>5. HeaderTrue(new)'
      BY <3>3, <3>4 DEF HeaderTrue, Shows
    <3> QED
      BY <1>1, <1>2, <1>7, <2>3, <3>4, <3>5 DEF AnswersTrue, FetchHeader
  <2> QED
    BY <2>5, <2>6
<1>8. CASE SearchDone
  <2>1. request'.pc = "idle" /\ listed' = listed \cup request.out
    BY <1>8 DEF SearchDone, None
  <2> QED
    BY <1>1, <1>2, <1>8, <2>1 DEF SearchDone, AnswersTrue
<1>9. CASE Fail
  BY <1>1, <1>9 DEF Fail, AnswersTrue, None
<1>10. ASSUME NEW h \in Header, Submit(h) PROVE AnswersTrue'
  BY <1>1, <1>10 DEF Submit, AnswersTrue
<1>11. CASE AttachmentRefs
  <2>1. request \in Submitting
    BY <1>11, ShapeOfRequest DEF AttachmentRefs
  <2>2. /\ request'.produced = request.produced /\ request'.header = request.header
        /\ request'.pc \in {"body", "attachments"} /\ listed' = listed
    BY <1>11, <2>1 DEF AttachmentRefs, Submitting
  <2> QED
    BY <1>1, <1>3, <1>11, <2>2 DEF AttachmentRefs, AnswersTrue, Shows
<1>12. ASSUME NEW p \in Parts, FetchAttachment(p) PROVE AnswersTrue'
  <2> DEFINE m == Read(request.header.id.uid)
  <2> DEFINE new == [kind |-> "attachment", part |-> p, of |-> m]
  <2>1. request \in Submitting
    BY <1>12, ShapeOfRequest DEF FetchAttachment
  <2>2. request.header.id \in MessageId
    BY <2>1 DEF Submitting, Header
  <2>3. Shows(m, request.header.id)
    BY <1>12, <2>2, FetchIsTrue DEF FetchAttachment
  <2>4. /\ request'.produced \subseteq request.produced \cup {new}
        /\ request'.header = request.header
        /\ request'.pc \in {"attachments", "body", "done"}
        /\ issued' = issued /\ listed' = listed
    BY <1>12, <2>1 DEF FetchAttachment, Proceed, After, Submitting
  <2>5. new.of = m
    OBVIOUS
  <2> HIDE DEF new, m
  <2> QED
    BY <1>1, <1>3, <1>12, <2>3, <2>4, <2>5 DEF FetchAttachment, AnswersTrue, Shows
<1>13. CASE FetchBody
  <2> DEFINE m == Read(request.header.id.uid)
  <2>1. request \in Submitting
    BY <1>13, ShapeOfRequest DEF FetchBody
  <2>2. request.header.id \in MessageId
    BY <2>1 DEF Submitting, Header
  <2>3. Shows(m, request.header.id)
    BY <1>13, <2>2, FetchIsTrue DEF FetchBody
  <2>4. /\ request'.produced = {[kind |-> "message_pdf", part |-> Nothing, of |-> m]}
        /\ request'.header = request.header /\ request'.pc = "done"
        /\ issued' = issued /\ listed' = listed
    BY <1>13, <2>1 DEF FetchBody, Submitting
  <2> HIDE DEF m
  <2> QED
    BY <1>1, <2>3, <2>4 DEF AnswersTrue, Shows
<1> QED
  BY <1>4, <1>5, <1>6, <1>7, <1>8, <1>9, <1>10, <1>11, <1>12, <1>13
  DEF Next, vars, Arrive, Expunge, Renumber

LEMMA InitMeaning == Init => FolderAsIssued /\ SessionIsCurrent /\ AnswersTrue
<1> SUFFICES ASSUME Init PROVE FolderAsIssued /\ SessionIsCurrent /\ AnswersTrue
  OBVIOUS
<1>1. FolderAsIssued
  BY DEF Init, FolderAsIssued
<1>2. SessionIsCurrent
  BY DEF Init, SessionIsCurrent, Closed
<1>3. AnswersTrue
  BY DEF Init, AnswersTrue, None
<1> QED
  BY <1>1, <1>2, <1>3

LEMMA InitIInv == Init => IInv
  BY InitTypes, InitMeaning DEF IInv

LEMMA StepIInv ==
    ASSUME IInv, [Next]_vars
    PROVE  IInv'
<1>1. TypeOK' /\ BodyIsLast'
  BY StepTypes DEF IInv
<1>2. FolderAsIssued'
  BY <1>1, FolderStep DEF IInv
<1>3. SessionIsCurrent'
  BY SessionStep DEF IInv
<1>4. AnswersTrue'
  BY AnswersStep
<1> QED
  BY <1>1, <1>2, <1>3, <1>4 DEF IInv

\* Under the identifier of a message the program shows and stores that message
\* or an empty page, whatever is delivered, expunged and renumbered between
\* browsing and submitting (_split_id).
THEOREM NeverMixedUp == Spec => []NeverAnotherMessage
<1>1. IInv => NeverAnotherMessage
  BY DEF IInv, AnswersTrue, HeaderTrue, Shows, NeverAnotherMessage, Named, Stored
<1> QED
  BY <1>1, InitIInv, StepIInv, PTL DEF Spec

-----------------------------------------------------------------------------
(***************************************************************************)
(* Completeness.                                                           *)
(***************************************************************************)

\* Once a submission has seen attachments, or has stored one, its identifier
\* names a message, and each attachment of that message is still to come, has
\* been passed over or is stored.  The count starts from what the server has
\* then (attachment_refs) and goes on from what it has at each fetch.
Stores(p) == \E f \in request.produced : f.part = p
Accounted ==
    /\ Named(request.header.id) \in Messages
    /\ \A p \in AttachmentsOf[Named(request.header.id)] :
           p \in request.left \/ p \in request.skipped \/ Stores(p)

PartsAccountedFor ==
    /\ request.pc = "refs" => request.produced = {}
    /\ /\ request.pc \in {"attachments", "body", "done"}
       /\ request.left # {} \/ \E f \in request.produced : f.kind = "attachment"
       => Accounted

LEMMA ReadIsNamed ==
    ASSUME IInv, request \in Submitting, Fetchable(request.header.id),
           request.pc \in {"refs", "attachments", "body"},
           PartsOf(Read(request.header.id.uid)) # {}
    PROVE  /\ Named(request.header.id) \in Messages
           /\ PartsOf(Read(request.header.id.uid)) =
                  AttachmentsOf[Named(request.header.id)]
<1>1. request.header.id \in MessageId
  BY DEF Submitting, Header
<1>2. Read(request.header.id.uid) # Nothing
  BY DEF PartsOf
<1>3. Read(request.header.id.uid) = Named(request.header.id)
  BY <1>1, <1>2, FetchIsTrue DEF Shows, Named
<1>4. Named(request.header.id) \in Messages
  BY <1>1, <1>2, <1>3 DEF Named, IInv, TypeOK
<1> QED
  BY <1>2, <1>3, <1>4 DEF PartsOf

LEMMA FetchAttachmentAccounts ==
    ASSUME IInv, PartsAccountedFor, NEW p \in Parts, FetchAttachment(p)
    PROVE  PartsAccountedFor'
<1> DEFINE new == [kind |-> "attachment", part |-> p,
                   of |-> Read(request.header.id.uid)]
<1>1. request \in Submitting
  BY ShapeOfRequest DEF FetchAttachment, IInv
<1>2. Accounted /\ p \in request.left
  BY DEF FetchAttachment, PartsAccountedFor
<1>3. \/ Proceed(request.left \ {p}, request.produced \cup {new}, request.skipped)
      \/ Proceed(request.left \ {p}, request.produced, request.skipped \cup {p})
  BY DEF FetchAttachment
<1>4. new.part = p
  OBVIOUS
<1> HIDE DEF new
<1>5. /\ request'.header = request.header /\ request'.left = request.left \ {p}
      /\ request'.pc # "refs"
      /\ \/ /\ request'.produced = request.produced \cup {new}
            /\ request'.skipped = request.skipped
         \/ /\ request'.produced = request.produced
            /\ request'.skipped = request.skipped \cup {p}
  BY <1>1, <1>3 DEF Proceed, After, Submitting
<1>6. issued' = issued
  BY DEF FetchAttachment
<1>7. \A q : Stores(q) => Stores(q)'
  BY <1>5 DEF Stores
<1>8. p \in request'.skipped \/ Stores(p)'
  BY <1>4, <1>5 DEF Stores
<1>9. Accounted'
  BY <1>2, <1>5, <1>6, <1>7, <1>8 DEF Accounted, Named
<1> QED
  BY <1>5, <1>9 DEF PartsAccountedFor

LEMMA PartsStep ==
    ASSUME IInv, PartsAccountedFor, [Next]_vars
    PROVE  PartsAccountedFor'
<1>1. CASE UNCHANGED request
  <2>1. Accounted /\ request \in Submitting => Accounted'
    <3> SUFFICES ASSUME Accounted, request \in Submitting PROVE Accounted'
      OBVIOUS
    <3>1. request.header.id \in MessageId
      BY DEF Submitting, Header
    <3>2. issued[request.header.id] # Nothing
      BY MailboxAssumption DEF Accounted, Named
    <3>3. issued'[request.header.id] = issued[request.header.id]
      BY <3>1, <3>2, NamesStay DEF IInv
    <3> QED
      BY <1>1, <3>3 DEF Accounted, Named, Stores
  <2>2. request.pc \in {"attachments", "body", "done"} => request \in Submitting
    BY ShapeOfRequest DEF IInv
  <2> QED
    BY <1>1, <2>1, <2>2 DEF PartsAccountedFor
<1>2. CASE Search \/ SearchIds \/ FetchHeader \/ SearchDone \/ Fail
  <2>1. request.pc \in {"search", "header"} => request \in Searching
    BY ShapeOfRequest DEF IInv
  <2>2. request'.pc \in {"idle", "search", "header"}
    <3>1. CASE Search \/ SearchDone \/ Fail
      BY <3>1 DEF Search, SearchDone, Fail, None
    <3>2. CASE SearchIds
      BY <2>1, <3>2 DEF SearchIds, Searching
    <3>3. CASE FetchHeader
      BY <2>1, <3>3 DEF FetchHeader, Searching
    <3> QED
      BY <1>2, <3>1, <3>2, <3>3
  <2> QED
    BY <2>2 DEF PartsAccountedFor
<1>3. ASSUME NEW h \in Header, Submit(h) PROVE PartsAccountedFor'
  BY <1>3 DEF Submit, PartsAccountedFor
<1>4. CASE AttachmentRefs
  <2> DEFINE refs == PartsOf(Read(request.header.id.uid))
  <2>1. request \in Submitting /\ request.produced = {}
    BY <1>4, ShapeOfRequest DEF AttachmentRefs, IInv, PartsAccountedFor
  <2>2. refs # {} => /\ Named(request.header.id) \in Messages
                     /\ refs = AttachmentsOf[Named(request.header.id)]
    BY <1>4, <2>1, ReadIsNamed DEF AttachmentRefs
  <2>3. request' = [request EXCEPT !.left = refs,
                      !.pc = IF refs = {} THEN "body" ELSE "attachments"]
    BY <1>4 DEF AttachmentRefs
  <2> HIDE DEF refs
  <2>4. /\ request'.header = request.header /\ request'.left = refs
        /\ request'.produced = {} /\ request'.pc # "refs"
    BY <2>1, <2>3 DEF Submitting
  <2>5. issued' = issued
    BY <1>4 DEF AttachmentRefs
  <2> QED
    BY <2>2, <2>4, <2>5 DEF PartsAccountedFor, Accounted, Named
<1>5. ASSUME NEW p \in Parts, FetchAttachment(p) PROVE PartsAccountedFor'
  BY <1>5, FetchAttachmentAccounts
<1>6. CASE FetchBody
  <2>1. request \in Submitting /\ request.left = {}
    BY <1>6, ShapeOfRequest DEF FetchBody, IInv, BodyIsLast
  <2>2. /\ request'.left = {} /\ request'.pc = "done"
        /\ \A f \in request'.produced : f.kind = "message_pdf"
    BY <1>6, <2>1 DEF FetchBody, Submitting
  <2> QED
    BY <2>2 DEF PartsAccountedFor
<1> QED
  BY <1>1, <1>2, <1>3, <1>4, <1>5, <1>6
  DEF Next, vars, Arrive, Expunge, Renumber

\* An item whose submission went through with attachments has all of those the
\* selected message has, but for the ones that were passed over as unusable:
\* whatever was expunged, delivered or renumbered between two of its fetches
\* (fetch_attachment, materialize_item).
THEOREM NothingLeftOut == Spec => []AllItsAttachments
<1>1. Init => IInv /\ PartsAccountedFor
  <2>1. Init => PartsAccountedFor
    BY DEF Init, PartsAccountedFor, None
  <2> QED
    BY <2>1, InitIInv
<1>2. IInv /\ PartsAccountedFor /\ [Next]_vars => IInv' /\ PartsAccountedFor'
  BY StepIInv, PartsStep
<1>3. IInv /\ PartsAccountedFor => AllItsAttachments
  <2> SUFFICES ASSUME IInv, PartsAccountedFor, request.pc = "done",
                      \E f \in request.produced : f.kind = "attachment"
               PROVE  \A p \in AttachmentsOf[Named(request.header.id)] :
                          p \in request.skipped \/ Stores(p)
    BY DEF AllItsAttachments, Stored, Stores
  <2>1. request.left = {}
    BY DEF IInv, TypeOK
  <2> QED
    BY <2>1 DEF PartsAccountedFor, Accounted
<1> QED
  BY <1>1, <1>2, <1>3, PTL DEF Spec
=============================================================================
