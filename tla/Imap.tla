-------------------------------- MODULE Imap --------------------------------
(***************************************************************************)
(* Reading a mailbox over IMAP (connectors/imap.py): a browse lists        *)
(* headers, and a submission, any time later and over a new connection,    *)
(* fetches what one of them named.  Meanwhile the owner and the server     *)
(* change the folder.                                                      *)
(*                                                                         *)
(* A message's identifier is UIDVALIDITY:UID.  The server never gives the  *)
(* same pair to two messages (RFC 3501, 2.3.1.1), and closes the           *)
(* connections to a folder it renumbers.  The folder is INBOX, the only    *)
(* one whose messages can be added to a report.  A header is known by its  *)
(* message; a message by the attachments it has, receipt media all of      *)
(* them.  The second fetch of a browse, for the attachments it shows, and  *)
(* the criteria of the search are left out.                                *)
(***************************************************************************)
EXTENDS Integers, Sequences, FiniteSets

CONSTANTS
    Messages,
    Parts,        \* the attachments a message may have
    AttachmentsOf,
    Nothing,      \* what is read where there is no message
    Shapes,       \* how responses reach the connector, see Response
    Limit,        \* query.limit, the headers of one browse
    MaxUid, MaxEpoch   \* bounds: UIDs given and renumberings

ASSUME MailboxAssumption ==
    /\ Nothing \notin Messages
    /\ AttachmentsOf \in [Messages -> SUBSET Parts]
    /\ Shapes \subseteq {"flat", "literal"}
    /\ Limit \in Nat
    /\ MaxUid \in Nat
    /\ MaxEpoch \in Nat \ {0}

Uids == 1 .. MaxUid
Epochs == 1 .. MaxEpoch

\* Epoch 0 is the connector's "0", before it has seen a UIDVALIDITY.
MessageId == [uidvalidity: 0 .. MaxEpoch, uid: Uids]
Header == [id: MessageId, of: Messages \cup {Nothing}]
File == [kind: {"attachment", "message_pdf"}, part: Parts \cup {Nothing},
         of: Messages \cup {Nothing}]

VARIABLES
    server,  \* [epoch, next, announces, shape]: renumberings, UIDs, habits
    box,     \* the folder: the message that each UID has
    issued,  \* history: the message that each identifier was given to
    imap,    \* the connector: the connection's state, and its _uidvalidity
    request, \* what the connector is asked, and what it has answered so far
    listed   \* the headers that browses have returned

vars == <<server, box, issued, imap, request, listed>>

None == [pc |-> "idle"]
Idle == request.pc \in {"idle", "done"}

Searching == [pc: {"search", "header"}, ids: SUBSET Uids, out: SUBSET Header]
Submitting == [pc: {"refs", "attachments", "body", "done"}, header: Header,
               left: SUBSET Parts, produced: SUBSET File, skipped: SUBSET Parts]

TypeOK ==
    /\ server \in [epoch: Epochs, next: 1 .. MaxUid + 1, announces: BOOLEAN,
                   shape: Shapes]
    /\ DOMAIN box \subseteq Uids /\ box \in [DOMAIN box -> Messages]
    /\ issued \in [MessageId -> Messages \cup {Nothing}]
    /\ imap \in [state: {"closed", "auth", "selected"},
                 uidvalidity: 0 .. MaxEpoch]
    /\ request \in {None} \cup Searching \cup Submitting
    /\ request.pc = "done" => request.left = {} /\ request.produced # {}
    /\ listed \subseteq Header

Fresh == [state |-> "auth", uidvalidity |-> 0]
Closed == [state |-> "closed", uidvalidity |-> 0]

Init ==
    /\ server \in [epoch: {1}, next: {1}, announces: BOOLEAN, shape: Shapes]
    /\ box = [u \in {} |-> Nothing]
    /\ issued = [i \in MessageId |-> Nothing]
    /\ imap = Closed
    /\ request = None
    /\ listed = {}

-----------------------------------------------------------------------------
(***************************************************************************)
(* The folder.                                                             *)
(***************************************************************************)
Id(epoch, u) == [uidvalidity |-> epoch, uid |-> u]

Arrive(m) ==
    /\ server.next \in Uids
    /\ \A i \in MessageId : issued[i] # m
    /\ box' = [u \in DOMAIN box \cup {server.next} |->
                   IF u = server.next THEN m ELSE box[u]]
    /\ issued' = [issued EXCEPT ![Id(server.epoch, server.next)] = m]
    /\ server' = [server EXCEPT !.next = @ + 1]
    /\ UNCHANGED <<imap, request, listed>>

Expunge(u) ==
    /\ u \in DOMAIN box
    /\ box' = [v \in DOMAIN box \ {u} |-> box[v]]
    /\ UNCHANGED <<server, issued, imap, request, listed>>

Renumbered == {box[u] : u \in DOMAIN box}

\* The folder is rebuilt: a new UIDVALIDITY, and the messages numbered anew.
Renumber ==
    /\ server.epoch < MaxEpoch
    /\ \E n \in 0 .. MaxUid :
           /\ n = Cardinality(Renumbered)
           /\ box' \in [1 .. n -> Renumbered]
           /\ \A m \in Renumbered : \E u \in 1 .. n : box'[u] = m
           /\ issued' = [i \in MessageId |->
                  IF i.uidvalidity = server.epoch + 1 /\ i.uid \in 1 .. n
                  THEN box'[i.uid] ELSE issued[i]]
           /\ server' = [server EXCEPT !.epoch = @ + 1, !.next = n + 1]
    /\ imap' = [imap EXCEPT !.state = "closed"]
    /\ UNCHANGED <<request, listed>>

-----------------------------------------------------------------------------
(***************************************************************************)
(* What imaplib returns and what the connector makes of it.                *)
(***************************************************************************)

\* A FETCH of a UID that is gone is answered with OK and no data.  Otherwise
\* "flat" is a message as one bytes object, the way the tests' FakeImap answers;
\* "literal" is what imaplib.IMAP4_SSL makes of a literal, a pair of envelope
\* and message, and then the rest of the response as bytes.
Response(u) ==
    CASE u \notin DOMAIN box -> <<>>
      [] u \in DOMAIN box /\ server.shape = "flat" ->
             <<[pair |-> FALSE, of |-> box[u]]>>
      [] u \in DOMAIN box /\ server.shape = "literal" ->
             <<[pair |-> TRUE, of |-> box[u]], [pair |-> FALSE, of |-> Nothing]>>

\* _ok keeps what is bytes, and not the pairs.
Ok(response) == {response[k] : k \in {j \in DOMAIN response : ~response[j].pair}}

\* _fetch_mime, and the join of _fetch_header: what the kept lines hold.
Read(u) ==
    LET lines == Ok(Response(u))
    IN  IF \E l \in lines : l.of # Nothing
        THEN (CHOOSE l \in lines : l.of # Nothing).of
        ELSE Nothing

\* _examine: a response without UIDVALIDITY leaves what was there.
Examined ==
    [state |-> "selected",
     uidvalidity |-> IF server.announces THEN server.epoch ELSE imap.uidvalidity]

\* _split_id: the connector after it, and whether it lets the identifier pass.
Split(id) == IF id.uidvalidity # imap.uidvalidity THEN Examined ELSE imap

(* Mutant: any identifier passes once the folder is selected. *)
PassesAny(id) == Split(id).state = "selected"

Passes(id) == Split(id).uidvalidity = id.uidvalidity

-----------------------------------------------------------------------------
(***************************************************************************)
(* Browsing.                                                               *)
(***************************************************************************)
Search ==
    /\ Idle
    /\ imap' = Fresh
    /\ request' = [pc |-> "search", ids |-> {}, out |-> {}]
    /\ UNCHANGED <<server, box, issued, listed>>

\* The search lists UIDs from the lowest, and the first Limit of them are read.
First(ids) == {u \in ids : Cardinality({v \in ids : v < u}) < Limit}

SearchIds ==
    /\ request.pc = "search"
    /\ imap.state = "auth"
    /\ imap' = Examined
    /\ request' = [request EXCEPT !.pc = "header", !.ids = First(DOMAIN box)]
    /\ UNCHANGED <<server, box, issued, listed>>

FetchHeader ==
    /\ request.pc = "header"
    /\ imap.state = "selected"
    /\ \E u \in request.ids :
           /\ \A v \in request.ids : u <= v
           /\ request' = [request EXCEPT
                  !.ids = @ \ {u},
                  !.out = @ \cup {[id |-> Id(imap.uidvalidity, u), of |-> Read(u)]}]
    /\ UNCHANGED <<server, box, issued, imap, listed>>

SearchDone ==
    /\ request.pc = "header"
    /\ request.ids = {}
    /\ listed' = listed \cup request.out
    /\ request' = None
    /\ imap' = Closed
    /\ UNCHANGED <<server, box, issued>>

-----------------------------------------------------------------------------
(***************************************************************************)
(* Submitting one item (reports.py, materialize_item).  An EXAMINE and the *)
(* FETCH after it are one step: whatever happens between them could as     *)
(* well have happened before.                                              *)
(***************************************************************************)
Submit(h) ==
    /\ Idle
    /\ h \in listed
    /\ imap' = Fresh
    /\ request' = [pc |-> "refs", header |-> h, left |-> {}, produced |-> {},
                   skipped |-> {}]
    /\ UNCHANGED <<server, box, issued, listed>>

\* Logins, connections and the provider fail; a request that fails lists no
\* headers and no files.
Fail ==
    /\ ~Idle
    /\ request' = None
    /\ imap' = Closed
    /\ UNCHANGED <<server, box, issued, listed>>

\* A FETCH needs a folder to be selected: imaplib raises otherwise.
Fetchable(id) == imap.state # "closed" /\ Passes(id) /\ Split(id).state = "selected"

PartsOf(m) == IF m = Nothing THEN {} ELSE AttachmentsOf[m]

AttachmentRefs ==
    /\ request.pc = "refs"
    /\ Fetchable(request.header.id)
    /\ LET refs == PartsOf(Read(request.header.id.uid)) IN
       request' = [request EXCEPT !.left = refs,
                      !.pc = IF refs = {} THEN "body" ELSE "attachments"]
    /\ imap' = Split(request.header.id)
    /\ UNCHANGED <<server, box, issued, listed>>

(* Mutant: nothing is rendered when every attachment was passed over. *)
AfterDone(left, produced) == IF left # {} THEN "attachments" ELSE "done"

\* What the loop goes on to: another attachment, the body, or the end.
After(left, produced) ==
    IF left # {} THEN "attachments" ELSE IF produced = {} THEN "body" ELSE "done"

Proceed(left, produced, skipped) ==
    /\ request' = [request EXCEPT !.pc = After(left, produced), !.left = left,
                                  !.produced = produced, !.skipped = skipped]
    /\ UNCHANGED imap

\* fetch_attachment: the part is looked up in the message as it is now.
Found(p, m) == p \in PartsOf(m)

(* Mutant: a message that is gone counts as having no such attachment, and the *)
(* loop goes on.                                                               *)
FetchAttachmentSkips(p) ==
    /\ request.pc = "attachments"
    /\ Fetchable(request.header.id)
    /\ p \in request.left
    /\ LET m == Read(request.header.id.uid) IN
       IF Found(p, m)
       THEN Proceed(request.left \ {p},
                request.produced \cup {[kind |-> "attachment", part |-> p, of |-> m]},
                request.skipped)
       ELSE Proceed(request.left \ {p}, request.produced, request.skipped)
    /\ UNCHANGED <<server, box, issued, listed>>

FetchAttachment(p) ==
    /\ request.pc = "attachments"
    /\ Fetchable(request.header.id)
    /\ p \in request.left
    /\ LET m == Read(request.header.id.uid) IN
       /\ Found(p, m)
       /\ \/ Proceed(request.left \ {p},
                request.produced \cup {[kind |-> "attachment", part |-> p, of |-> m]},
                request.skipped)
          \/ Proceed(request.left \ {p}, request.produced, request.skipped \cup {p})
    /\ UNCHANGED <<server, box, issued, listed>>

\* render_message_to_pdf draws a page for an empty message too.
FetchBody ==
    /\ request.pc = "body"
    /\ Fetchable(request.header.id)
    /\ request' = [request EXCEPT !.pc = "done",
           !.produced = {[kind |-> "message_pdf", part |-> Nothing,
                          of |-> Read(request.header.id.uid)]}]
    /\ UNCHANGED <<server, box, issued, imap, listed>>

-----------------------------------------------------------------------------
Next ==
    \/ \E m \in Messages : Arrive(m)
    \/ \E u \in Uids : Expunge(u)
    \/ Renumber
    \/ Search \/ SearchIds \/ FetchHeader \/ SearchDone
    \/ \E h \in Header : Submit(h)
    \/ AttachmentRefs
    \/ \E p \in Parts : FetchAttachment(p)
    \/ FetchBody
    \/ Fail

Spec == Init /\ [][Next]_vars

-----------------------------------------------------------------------------
(***************************************************************************)
(* Properties.                                                             *)
(***************************************************************************)

\* The message that an identifier was given to by the server.
Named(id) == issued[id]

\* The files that a finished submission has stored for its item.
Stored == IF request.pc = "done" THEN request.produced ELSE {}

\* What is shown and what is stored under an identifier is the message the
\* server gave that identifier to, or an empty page, but never another
\* message: renumbering, expunging and new mail in between notwithstanding
\* (_split_id).  A server that keeps its UIDVALIDITY to itself gives
\* identifiers that name nothing, and nothing of its mail is stored.
NeverAnotherMessage ==
    /\ \A h \in listed : h.of \in {Named(h.id), Nothing} \/ h.id.uidvalidity = 0
    /\ \A f \in Stored : f.of \in {Named(request.header.id), Nothing}

\* When a message goes away between two of its attachments the submission
\* fails; it never goes through with some of them (fetch_attachment).
AllItsAttachments ==
    (\E f \in Stored : f.kind = "attachment") =>
        \A p \in AttachmentsOf[Named(request.header.id)] :
            p \in request.skipped \/ \E f \in Stored : f.part = p

\* What a submission stores is the message that was selected.
EvidenceIsTheMessage == \A f \in Stored : f.of = Named(request.header.id)
=============================================================================
