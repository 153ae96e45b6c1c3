--------------------------- MODULE ReportPromise ---------------------------
(***************************************************************************)
(* What a monthly report promises its owner and the administrator who      *)
(* reads it, without saying how.  A report may be edited freely while it   *)
(* is a draft.  Submitting it is one step: at that step the selection is   *)
(* not empty, every selected message carries a justification, and every    *)
(* one of them has evidence in the artifact store.  From then on nothing   *)
(* about the report changes.                                               *)
(*                                                                         *)
(* These are the rules stated at the top of reports.py and in              *)
(* docs/ARCHITECTURE.md; Reports.tla is the code that has to keep them.    *)
(***************************************************************************)
CONSTANTS
    Messages,  \* messages of the owner's mailboxes
    Texts,     \* justifications that say something
    Blank      \* a missing justification, or one of spaces only

VARIABLES
    status,     \* "absent", "draft" or "submitted"
    selection,  \* the selected messages, each with its justification
    evidence    \* the selected messages that have files in the bundle

promise == <<status, selection, evidence>>

Entry == [msg: Messages, text: Texts \cup {Blank}]

PromiseInit ==
    /\ status = "absent"
    /\ selection = {}
    /\ evidence = {}

Edit ==
    /\ status \in {"absent", "draft"}
    /\ status' = "draft"
    /\ selection' \in SUBSET Entry
    /\ UNCHANGED evidence

Freeze ==
    /\ status = "draft"
    /\ selection # {}
    /\ \A e \in selection : e.text \in Texts
    /\ status' = "submitted"
    /\ evidence' = {e.msg : e \in selection}
    /\ UNCHANGED selection

PromiseNext == Edit \/ Freeze

Promise == PromiseInit /\ [][PromiseNext]_promise
=============================================================================
