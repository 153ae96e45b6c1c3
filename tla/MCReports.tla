------------------------------ MODULE MCReports ------------------------------
(* Instances of Reports for TLC. *)
EXTENDS Reports, TLC

CONSTANTS m1, m2, b1, b2, w1, w2

\* One message of a mailbox over HTTP, one of a mailbox over IMAP.
TwoHomes == m1 :> b1 @@ m2 :> b2

\* Each has an identifier of its own.
OwnIds == m1 :> 1 @@ m2 :> 2

\* The store fails to delete what was made of the second item.
SecondItems == {p \in Paths : p.item = 2}
=============================================================================
