---------------------------- MODULE MCAllowList ----------------------------
(* Instances of AllowList for TLC. *)
EXTENDS AllowList

CONSTANTS ada, bob, w1, w2

\* Three settings a container or a laptop may have: ada as administrator and
\* bob as faculty; ada alone; and bob as administrator, ada as faculty.
Usual == [faculty |-> {bob}, admins |-> {ada}]
Alone == [faculty |-> {}, admins |-> {ada}]
Swapped == [faculty |-> {ada}, admins |-> {bob}]

Several == {Usual, Alone, Swapped}
=============================================================================
