------------------------------- MODULE MCImap -------------------------------
EXTENDS Imap, TLC

CONSTANTS m1, m2, m3, p1, p2

\* One message with two attachments, and the others with none.
Attached == [m \in Messages |-> IF m = m1 THEN {p1, p2} ELSE {}]

Symmetric == Permutations({p1, p2}) \cup Permutations(Messages \ {m1})
=============================================================================
