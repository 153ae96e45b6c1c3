----------------------------- MODULE Selection -----------------------------
EXTENDS SequencesExt

\* The elements of s that are in S, in their order: [x for x in s if ...].
Select(s, S) ==
    FlattenSeq([i \in DOMAIN s |-> IF s[i] \in S THEN <<s[i]>> ELSE <<>>])
=============================================================================
