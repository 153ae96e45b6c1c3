----------------------------- MODULE MCOAuthFlow -----------------------------
(* Instances of OAuthFlow for TLC. *)
EXTENDS OAuthFlow, TLC

CONSTANTS w1, w2

Person(local, domain) == [local |-> local, domain |-> domain]
Ada == Person(<<"ada">>, <<"princeton.edu">>)
Bob == Person(<<"bob">>, <<"princeton.edu">>)
CyLee == Person(<<"cy", "lee">>, <<"princeton.edu">>)

Staff == {Ada, Bob, CyLee}
Visiting == {Bob, CyLee}

\* Cy Lee is a guest whose address has an underscore, and not on the list.
TheList == {Ada, Bob}
WithCyLee == {Ada, Bob, CyLee}

Box(name, provider, workspace) ==
    [name |-> name, provider |-> provider, workspace |-> workspace]

\* A mailbox of the hosted domain and a personal one; the latter over IMAP.
Consented == {Box("work", "gmail", TRUE), Box("home", "gmail", FALSE)}
Posted == {Box("home", "imap", FALSE)}

Either == Consented \cup Posted
OneWay == {Consented, Posted}
OverImap == {Posted}

\* --address is left out, or names the mailbox at work.
TypedLabels == {[name |-> "work", lower |-> FALSE]}

WorkerSymmetry == Permutations({w1, w2})
=============================================================================
