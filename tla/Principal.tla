------------------------------ MODULE Principal ------------------------------
(***************************************************************************)
(* Who a request comes from (auth/principal.py, and the first gate of      *)
(* auth/allowlist.py).  Azure's Easy Auth puts two headers on a request:   *)
(* a name, and a document of claims.  Both are written as Entra has them,  *)
(* and Entra writes a guest of the tenant as                               *)
(* ada_example.edu#EXT#@tenant.                                            *)
(*                                                                         *)
(* An address is kept as what underscores separate, since they are what    *)
(* undoing that writing looks at; case and spaces are left out.            *)
(***************************************************************************)
EXTENDS Sequences

CONSTANTS
    None,            \* a header, a claim or a setting that is absent
    Unreadable,      \* a claims header that is not base64 of a JSON object
    Refused,         \* PrincipalError
    Inconsistent,    \* InconsistentPrincipal
    OnAzure,         \* the program runs on App Service or in production
    DevPrincipal,    \* CCREPORT_DEV_PRINCIPAL, an address or None
    RequiredDomain   \* CCREPORT_REQUIRED_EMAIL_DOMAIN

Address(local, domain) == [local |-> local, domain |-> domain]

(* What an address is, and what a header or a claim holds one as.          *)
Addresses == [local: Seq(STRING) \ {<<>>}, domain: Seq(STRING) \ {<<>>}]
Written == [guest: {FALSE}, parts: Seq(STRING) \X Seq(STRING)] \cup
           [guest: {TRUE}, parts: Seq(STRING)]
Claims == [upn: Written \cup {None}, email: Written \cup {None}]

(* The two ways in which Entra writes an address. *)
Plain(a) == [guest |-> FALSE, parts |-> <<a.local, a.domain>>]
Mangled(a) == [guest |-> TRUE, parts |-> a.local \o a.domain]

-----------------------------------------------------------------------------
(* Mutant: the marker is cut off and the rest left as it is. *)
NormaliseCut(written) ==
    IF written = None THEN None
    ELSE IF written.guest THEN Address(written.parts, <<>>)
    ELSE Address(written.parts[1], written.parts[2])

(* _normalise: before the marker, the first underscore becomes the "@". *)
Normalise(written) ==
    IF written = None THEN None
    ELSE IF written.guest THEN Address(<<Head(written.parts)>>, Tail(written.parts))
    ELSE Address(written.parts[1], written.parts[2])

(* The first claim that is there: upn before email. *)
ClaimLookup(claims) == IF claims.upn # None THEN claims.upn ELSE claims.email

principal_from_headers(headers) ==
    LET name == Normalise(headers.name)
        claimed == Normalise(ClaimLookup(headers.claims))
    IN  IF headers.claims \in {None, Unreadable} THEN Refused
        ELSE IF claimed = None /\ name = None THEN Refused
        ELSE IF claimed # None /\ name # None /\ name # claimed THEN Inconsistent
        ELSE IF claimed # None THEN claimed ELSE name

EffectiveDevPrincipal == IF OnAzure THEN None ELSE DevPrincipal

(* Mutant: the bypass also answers where the headers disagree. *)
ResolvePrincipalAnyway(headers) ==
    LET found == principal_from_headers(headers)
    IN  IF found \in {Refused, Inconsistent} /\ EffectiveDevPrincipal # None
        THEN EffectiveDevPrincipal ELSE found

resolve_principal(headers) ==
    LET found == principal_from_headers(headers)
    IN  IF found = Refused /\ EffectiveDevPrincipal # None
        THEN EffectiveDevPrincipal ELSE found

domain_allowed(upn) == RequiredDomain # None /\ upn.domain = <<RequiredDomain>>

-----------------------------------------------------------------------------
(* What Easy Auth and Entra put on a request of somebody: the name and the *)
(* upn claim as Entra has them, one claim of the two or both.              *)
Writings(a, guest) == {Plain(a)} \cup (IF guest THEN {Mangled(a)} ELSE {})

Presentations(a, guest) ==
    LET some == Writings(a, guest) \cup {None}
    IN  {[name |-> n, claims |-> c] :
            n \in some, c \in {d \in [upn: some, email: {Plain(a), None}] :
                                  d.upn # None \/ d.email # None}}

(* Requests that did not pass through Easy Auth. *)
Bare == {[name |-> None, claims |-> c] : c \in {None, Unreadable}}
=============================================================================
