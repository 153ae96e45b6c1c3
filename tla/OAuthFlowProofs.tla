-------------------------- MODULE OAuthFlowProofs --------------------------
(***************************************************************************)
(* Theorems about OAuthFlow, for any number of people, mailboxes, flows    *)
(* and requests in progress, any ages and any way that Entra writes the    *)
(* people's addresses.                                                     *)
(*                                                                         *)
(* None of the properties is inductive: a row takes its owner, origin and  *)
(* label from the request that stores it, the request took them from the   *)
(* state or form token it came with, and the code it exchanged.  Meant     *)
(* says of each of these what the next one relies on.                      *)
(***************************************************************************)
EXTENDS OAuthFlow, SequenceTheorems, TLAPS

(* States are signed and codes given before they are used, and a code is   *)
(* for a mailbox of the provider its flow was started for.                 *)
FlowsMeant ==
    /\ \A f \in DOMAIN flows : flows[f].at <= now /\ flows[f].provider # "imap"
    /\ \A n \in DOMAIN forms : forms[n].at <= now /\ forms[n].provider = "imap"
    /\ \A c \in DOMAIN codes :
           /\ codes[c].flow \in DOMAIN flows
           /\ codes[c].mailbox.provider = flows[codes[c].flow].provider

(* What a request goes back to was its own person's, and not too old.      *)
MaxAge(provider) == IF provider = "imap" THEN FormMaxAge ELSE StateMaxAge
Owned(from, upn) == from.upn = upn /\ from.age <= MaxAge(from.provider)

ExchangeMeant(r) ==
    /\ Owned(r.from, r.actor.upn)
    /\ r.flow \in DOMAIN flows
    /\ r.code \in DOMAIN codes
    /\ r.from.provider = flows[r.flow].provider
    /\ r.actor.place = "web" => r.label = None

ConnectMeant(r) ==
    /\ Owned(r.from, r.actor.upn)
    /\ r.from.provider = r.mailbox.provider
    /\ r.actor.place = "web" /\ r.label # None => r.label.name = r.mailbox.name

ActsFor(a) == a.upn = IF a.sender = None THEN P!EffectiveDevPrincipal ELSE a.sender

RequestMeant(r) ==
    /\ r.op \notin {"idle", "denied"} => ActsFor(r.actor)
    /\ r.op = "exchange" => ExchangeMeant(r)
    /\ r.op \in {"probe", "connect"} => ConnectMeant(r)

RequestsMeant == \A w \in Workers : RequestMeant(req[w])

(* Rows are told apart by what Stored looks them up by.                    *)
RowMeant(x) ==
    /\ Owned(x.from, x.upn)
    /\ x.from.provider = x.provider
    /\ x.address.lower
    /\ x.place = "web" => x.address = NameOf(x.mailbox)
    /\ Guarded(x.provider, x.address)

RowsMeant ==
    /\ \A x \in rows : RowMeant(x)
    /\ \A x, y \in rows :
           x.upn = y.upn /\ x.provider = y.provider /\ x.address = y.address => x = y

IInv == TypeOK /\ FlowsMeant /\ RequestsMeant /\ RowsMeant

-----------------------------------------------------------------------------
(***************************************************************************)
(* Whom a request acts for.                                                *)
(***************************************************************************)

LEMMA FirstOfTwo ==
    ASSUME NEW i \in Nat \ {0}, NEW j \in Nat \ {0}, i = 1 \/ i + j - 1 = 1
    PROVE  i = 1
  OBVIOUS

(* What is before and behind the "@" when a name is cut after its first    *)
(* part: what it was put together from, if that part was all of the one.   *)
LEMMA CutAfterFirst ==
    ASSUME NEW a \in Seq(STRING), a # <<>>, NEW d \in Seq(STRING), d # <<>>
    PROVE  /\ a \o d \in Seq(STRING)
           /\ Head(a \o d) \in STRING
           /\ Tail(a \o d) \in Seq(STRING) /\ Tail(a \o d) # <<>>
           /\ Len(a) = 1 \/ Len(Tail(a \o d)) = 1 =>
                  <<Head(a \o d)>> = a /\ Tail(a \o d) = d
  <1> DEFINE s == a \o d
  <1>1. /\ s \in Seq(STRING) /\ Len(s) = Len(a) + Len(d)
        /\ \A i \in 1 .. Len(s) :
               s[i] = IF i <= Len(a) THEN a[i] ELSE d[i - Len(a)]
    BY ConcatProperties
  <1> HIDE DEF s
  <1>2. Len(a) \in Nat \ {0} /\ Len(d) \in Nat \ {0}
    BY EmptySeq, LenProperties
  <1>3. Len(s) > 1 /\ Len(s) \in Nat
    BY <1>1, <1>2
  <1>4. s # <<>>
    BY <1>3
  <1> DEFINE rest == Tail(s)
  <1>5. /\ Head(s) \in STRING /\ Head(s) = s[1]
        /\ rest \in Seq(STRING) /\ Len(rest) = Len(s) - 1
        /\ \A i \in 1 .. Len(rest) : rest[i] = s[i + 1]
    BY <1>1, <1>4, HeadTailProperties
  <1> HIDE DEF rest
  <1>6. rest # <<>>
    BY <1>3, <1>5
  <1>7. ASSUME Len(a) = 1 \/ Len(rest) = 1
        PROVE  <<Head(s)>> = a /\ rest = d
    <2>1. Len(a) = 1
      <3>1. Len(rest) = Len(a) + Len(d) - 1
        BY <1>1, <1>5
      <3> QED
        BY <1>2, <1>7, <3>1, FirstOfTwo
    <2>2. Head(s) = a[1]
      BY <1>1, <1>3, <1>5, <2>1
    <2>3. \A i \in 1 .. Len(rest) : rest[i] = d[i]
      BY <1>1, <1>2, <1>5, <2>1
    <2>4. Len(rest) = Len(d)
      BY <1>1, <1>2, <1>5, <2>1
    <2>5. rest = d
      BY <1>5, <2>3, <2>4, SeqEqual
    <2> QED
      BY <2>1, <2>2, <2>5
  <1> QED
    BY <1>1, <1>5, <1>6, <1>7 DEF s, rest

(* However Entra writes a person, what is made of it is an address.        *)
LEMMA NormalisedType ==
    ASSUME NEW p \in People, NEW guest \in BOOLEAN, NEW t \in P!Writings(p, guest)
    PROVE  /\ P!Normalise(t) \in P!Addresses
           /\ t \in P!Written /\ t # None
  <1>1. /\ p \in P!Addresses /\ p = P!Address(p.local, p.domain)
        /\ p.local \in Seq(STRING) /\ p.local # <<>>
        /\ p.domain \in Seq(STRING) /\ p.domain # <<>>
    BY PeopleAssumption DEF P!Addresses, P!Address
  <1>2. None \notin P!Written
    BY PeopleAssumption
  <1>3. CASE t = P!Plain(p)
    <2>1. t = [guest |-> FALSE, parts |-> <<p.local, p.domain>>]
      BY <1>3 DEF P!Plain
    <2>2. t \in P!Written /\ t # None
      <3>1. /\ p.local \in Seq(STRING) /\ p.domain \in Seq(STRING)
        BY <1>1
      <3>2. t \in [guest: {FALSE}, parts: Seq(STRING) \X Seq(STRING)]
        BY <2>1, <3>1
      <3> QED
        BY <1>2, <3>2 DEF P!Written
    <2>3. P!Normalise(t) = P!Address(p.local, p.domain)
      BY <2>1, <2>2 DEF P!Normalise
    <2> QED
      BY <1>1, <2>2, <2>3
  <1>4. CASE t = P!Mangled(p)
    <2> DEFINE s == p.local \o p.domain
    <2>1. t = [guest |-> TRUE, parts |-> s]
      BY <1>4 DEF P!Mangled
    <2>2. /\ s \in Seq(STRING) /\ Head(s) \in STRING
          /\ Tail(s) \in Seq(STRING) /\ Tail(s) # <<>>
      BY <1>1, CutAfterFirst
    <2> HIDE DEF s
    <2>3. t \in P!Written /\ t # None
      <3>1. t \in [guest: {TRUE}, parts: Seq(STRING)]
        BY <2>1, <2>2
      <3> QED
        BY <1>2, <3>1 DEF P!Written
    <2>4. P!Normalise(t) = P!Address(<<Head(s)>>, Tail(s))
      BY <2>1, <2>3 DEF P!Normalise
    <2> QED
      BY <2>2, <2>3, <2>4 DEF P!Address, P!Addresses
  <1> QED
    BY <1>3, <1>4 DEF P!Writings

(* What the domain check lets through is the person: undoing the writing   *)
(* of a guest whose address has an underscore leaves more than a domain    *)
(* behind the "@" (_normalise, domain_allowed).                            *)
LEMMA NormalisedIsPerson ==
    ASSUME NEW p \in People, NEW guest \in BOOLEAN, NEW t \in P!Writings(p, guest),
           \/ P!domain_allowed(P!Normalise(t))
           \/ t = P!Plain(p)
           \/ Len(p.local) = 1
    PROVE  P!Normalise(t) = p
  <1>1. /\ p = P!Address(p.local, p.domain)
        /\ p.local \in Seq(STRING) /\ p.local # <<>>
        /\ p.domain \in Seq(STRING) /\ p.domain # <<>>
    BY PeopleAssumption DEF P!Addresses, P!Address
  <1>2. t # None
    BY NormalisedType
  <1>3. CASE t = P!Plain(p)
    BY <1>1, <1>2, <1>3 DEF P!Plain, P!Normalise
  <1>4. CASE t = P!Mangled(p) /\ t # P!Plain(p)
    <2> DEFINE s == p.local \o p.domain
    <2>1. t = [guest |-> TRUE, parts |-> s]
      BY <1>4 DEF P!Mangled
    <2>2. P!Normalise(t) = P!Address(<<Head(s)>>, Tail(s))
      BY <1>2, <2>1 DEF P!Normalise
    <2>3. Len(p.local) = 1 \/ Len(Tail(s)) = 1 => <<Head(s)>> = p.local /\ Tail(s) = p.domain
      BY <1>1, CutAfterFirst
    <2> HIDE DEF s
    <2>4. P!domain_allowed(P!Normalise(t)) => Len(Tail(s)) = 1
      <3>1. P!Normalise(t).domain = Tail(s)
        BY <2>2 DEF P!Address
      <3>2. Len(<<RequiredDomain>>) = 1
        OBVIOUS
      <3> QED
        BY <3>1, <3>2 DEF P!domain_allowed
    <2> QED
      BY <1>1, <1>4, <2>2, <2>3, <2>4
  <1> QED
    BY <1>3, <1>4 DEF P!Writings

(* The headers of somebody's request name nobody else, unless they are     *)
(* refused.                                                                *)
LEMMA PresentedIsPerson ==
    ASSUME NEW p \in People, NEW guest \in BOOLEAN,
           NEW h \in P!Presentations(p, guest)
    PROVE  \E t \in P!Writings(p, guest) :
               /\ P!resolve_principal(h) \in {Inconsistent, P!Normalise(t)}
               /\ \/ P!resolve_principal(h) = P!Normalise(t)
                  \/ /\ h.name \in P!Writings(p, guest)
                     /\ P!Normalise(h.name) # P!Normalise(t)
  <1>1. /\ h.name \in P!Writings(p, guest) \cup {None}
        /\ h.claims \in [upn: P!Writings(p, guest) \cup {None},
                         email: {P!Plain(p), None}]
        /\ h.claims.upn # None \/ h.claims.email # None
    BY DEF P!Presentations
  <1>2. \A t \in P!Writings(p, guest) : /\ P!Normalise(t) \in P!Addresses
                                        /\ t \in P!Written /\ t # None
    BY NormalisedType
  <1>3. P!Plain(p) \in P!Writings(p, guest)
    BY DEF P!Writings
  <1>4. h.claims \in P!Claims
    BY <1>1, <1>2, <1>3 DEF P!Claims
  <1>5. h.claims \notin {None, Unreadable}
    BY <1>4, PeopleAssumption
  <1> DEFINE t == P!ClaimLookup(h.claims)
  <1>6. t \in P!Writings(p, guest)
    BY <1>1, <1>3 DEF P!ClaimLookup
  <1>7. P!Normalise(t) \notin {None, Refused, Inconsistent} /\ Refused # Inconsistent
    BY <1>2, <1>6, PeopleAssumption
  <1>8. h.name = None => P!Normalise(h.name) = None
    BY DEF P!Normalise
  <1>9. P!principal_from_headers(h) =
            IF /\ P!Normalise(h.name) # None
               /\ P!Normalise(h.name) # P!Normalise(t)
            THEN Inconsistent ELSE P!Normalise(t)
    BY <1>5, <1>7 DEF P!principal_from_headers
  <1>10. P!resolve_principal(h) = P!principal_from_headers(h)
    BY <1>7, <1>9 DEF P!resolve_principal
  <1> HIDE DEF t
  <1> QED
    BY <1>1, <1>6, <1>8, <1>9, <1>10

LEMMA VisitorsAre ==
    ASSUME NEW v \in Visitors
    PROVE  \/ /\ v.sender = None
              /\ v.upn = Refused \/ (v.upn = P!EffectiveDevPrincipal /\ v.upn # None)
           \/ /\ v.sender \in People
              /\ \E h \in P!Presentations(v.sender, v.sender \in Guests) :
                     v.upn = P!resolve_principal(h)
  <1>1. CASE \E h \in P!Bare : v = [sender |-> None, upn |-> P!resolve_principal(h)]
    <2>1. PICK h \in P!Bare : v = [sender |-> None, upn |-> P!resolve_principal(h)]
      BY <1>1
    <2>2. h.claims \in {None, Unreadable}
      BY DEF P!Bare
    <2>3. P!principal_from_headers(h) = Refused
      BY <2>2 DEF P!principal_from_headers
    <2>4. P!resolve_principal(h) =
              IF P!EffectiveDevPrincipal # None THEN P!EffectiveDevPrincipal ELSE Refused
      BY <2>3 DEF P!resolve_principal
    <2>5. v.sender = None /\ v.upn = P!resolve_principal(h)
      BY <2>1
    <2> QED
      BY <2>4, <2>5
  <1>2. CASE \E p \in People : \E h \in P!Presentations(p, p \in Guests) :
                 v = [sender |-> p, upn |-> P!resolve_principal(h)]
    BY <1>2
  <1> QED
    BY <1>1, <1>2 DEF Visitors

LEMMA ActorsAct ==
    ASSUME NEW a \in Actors
    PROVE  a \in Actor /\ ActsFor(a)
  <1>1. None \notin People
    BY PeopleAssumption
  <1>2. CASE \E p \in People : a = [sender |-> p, upn |-> p, place |-> "cli"]
    BY <1>1, <1>2 DEF Actor, ActsFor
  <1>3. CASE \E v \in Visitors : /\ Admitted(v.upn)
                                 /\ a = [sender |-> v.sender, upn |-> v.upn, place |-> "web"]
    <2>1. PICK v \in Visitors : /\ Admitted(v.upn)
                                /\ a = [sender |-> v.sender, upn |-> v.upn, place |-> "web"]
      BY <1>3
    <2>2. CASE /\ v.sender = None
               /\ v.upn = Refused \/ (v.upn = P!EffectiveDevPrincipal /\ v.upn # None)
      <3>1. v.upn = P!EffectiveDevPrincipal /\ v.upn # Refused
        BY <2>1, <2>2 DEF Admitted
      <3>2. v.upn \in People
        BY <2>2, <3>1, PeopleAssumption DEF P!EffectiveDevPrincipal
      <3> QED
        BY <2>1, <2>2, <3>1, <3>2 DEF Actor, ActsFor
    <2>3. ASSUME v.sender \in People,
                 NEW h \in P!Presentations(v.sender, v.sender \in Guests),
                 v.upn = P!resolve_principal(h)
          PROVE  a \in Actor /\ ActsFor(a)
      <3> DEFINE guest == v.sender \in Guests
      <3>1. guest \in BOOLEAN
        OBVIOUS
      <3> HIDE DEF guest
      <3>2. PICK t \in P!Writings(v.sender, guest) :
                P!resolve_principal(h) \in {Inconsistent, P!Normalise(t)}
        BY <2>3, <3>1, PresentedIsPerson DEF guest
      <3>3. v.upn = P!Normalise(t) /\ P!domain_allowed(P!Normalise(t))
        BY <2>1, <2>3, <3>2 DEF Admitted
      <3>4. v.upn = v.sender
        BY <2>3, <3>1, <3>3, NormalisedIsPerson
      <3> QED
        BY <1>1, <2>1, <2>3, <3>4 DEF Actor, ActsFor
    <2> QED
      BY <2>2, <2>3, VisitorsAre
  <1> QED
    BY <1>2, <1>3 DEF Actors

-----------------------------------------------------------------------------
(***************************************************************************)
(* Flows, codes, form tokens and the requests that come with them.         *)
(***************************************************************************)
LEMMA Numbers ==
    ASSUME TypeOK
    PROVE  /\ now \in Nat /\ StateMaxAge \in Nat /\ FormMaxAge \in Nat /\ MaxTime \in Nat
           /\ MaxFlows \in Nat /\ MaxCodes \in Nat /\ MaxForms \in Nat
           /\ \A s \in Started : s.at \in Nat
  BY BoundsAssumption DEF TypeOK, Times, Started

(* The states that were signed, and so on, are numbered from one. *)
LEMMA Numbered ==
    ASSUME TypeOK
    PROVE  /\ \A f \in DOMAIN flows : f \in 1 .. MaxFlows /\ flows[f] \in Started
           /\ \A c \in DOMAIN codes : c \in 1 .. MaxCodes /\ codes[c] \in Code
           /\ \A n \in DOMAIN forms : n \in 1 .. MaxForms /\ forms[n] \in Started
  <1>1. /\ flows \in Seq(Started) /\ Len(flows) <= MaxFlows
        /\ codes \in Seq(Code) /\ Len(codes) <= MaxCodes
        /\ forms \in Seq(Started) /\ Len(forms) <= MaxForms
    BY DEF TypeOK
  <1> QED
    BY <1>1, BoundsAssumption, LenProperties, ElementOfSeq

LEMMA ShapeOfRequest ==
    ASSUME TypeOK, NEW w \in Workers
    PROVE  /\ req[w].op = "exchange" => req[w] \in Callback
           /\ req[w].op \in {"probe", "connect"} => req[w] \in Connecting
           /\ req[w].op = "denied" => req[w] \in Denied
  <1>1. req[w] \in {Idle} \cup Denied \cup Callback \cup Connecting
    BY DEF TypeOK
  <1> QED
    BY <1>1 DEF Idle, Denied, Callback, Connecting

LEMMA SinceType ==
    ASSUME TypeOK, NEW s \in Started, s.at <= now
    PROVE  /\ Since(s) \in Origin
           /\ Since(s).upn = s.upn /\ Since(s).provider = s.provider
           /\ Since(s).age = now - s.at
  <1>1. now - s.at \in Times
    BY Numbers DEF TypeOK, Times
  <1> QED
    BY <1>1 DEF Since, Started, Origin

LEMMA SiteType ==
    ASSUME IInv, NEW m \in site
    PROVE  m \in Mailboxes
  BY DataAssumption DEF IInv, TypeOK

(* A request that goes on, or ends.                                        *)
LEMMA RequestStep ==
    ASSUME IInv, NEW w \in Workers,
           NEW r \in {Idle} \cup Denied \cup Callback \cup Connecting,
           RequestMeant(r), req' = [req EXCEPT ![w] = r],
           UNCHANGED <<site, now, flows, codes, forms, rows>>
    PROVE  IInv'
  <1>1. TypeOK'
    BY DEF IInv, TypeOK
  <1>2. FlowsMeant'
    BY DEF IInv, FlowsMeant
  <1>3. ASSUME NEW v \in Workers
        PROVE  RequestMeant(req[v])'
    <2>1. req'[v] = IF v = w THEN r ELSE req[v]
      BY DEF IInv, TypeOK
    <2>2. RequestMeant(req'[v])
      BY <2>1 DEF IInv, RequestsMeant
    <2> QED
      BY <2>2 DEF RequestMeant, ExchangeMeant, ConnectMeant
  <1>4. RowsMeant'
    BY DEF IInv, RowsMeant
  <1> QED
    BY <1>1, <1>2, <1>3, <1>4 DEF IInv, RequestsMeant

LEMMA EndsWell ==
    ASSUME IInv, NEW w \in Workers, Fail(w) \/ TurnAway(w)
    PROVE  IInv'
  <1>1. UNCHANGED <<site, now, flows, codes, forms, rows>>
    BY DEF Fail, TurnAway
  <1>2. CASE Fail(w)
    <2>1. RequestMeant(Idle)
      BY DEF RequestMeant, Idle
    <2> QED
      BY <1>1, <1>2, <2>1, RequestStep DEF Fail, Become
  <1>3. CASE TurnAway(w)
    <2>1. PICK v \in Visitors :
              v.sender # None /\ req' = [req EXCEPT ![w] = [op |-> "denied", sender |-> v.sender]]
      BY <1>3 DEF TurnAway, Become
    <2>2. v.sender \in People
      BY <2>1, VisitorsAre
    <2>3. [op |-> "denied", sender |-> v.sender] \in Denied
      BY <2>2 DEF Denied
    <2>4. RequestMeant([op |-> "denied", sender |-> v.sender])
      BY DEF RequestMeant
    <2> QED
      BY <1>1, <2>1, <2>3, <2>4, RequestStep
  <1> QED
    BY <1>2, <1>3

(* A callback is let in with a state of its own person, and not too old.   *)
LEMMA LetInMeans ==
    ASSUME IInv, NEW w \in Workers, NEW a \in Actors, NEW c \in DOMAIN codes,
           NEW f \in DOMAIN flows, NEW provider, NEW label \in Labels \cup {None},
           a.place = "web" => label = None, LetIn(w, a, c, f, provider, label)
    PROVE  IInv'
  <1> DEFINE r == [op |-> "exchange", actor |-> a, from |-> Since(flows[f]),
                   flow |-> f, code |-> c, label |-> label]
  <1>1. /\ f \in 1 .. MaxFlows /\ c \in 1 .. MaxCodes /\ flows[f] \in Started
        /\ flows[f].at <= now /\ flows[f].provider # "imap"
    BY Numbered DEF IInv, FlowsMeant
  <1>2. /\ Since(flows[f]) \in Origin
        /\ Since(flows[f]).upn = flows[f].upn /\ Since(flows[f]).provider = flows[f].provider
        /\ Since(flows[f]).age = now - flows[f].at
    BY <1>1, SinceType DEF IInv
  <1>3. a \in Actor /\ ActsFor(a)
    BY ActorsAct
  <1>4. r \in Callback
    BY <1>1, <1>2, <1>3 DEF Callback
  <1>5. now - flows[f].at <= StateMaxAge /\ flows[f].upn = a.upn
    BY DEF LetIn, Unsign
  <1>6. Owned(Since(flows[f]), a.upn)
    BY <1>1, <1>2, <1>5 DEF Owned, MaxAge
  <1>7. RequestMeant(r)
    BY <1>2, <1>3, <1>6 DEF RequestMeant, ExchangeMeant
  <1>8. /\ req' = [req EXCEPT ![w] = r]
        /\ UNCHANGED <<site, now, flows, codes, forms, rows>>
    BY DEF LetIn, Become
  <1> HIDE DEF r
  <1> QED
    BY <1>4, <1>7, <1>8, RequestStep

(* So is a posted password, with a form token or from the command line.    *)
LEMMA PostMeans ==
    ASSUME IInv, NEW w \in Workers, NEW a \in Actors, NEW m \in Mailboxes,
           NEW right \in BOOLEAN, NEW lower \in BOOLEAN,
           NEW s \in Started, s.at <= now, now - s.at <= FormMaxAge,
           s.upn = a.upn, s.provider = "imap", Post(w, a, m, right, lower, s)
    PROVE  IInv'
  <1> DEFINE r == [op |-> "probe", actor |-> a, from |-> Since(s), mailbox |-> m,
                   good |-> right, label |-> [name |-> m.name, lower |-> lower]]
  <1>1. /\ Since(s) \in Origin /\ Since(s).upn = a.upn /\ Since(s).provider = "imap"
        /\ Since(s).age = now - s.at
    BY SinceType DEF IInv
  <1>2. a \in Actor /\ ActsFor(a)
    BY ActorsAct
  <1>3. [name |-> m.name, lower |-> lower] \in Spelled
    BY DEF Spelled
  <1>4. r \in Connecting
    BY <1>1, <1>2, <1>3 DEF Connecting
  <1>5. Owned(Since(s), a.upn)
    BY <1>1 DEF Owned, MaxAge
  <1>6. m.provider = "imap"
    BY DEF Post
  <1>7. RequestMeant(r)
    BY <1>1, <1>2, <1>5, <1>6 DEF RequestMeant, ConnectMeant
  <1>8. /\ req' = [req EXCEPT ![w] = r]
        /\ UNCHANGED <<site, now, flows, codes, forms, rows>>
    BY DEF Post, Become
  <1> HIDE DEF r
  <1> QED
    BY <1>4, <1>7, <1>8, RequestStep

LEMMA ArriveMeans ==
    ASSUME IInv, NEW w \in Workers, NEW a \in Actors, Arrive(w, a)
    PROVE  IInv'
  <1>1. ASSUME NEW c \in DOMAIN codes, oauth_callback(w, a, c)
        PROVE  IInv'
    <2>1. codes[c].flow \in DOMAIN flows
      BY DEF IInv, FlowsMeant
    <2>2. LetIn(w, a, c, codes[c].flow, codes[c].mailbox.provider, None)
      BY <1>1 DEF oauth_callback
    <2> QED
      BY <2>1, <2>2, LetInMeans
  <1>2. ASSUME NEW c \in DOMAIN codes, NEW f \in DOMAIN flows, NEW provider \in Providers,
               NEW label \in Labels \cup {None}, cmd_account_connect(w, a, c, f, provider, label)
        PROVE  IInv'
    <2>1. a.place # "web" /\ LetIn(w, a, c, f, provider, label)
      BY <1>2 DEF cmd_account_connect
    <2> QED
      BY <2>1, LetInMeans
  <1>3. ASSUME NEW m \in site, NEW right \in BOOLEAN, NEW lower \in BOOLEAN,
               NEW n \in DOMAIN forms, accounts_connect_imap(w, a, m, right, lower, n)
        PROVE  IInv'
    <2>1. /\ forms[n] \in Started /\ forms[n].at <= now /\ forms[n].provider = "imap"
      BY Numbered DEF IInv, FlowsMeant
    <2>2. /\ forms[n].upn = a.upn /\ now - forms[n].at <= FormMaxAge
          /\ Post(w, a, m, right, lower, forms[n])
      BY <1>3 DEF accounts_connect_imap, check_csrf
    <2> QED
      BY <2>1, <2>2, SiteType, PostMeans
  <1>4. ASSUME NEW m \in site, NEW right \in BOOLEAN, NEW lower \in BOOLEAN,
               cmd_account_connect_imap(w, a, m, right, lower)
        PROVE  IInv'
    <2> DEFINE s == [upn |-> a.upn, provider |-> "imap", at |-> now]
    <2>1. a.upn \in People /\ now \in Times
      BY ActorsAct DEF Actor, IInv, TypeOK
    <2>2. s \in Started
      BY <2>1 DEF Started, Providers
    <2>3. s.at = now /\ s.upn = a.upn /\ s.provider = "imap"
      OBVIOUS
    <2>4. s.at <= now /\ now - s.at <= FormMaxAge
      BY <2>3, Numbers DEF IInv
    <2>5. Post(w, a, m, right, lower, s)
      BY <1>4 DEF cmd_account_connect_imap
    <2> HIDE DEF s
    <2> QED
      BY <2>2, <2>3, <2>4, <2>5, SiteType, PostMeans
  <1> QED
    BY <1>1, <1>2, <1>3, <1>4 DEF Arrive

-----------------------------------------------------------------------------
(***************************************************************************)
(* The exchange and what is stored.                                        *)
(***************************************************************************)

(* A code that a request may redeem is one of the provider its flow was    *)
(* started for.                                                            *)
LEMMA ExchangeMeans ==
    ASSUME IInv, NEW w \in Workers, NEW answer \in Answers, Exchange(w, answer)
    PROVE  IInv'
  <1> DEFINE q == req[w]
             m == codes[req[w].code].mailbox
             label == Address(req[w], answer)
             good == answer # "not offline"
             r == [op |-> "connect", actor |-> req[w].actor, from |-> req[w].from,
                   mailbox |-> m, good |-> good, label |-> label]
  <1>1. q \in Callback /\ ExchangeMeant(q) /\ ActsFor(q.actor)
    BY ShapeOfRequest DEF Exchange, IInv, RequestsMeant, RequestMeant
  <1>2. /\ q.code \in DOMAIN codes /\ codes[q.code] \in Code /\ m \in Mailboxes
        /\ codes[q.code].flow = q.flow
    BY <1>1, Numbered DEF ExchangeMeant, IInv, Code, Exchange, Redeemable
  <1>3. m.provider = q.from.provider
    BY <1>1, <1>2 DEF ExchangeMeant, IInv, FlowsMeant
  <1>4. /\ label \in Spelled \cup {None}
        /\ q.actor.place = "web" /\ label # None => label.name = m.name
    <2>1. NameOf(m) \in Spelled /\ NameOf(m).name = m.name
      BY <1>2 DEF NameOf, Spelled
    <2>2. q.label \in Spelled \cup {None}
      BY <1>1, DataAssumption DEF Callback
    <2> QED
      BY <1>1, <2>1, <2>2 DEF Address, ExchangeMeant
  <1>5. q.actor \in Actor /\ q.from \in Origin /\ good \in BOOLEAN
    BY <1>1 DEF Callback
  <1>6. /\ codes' = [codes EXCEPT ![q.code].spent = TRUE]
        /\ req' = [req EXCEPT ![w] = r]
        /\ UNCHANGED <<site, now, flows, forms, rows>>
    BY DEF Exchange, Become
  <1>7. Owned(q.from, q.actor.upn)
    BY <1>1 DEF ExchangeMeant
  <1> HIDE DEF q, m, label, good
  <1>8. r \in Connecting
    BY <1>2, <1>4, <1>5 DEF Connecting, q
  <1>9. RequestMeant(r)
    BY <1>1, <1>3, <1>4, <1>7 DEF RequestMeant, ConnectMeant, q
  <1> HIDE DEF r
  <1>10. /\ codes' \in Seq(Code) /\ Len(codes') = Len(codes) /\ DOMAIN codes' = DOMAIN codes
         /\ \A c \in DOMAIN codes : /\ codes'[c].flow = codes[c].flow
                                    /\ codes'[c].mailbox = codes[c].mailbox
    <2>1. codes \in Seq(Code)
      BY DEF IInv, TypeOK
    <2>2. [codes[q.code] EXCEPT !.spent = TRUE] \in Code
      BY <1>2 DEF Code
    <2>3. codes' = [codes EXCEPT ![q.code] = [codes[q.code] EXCEPT !.spent = TRUE]]
      BY <1>6
    <2>4. codes' \in Seq(Code) /\ Len(codes') = Len(codes) /\ DOMAIN codes' = DOMAIN codes
      BY <1>2, <2>1, <2>2, <2>3, ExceptSeq, LenProperties
    <2>5. \A c \in DOMAIN codes : codes[c] \in Code
      BY Numbered DEF IInv
    <2> QED
      BY <1>2, <2>3, <2>4, <2>5 DEF Code
  <1>11. TypeOK'
    BY <1>6, <1>8, <1>10 DEF IInv, TypeOK
  <1>12. FlowsMeant'
    BY <1>6, <1>10 DEF IInv, FlowsMeant
  <1>13. ASSUME NEW v \in Workers
         PROVE  RequestMeant(req[v])'
    <2>1. req'[v] = IF v = w THEN r ELSE req[v]
      BY <1>6 DEF IInv, TypeOK
    <2>2. RequestMeant(req'[v])
      BY <1>9, <2>1 DEF IInv, RequestsMeant
    <2> QED
      BY <1>6, <1>10, <2>2 DEF RequestMeant, ExchangeMeant, ConnectMeant
  <1>14. RowsMeant'
    BY <1>6 DEF IInv, RowsMeant
  <1> QED
    BY <1>11, <1>12, <1>13, <1>14 DEF IInv, RequestsMeant

LEMMA ProbeMeans ==
    ASSUME IInv, NEW w \in Workers, Probe(w)
    PROVE  IInv'
  <1> DEFINE r == [req[w] EXCEPT !.op = "connect"]
  <1>1. req[w] \in Connecting /\ ConnectMeant(req[w]) /\ ActsFor(req[w].actor)
    BY ShapeOfRequest DEF Probe, IInv, RequestsMeant, RequestMeant
  <1>2. r \in Connecting /\ RequestMeant(r)
    BY <1>1 DEF Connecting, RequestMeant, ConnectMeant
  <1>3. req' = [req EXCEPT ![w] = r] /\ UNCHANGED <<site, now, flows, codes, forms, rows>>
    BY DEF Probe, Become
  <1> HIDE DEF r
  <1> QED
    BY <1>2, <1>3, RequestStep

LEMMA SameSpelling ==
    ASSUME NEW x \in Spelled, NEW y \in Spelled, x.name = y.name, x.lower = y.lower
    PROVE  x = y
  BY DEF Spelled

LEMMA SameRow ==
    ASSUME NEW x \in Row, NEW y \in Row,
           x.upn = y.upn, x.provider = y.provider, x.address = y.address,
           x.mailbox = y.mailbox, x.from = y.from, x.place = y.place
    PROVE  x = y
  BY DEF Row

LEMMA NormalType ==
    ASSUME NEW l \in Spelled
    PROVE  Normal(l) \in Spelled /\ Normal(l).name = l.name /\ Normal(l).lower
  BY DEF Normal, Spelled

LEMMA NameOfType ==
    ASSUME NEW m \in Mailboxes
    PROVE  NameOf(m) \in Spelled /\ NameOf(m).name = m.name /\ NameOf(m).lower
  BY DEF NameOf, Spelled

LEMMA SealType ==
    ASSUME NEW x \in Row, NEW r, r.mailbox \in Mailboxes, r.from \in Origin,
           r.actor.place \in {"web", "cli"}
    PROVE  /\ Seal(x, r) \in Row
           /\ Seal(x, r).upn = x.upn /\ Seal(x, r).provider = x.provider
           /\ Seal(x, r).address = x.address /\ Seal(x, r).mailbox = r.mailbox
           /\ Seal(x, r).from = r.from /\ Seal(x, r).place = r.actor.place
  BY DEF Seal, Row

(* What is stored, whether a row is new or sealed anew.                    *)
LEMMA ConnectMeans ==
    ASSUME IInv, NEW w \in Workers, Connect(w)
    PROVE  IInv'
  <1> DEFINE r == req[w]
             upn == r.actor.upn
             provider == r.mailbox.provider
             address == Normal(r.label)
             same == Stored(upn, provider, address)
             new == [upn |-> upn, provider |-> provider, address |-> address,
                     mailbox |-> r.mailbox, from |-> r.from, place |-> r.actor.place]
  <1>1. r \in Connecting /\ ConnectMeant(r) /\ r.label # None
    BY ShapeOfRequest DEF Connect, IInv, RequestsMeant, RequestMeant
  <1>2. /\ r.actor \in Actor /\ r.from \in Origin /\ r.mailbox \in Mailboxes
        /\ r.label \in Spelled
    BY <1>1 DEF Connecting
  <1>3. upn \in People /\ provider \in Providers /\ r.actor.place \in {"web", "cli"}
    BY <1>2, DataAssumption DEF Actor
  <1>4. address \in Spelled /\ address.name = r.label.name /\ address.lower
    BY <1>2, NormalType
  <1>5. new \in Row
    BY <1>2, <1>3, <1>4 DEF Row
  <1>6. r.actor.place = "web" => address = NameOf(r.mailbox)
    <2> SUFFICES ASSUME r.actor.place = "web" PROVE address = NameOf(r.mailbox)
      OBVIOUS
    <2>1. r.label.name = r.mailbox.name
      BY <1>1 DEF ConnectMeant
    <2>2. /\ NameOf(r.mailbox) \in Spelled /\ NameOf(r.mailbox).name = r.mailbox.name
          /\ NameOf(r.mailbox).lower
      BY <1>2, NameOfType
    <2>3. address.lower = NameOf(r.mailbox).lower
      BY <1>4, <2>2 DEF Spelled
    <2> QED
      BY <1>4, <2>1, <2>2, <2>3, SameSpelling
  <1>7. Owned(r.from, upn) /\ r.from.provider = provider
    BY <1>1 DEF ConnectMeant
  <1>8. \A x \in same : x \in rows /\ x.upn = upn /\ x.provider = provider /\ x.address = address
    BY DEF Stored
  <1>9. rows' = IF same = {} THEN rows \cup {new}
                ELSE (rows \ same) \cup {Seal(x, r) : x \in same}
    BY DEF Connect
  <1>10. \A x \in same : Seal(x, r) = new
    <2> SUFFICES ASSUME NEW x \in same PROVE Seal(x, r) = new
      OBVIOUS
    <2>1. x \in Row
      BY <1>8 DEF IInv, TypeOK
    <2> QED
      BY <1>2, <1>3, <1>5, <1>8, <2>1, SealType, SameRow
  <1>11. req' = [req EXCEPT ![w] = Idle] /\ UNCHANGED <<site, now, flows, codes, forms>>
    BY DEF Connect, Become
  <1>12. \A x \in rows : x \notin same =>
             ~(x.upn = upn /\ x.provider = provider /\ x.address = address)
    BY DEF Stored
  <1>13. /\ new.upn = upn /\ new.provider = provider /\ new.address = address
         /\ new.from = r.from /\ new.mailbox = r.mailbox /\ new.place = r.actor.place
    OBVIOUS
  <1>14. Guarded(provider, address)
    BY <1>4 DEF Connect, Guarded, Hosted
  <1> HIDE DEF r, upn, provider, address, same, new
  <1>15. rows' = (rows \ same) \cup {new}
    BY <1>9, <1>10
  <1>16. RowMeant(new)
    BY <1>4, <1>6, <1>7, <1>13, <1>14 DEF RowMeant
  <1>17. RowsMeant'
    <2>1. \A x \in rows' : RowMeant(x)
      BY <1>15, <1>16 DEF IInv, RowsMeant
    <2>2. ASSUME NEW x \in rows', NEW y \in rows',
                 x.upn = y.upn, x.provider = y.provider, x.address = y.address
          PROVE  x = y
      BY <1>12, <1>13, <1>15, <2>2 DEF IInv, RowsMeant
    <2> QED
      BY <2>1, <2>2 DEF RowsMeant
  <1>18. TypeOK'
    BY <1>5, <1>11, <1>15 DEF IInv, TypeOK
  <1>19. FlowsMeant'
    BY <1>11 DEF IInv, FlowsMeant
  <1>20. ASSUME NEW v \in Workers
         PROVE  RequestMeant(req[v])'
    <2>1. RequestMeant(Idle)
      BY DEF RequestMeant, Idle
    <2>2. req'[v] \in {Idle, req[v]}
      BY <1>11 DEF IInv, TypeOK
    <2>3. RequestMeant(req'[v])
      BY <2>1, <2>2 DEF IInv, RequestsMeant
    <2> QED
      BY <1>11, <2>3 DEF RequestMeant, ExchangeMeant, ConnectMeant
  <1> QED
    BY <1>17, <1>18, <1>19, <1>20 DEF IInv, RequestsMeant

-----------------------------------------------------------------------------
(***************************************************************************)
(* What begins, and the invariant as a whole.                              *)
(***************************************************************************)

(* What is started is started for the person who asks.                     *)
LEMMA AppendStarted ==
    ASSUME TypeOK, NEW a \in Actors, NEW provider \in Providers,
           NEW s \in Seq(Started),
           NEW t, t = Append(s, [upn |-> a.upn, provider |-> provider, at |-> now])
    PROVE  /\ t \in Seq(Started) /\ Len(t) = Len(s) + 1 /\ DOMAIN s \subseteq DOMAIN t
           /\ \A i \in DOMAIN s : t[i] = s[i]
           /\ \A i \in DOMAIN t : i \in DOMAIN s \/ (t[i].at = now /\ t[i].provider = provider)
  <1> DEFINE new == [upn |-> a.upn, provider |-> provider, at |-> now]
  <1>1. a.upn \in People /\ now \in Times
    BY ActorsAct DEF Actor, TypeOK
  <1>2. new \in Started /\ new.at = now /\ new.provider = provider
    BY <1>1 DEF Started
  <1> HIDE DEF new
  <1>3. t = Append(s, new)
    BY DEF new
  <1>4. /\ t \in Seq(Started) /\ Len(t) = Len(s) + 1
        /\ \A i \in 1 .. Len(s) : t[i] = s[i]
        /\ t[Len(s) + 1] = new
    BY <1>2, <1>3, AppendProperties
  <1>5. DOMAIN s = 1 .. Len(s) /\ DOMAIN t = 1 .. Len(s) + 1 /\ Len(s) \in Nat
    BY <1>4, LenProperties
  <1> QED
    BY <1>2, <1>4, <1>5

LEMMA BeginMeans ==
    ASSUME IInv, NEW a \in Actors, Begin(a)
    PROVE  IInv'
  <1> USE DEF IInv
  <1>1. ASSUME NEW provider \in Clients, accounts_connect(a, provider)
        PROVE  IInv'
    <2>1. provider \in Providers /\ provider # "imap"
      BY DataAssumption, SiteType DEF Clients
    <2>2. /\ Len(flows) < MaxFlows
          /\ flows' = Append(flows, [upn |-> a.upn, provider |-> provider, at |-> now])
          /\ UNCHANGED <<site, now, codes, forms, rows, req>>
      BY <1>1 DEF accounts_connect
    <2>3. /\ flows' \in Seq(Started) /\ Len(flows') = Len(flows) + 1
          /\ DOMAIN flows \subseteq DOMAIN flows'
          /\ \A f \in DOMAIN flows : flows'[f] = flows[f]
          /\ \A f \in DOMAIN flows' :
                 f \in DOMAIN flows \/ (flows'[f].at = now /\ flows'[f].provider = provider)
      <3>1. TypeOK /\ flows \in Seq(Started)
        BY DEF TypeOK
      <3> QED
        BY <2>1, <2>2, <3>1, AppendStarted
    <2>4. TypeOK'
      <3>1. Len(flows') <= MaxFlows
        BY <2>2, <2>3, Numbers, LenProperties DEF TypeOK
      <3> QED
        BY <2>2, <2>3, <3>1 DEF TypeOK
    <2>5. FlowsMeant'
      BY <2>1, <2>2, <2>3, Numbers DEF FlowsMeant
    <2>6. RequestsMeant'
      <3> SUFFICES ASSUME NEW w \in Workers PROVE RequestMeant(req[w])'
        BY DEF RequestsMeant
      <3>1. RequestMeant(req[w])
        BY DEF RequestsMeant
      <3> QED
        BY <2>2, <2>3, <3>1 DEF RequestMeant, ExchangeMeant, ConnectMeant
    <2>7. RowsMeant'
      BY <2>2 DEF RowsMeant
    <2> QED
      BY <2>4, <2>5, <2>6, <2>7
  <1>2. ASSUME RenderForm(a)
        PROVE  IInv'
    <2>1. /\ Len(forms) < MaxForms
          /\ forms' = Append(forms, [upn |-> a.upn, provider |-> "imap", at |-> now])
          /\ UNCHANGED <<site, now, flows, codes, rows, req>>
      BY <1>2 DEF RenderForm
    <2>2. /\ forms' \in Seq(Started) /\ Len(forms') = Len(forms) + 1
          /\ \A n \in DOMAIN forms : forms'[n] = forms[n]
          /\ \A n \in DOMAIN forms' :
                 n \in DOMAIN forms \/ (forms'[n].at = now /\ forms'[n].provider = "imap")
      <3>1. TypeOK /\ forms \in Seq(Started) /\ "imap" \in Providers
        BY DEF TypeOK, Providers
      <3> QED
        BY <2>1, <3>1, AppendStarted
    <2>3. TypeOK'
      <3>1. Len(forms') <= MaxForms
        BY <2>1, <2>2, Numbers, LenProperties DEF TypeOK
      <3> QED
        BY <2>1, <2>2, <3>1 DEF TypeOK
    <2>4. FlowsMeant'
      BY <2>1, <2>2, Numbers DEF FlowsMeant
    <2>5. RequestsMeant' /\ RowsMeant'
      BY <2>1 DEF RequestsMeant, RequestMeant, ExchangeMeant, ConnectMeant, RowsMeant
    <2> QED
      BY <2>3, <2>4, <2>5
  <1>3. ASSUME NEW x \in rows, disconnect_account(a, x)
        PROVE  IInv'
    <2>1. rows' \subseteq rows /\ UNCHANGED <<site, now, flows, codes, forms, req>>
      BY <1>3 DEF disconnect_account
    <2>2. TypeOK' /\ FlowsMeant'
      BY <2>1 DEF TypeOK, FlowsMeant
    <2>3. RequestsMeant' /\ RowsMeant'
      BY <2>1 DEF RequestsMeant, RequestMeant, ExchangeMeant, ConnectMeant, RowsMeant
    <2> QED
      BY <2>2, <2>3
  <1> QED
    BY <1>1, <1>2, <1>3 DEF Begin

LEMMA ConsentMeans ==
    ASSUME IInv, NEW f \in DOMAIN flows, NEW m \in Mailboxes, Consent(f, m)
    PROVE  IInv'
  <1> DEFINE new == [flow |-> f, mailbox |-> m, spent |-> FALSE]
  <1>1. /\ codes' = Append(codes, new) /\ Len(codes) < MaxCodes
        /\ m.provider = flows[f].provider
        /\ UNCHANGED <<site, now, flows, forms, rows, req>>
    BY DEF Consent
  <1>2. new \in Code /\ new.flow = f /\ new.mailbox = m
    BY Numbered DEF Code, IInv
  <1>3. codes \in Seq(Code)
    BY DEF IInv, TypeOK
  <1> HIDE DEF new
  <1>4. /\ codes' \in Seq(Code) /\ Len(codes') = Len(codes) + 1
        /\ \A i \in 1 .. Len(codes) : codes'[i] = codes[i]
        /\ codes'[Len(codes) + 1] = new
    BY <1>1, <1>2, <1>3, AppendProperties
  <1>5. /\ DOMAIN codes = 1 .. Len(codes) /\ DOMAIN codes' = 1 .. Len(codes) + 1
        /\ Len(codes) \in Nat
    BY <1>3, <1>4, LenProperties
  <1>6. TypeOK'
    <2>1. Len(codes') <= MaxCodes
      BY <1>1, <1>4, <1>5, Numbers DEF IInv
    <2> QED
      BY <1>1, <1>4, <2>1 DEF IInv, TypeOK
  <1>7. FlowsMeant'
    <2>1. ASSUME NEW c \in DOMAIN codes'
          PROVE  /\ codes'[c].flow \in DOMAIN flows
                 /\ codes'[c].mailbox.provider = flows[codes'[c].flow].provider
      <3>1. CASE c \in DOMAIN codes
        BY <1>4, <1>5, <3>1 DEF IInv, FlowsMeant
      <3>2. CASE c = Len(codes) + 1
        BY <1>1, <1>2, <1>4, <3>2
      <3> QED
        BY <1>5, <3>1, <3>2
    <2> QED
      BY <1>1, <2>1 DEF IInv, FlowsMeant
  <1>8. RequestsMeant'
    <2> SUFFICES ASSUME NEW w \in Workers PROVE RequestMeant(req[w])'
      BY DEF RequestsMeant
    <2>1. RequestMeant(req[w])
      BY DEF IInv, RequestsMeant
    <2> QED
      BY <1>1, <1>5, <2>1 DEF RequestMeant, ExchangeMeant, ConnectMeant
  <1>9. RowsMeant'
    BY <1>1 DEF IInv, RowsMeant
  <1> QED
    BY <1>6, <1>7, <1>8, <1>9 DEF IInv

LEMMA TimeMeans ==
    ASSUME IInv, Tick \/ UNCHANGED vars
    PROVE  IInv'
  <1>1. /\ UNCHANGED <<site, flows, codes, forms, rows, req>>
        /\ now' \in Times /\ now' \in Nat /\ now <= now'
    BY Numbers DEF IInv, TypeOK, Tick, vars, Times
  <1>2. TypeOK'
    BY <1>1 DEF IInv, TypeOK
  <1>3. FlowsMeant'
    <2>1. \A s \in Started : s.at <= now => s.at <= now'
      BY <1>1, Numbers DEF IInv
    <2> QED
      BY <1>1, <2>1, Numbered DEF IInv, FlowsMeant
  <1>4. RequestsMeant' /\ RowsMeant'
    BY <1>1 DEF IInv, RequestsMeant, RequestMeant, ExchangeMeant, ConnectMeant, RowsMeant
  <1> QED
    BY <1>2, <1>3, <1>4 DEF IInv

LEMMA InitIInv == Init => IInv
  <1> SUFFICES ASSUME Init PROVE IInv
    OBVIOUS
  <1>1. TypeOK
    <2>1. now \in Times /\ 0 <= MaxFlows /\ 0 <= MaxCodes /\ 0 <= MaxForms
      BY BoundsAssumption DEF Init, Times
    <2> QED
      BY <2>1, EmptySeq DEF Init, TypeOK
  <1>2. FlowsMeant /\ RowsMeant
    BY DEF Init, FlowsMeant, RowsMeant
  <1>3. RequestsMeant
    BY DEF Init, RequestsMeant, RequestMeant, Idle
  <1> QED
    BY <1>1, <1>2, <1>3 DEF IInv

LEMMA StepIInv ==
    ASSUME IInv, [Next]_vars
    PROVE  IInv'
  <1>1. CASE Tick \/ UNCHANGED vars
    BY <1>1, TimeMeans
  <1>2. ASSUME NEW a \in Actors, Begin(a)
        PROVE  IInv'
    BY <1>2, BeginMeans
  <1>3. ASSUME NEW a \in Actors, NEW w \in Workers, Arrive(w, a)
        PROVE  IInv'
    BY <1>3, ArriveMeans
  <1>4. ASSUME NEW f \in DOMAIN flows, NEW m \in site, Consent(f, m)
        PROVE  IInv'
    BY <1>4, SiteType, ConsentMeans
  <1>5. ASSUME NEW w \in Workers, TurnAway(w) \/ Step(w)
        PROVE  IInv'
    BY <1>5, EndsWell, ExchangeMeans, ProbeMeans, ConnectMeans DEF Step
  <1> QED
    BY <1>1, <1>2, <1>3, <1>4, <1>5 DEF Next

-----------------------------------------------------------------------------
(* Every reachable state of OAuthFlow is well typed.                       *)
THEOREM TypeCorrect == Spec => []TypeOK
  <1>1. IInv => TypeOK
    BY DEF IInv
  <1> QED
    BY <1>1, InitIInv, StepIInv, PTL DEF Spec

(* Every connected mailbox goes back to an authorization or form that its  *)
(* owner started for that provider, and no longer ago than the code allows *)
(* (StateSigner, check_csrf), whatever the browsers repeat, delay or mix.  *)
THEOREM OwnersStartTheirOwn == Spec => []StartedByItsOwner
  <1>1. IInv => StartedByItsOwner
    BY DEF IInv, RowsMeant, RowMeant, Owned, MaxAge, StartedByItsOwner
  <1> QED
    BY <1>1, InitIInv, StepIInv, PTL DEF Spec

(* A person has one row for a mailbox, in whichever spellings and however  *)
(* often, also at the same time, it is connected (connect_oauth_account,   *)
(* connect_imap_account).                                                  *)
THEOREM MailboxesHaveOneRow == Spec => []OneRowPerMailbox
  <1>1. IInv => OneRowPerMailbox
    <2> SUFFICES ASSUME IInv, NEW x \in rows, NEW y \in rows,
                        x.upn = y.upn, x.provider = y.provider,
                        x.address.name = y.address.name
                 PROVE  x = y
      BY DEF OneRowPerMailbox
    <2>1. x.address \in Spelled /\ y.address \in Spelled
      BY DEF IInv, TypeOK, Row
    <2>2. x.address.lower = y.address.lower
      BY <2>1 DEF IInv, RowsMeant, RowMeant, Spelled
    <2>3. x.address = y.address
      BY <2>1, <2>2, SameSpelling
    <2> QED
      BY <2>3 DEF IInv, RowsMeant
  <1> QED
    BY <1>1, InitIInv, StepIInv, PTL DEF Spec

(* What the browser connected is shown under the address of the mailbox    *)
(* that its credential opens: a callback that redeems a code is of the     *)
(* flow the code was given for, and takes no label from elsewhere          *)
(* (oauth_callback, OAuthClient.exchange).                                 *)
THEOREM LabelsAreTrue == Spec => []LabelIsTheMailbox
  <1>1. IInv => LabelIsTheMailbox
    BY DEF IInv, RowsMeant, RowMeant, LabelIsTheMailbox
  <1> QED
    BY <1>1, InitIInv, StepIInv, PTL DEF Spec

(* So what the browser connects is of the hosted domain while personal     *)
(* Gmail is off ("Personal Gmail over OAuth stays off unless verification  *)
(* is declared", _guard_personal_gmail).  It is not so of the command      *)
(* line, where --address takes the mailbox's place before the guard.       *)
HostedInTheBrowser ==
    ~PersonalGmail =>
        \A x \in rows : x.provider = "gmail" /\ x.place = "web" => x.mailbox.workspace

THEOREM BrowserGmailIsHosted ==
    ASSUME \A m, n \in Mailboxes : m.name = n.name => m.workspace = n.workspace
    PROVE  Spec => []HostedInTheBrowser
  <1>1. IInv => HostedInTheBrowser
    <2> SUFFICES ASSUME IInv, ~PersonalGmail, NEW x \in rows,
                        x.provider = "gmail", x.place = "web"
                 PROVE  x.mailbox.workspace
      BY DEF HostedInTheBrowser
    <2>1. x.mailbox \in Mailboxes
      BY DEF IInv, TypeOK, Row
    <2>2. Hosted(x.address) /\ x.address = NameOf(x.mailbox)
      BY DEF IInv, RowsMeant, RowMeant, Guarded
    <2>3. PICK m \in Mailboxes : m.name = x.mailbox.name /\ m.workspace
      BY <2>1, <2>2, NameOfType DEF Hosted
    <2>4. m.workspace = x.mailbox.workspace
      BY <2>1, <2>3
    <2> QED
      BY <2>3, <2>4
  <1> QED
    BY <1>1, InitIInv, StepIInv, PTL DEF Spec

(* A request acts for the person who sent it, in whichever of its ways     *)
(* Entra wrote them, and one that did not pass Easy Auth for the           *)
(* development principal alone (principal_from_headers, resolve_principal).*)
THEOREM NobodyActsForAnother == Spec => []ActsForItsSender
  <1>1. IInv => ActsForItsSender
    BY DEF IInv, RequestsMeant, RequestMeant, ActsFor, ActsForItsSender
  <1> QED
    BY <1>1, InitIInv, StepIInv, PTL DEF Spec

(* Where the list is of the domain, and holds no guest whose address has   *)
(* an underscore, everybody on it is let in, however Entra writes them     *)
(* (_normalise, allowlist.check).                                          *)
THEOREM TheListedGetIn ==
    ASSUME RequiredDomain # None,
           \A p \in Listed : p.domain = <<RequiredDomain>>,
           \A p \in Listed \cap Guests : Len(p.local) = 1
    PROVE  Spec => []ListedAreAdmitted
  <1>1. ASSUME NEW v \in Visitors, v.sender # None, v.sender \in Listed
        PROVE  Admitted(v.upn)
    <2> DEFINE p == v.sender
               guest == p \in Guests
    <2>1. p \in People
      BY <1>1, VisitorsAre
    <2>2. PICK h \in P!Presentations(p, guest) : v.upn = P!resolve_principal(h)
      BY <1>1, VisitorsAre
    <2>3. guest \in BOOLEAN
      OBVIOUS
    <2>4. \A t \in P!Writings(p, guest) : P!Normalise(t) = p
      <3> SUFFICES ASSUME NEW t \in P!Writings(p, guest) PROVE P!Normalise(t) = p
        OBVIOUS
      <3>1. t = P!Plain(p) \/ guest
        BY DEF P!Writings
      <3>2. t = P!Plain(p) \/ Len(p.local) = 1
        BY <1>1, <3>1
      <3> HIDE DEF guest
      <3> QED
        BY <2>1, <2>3, <3>2, NormalisedIsPerson
    <2> HIDE DEF guest
    <2>5. v.upn = p
      BY <2>1, <2>2, <2>3, <2>4, PresentedIsPerson
    <2>6. p \notin {Refused, Inconsistent}
      BY <2>1, PeopleAssumption
    <2> QED
      BY <1>1, <2>5, <2>6 DEF Admitted, P!domain_allowed
  <1>2. Init => ListedAreAdmitted
    BY DEF Init, ListedAreAdmitted, Idle
  <1>3. IInv /\ ListedAreAdmitted /\ [Next]_vars => ListedAreAdmitted'
    <2> SUFFICES ASSUME IInv, ListedAreAdmitted, [Next]_vars,
                        NEW w \in Workers, req'[w].op = "denied"
                 PROVE  req'[w].sender \notin Listed
      BY DEF ListedAreAdmitted
    <2>1. CASE req'[w] = req[w]
      BY <2>1 DEF ListedAreAdmitted
    <2>2. CASE TurnAway(w)
      <3>1. PICK v \in Visitors :
                v.sender # None /\ ~Admitted(v.upn)
                /\ req' = [req EXCEPT ![w] = [op |-> "denied", sender |-> v.sender]]
        BY <2>2 DEF TurnAway, Become
      <3>2. req'[w].sender = v.sender
        BY <3>1 DEF IInv, TypeOK
      <3> QED
        BY <1>1, <3>1, <3>2
    <2>3. req'[w] = req[w] \/ TurnAway(w)
      <3>1. req \in [Workers -> {Idle} \cup Denied \cup Callback \cup Connecting]
        BY DEF IInv, TypeOK
      <3>2. CASE UNCHANGED req
        BY <3>2
      <3>3. ASSUME NEW u \in Workers, TurnAway(u)
            PROVE  req'[w] = req[w] \/ TurnAway(w)
        BY <3>1, <3>3 DEF TurnAway, Become
      <3>4. ASSUME NEW u \in Workers, NEW r, r.op # "denied", Become(u, r)
            PROVE  req'[w] = req[w]
        BY <3>1, <3>4 DEF Become
      <3>5. ASSUME NEW u \in Workers, Step(u)
            PROVE  req'[w] = req[w]
        <4>1. CASE Fail(u)
          BY <3>4, <4>1 DEF Fail, Idle
        <4>2. CASE Connect(u)
          BY <3>4, <4>2 DEF Connect, Idle
        <4>3. CASE Probe(u)
          <5>1. req[u] \in Connecting
            BY <4>3, ShapeOfRequest DEF Probe, IInv
          <5>2. [req[u] EXCEPT !.op = "connect"].op # "denied"
            BY <5>1 DEF Connecting
          <5> QED
            BY <3>4, <4>3, <5>2 DEF Probe
        <4>4. CASE \E answer \in Answers : Exchange(u, answer)
          BY <3>4, <4>4 DEF Exchange
        <4> QED
          BY <3>5, <4>1, <4>2, <4>3, <4>4 DEF Step
      <3>6. ASSUME NEW u \in Workers, NEW a \in Actors, Arrive(u, a)
            PROVE  req'[w] = req[w]
        BY <3>4, <3>6 DEF Arrive, oauth_callback, cmd_account_connect, LetIn,
                          accounts_connect_imap, cmd_account_connect_imap, Post
      <3> QED
        BY <3>2, <3>3, <3>5, <3>6
        DEF Next, vars, Tick, Begin, accounts_connect, RenderForm, disconnect_account, Consent
    <2> QED
      BY <2>1, <2>2, <2>3
  <1> QED
    BY <1>2, <1>3, InitIInv, StepIInv, PTL DEF Spec
=============================================================================
