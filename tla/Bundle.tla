------------------------------- MODULE Bundle -------------------------------
(***************************************************************************)
(* The bundle that is made of a submitted report (bundle.py), and the      *)
(* amounts in it, which filters.py read off the messages.                  *)
(*                                                                         *)
(* A report is built up and then bundled: items are added, one request     *)
(* after the other (Reports, UserRowFree), and removed, which numbers the  *)
(* rest anew.  An item comes with the files that submitting it will make.  *)
(* A file name is the tuple of its parts; hash, date, sender and           *)
(* justification are carried along unread and left out.                    *)
(***************************************************************************)
EXTENDS Integers, Sequences, FiniteSets, SequencesExt, FiniteSetsExt, Selection

CONSTANTS
    Prices,     \* prices as messages write them, see Price
    Stems,      \* vendor hint or subject, after slugify
    FileLists,  \* the suffixes of the files of an item, in order
    MaxItems    \* bound: items a report may be given

VARIABLES
    added,  \* the number of items ever added: an item's place in created_at
    report  \* the items the report has, by that place: the columns of their
            \* rows (AddItem), and the price each message names

vars == <<added, report>>

-----------------------------------------------------------------------------
(***************************************************************************)
(* Reading an amount (filters.py).  What _AMOUNT_RE calls number is        *)
(* groups of digits, here their values and lengths, and what is between.   *)
(***************************************************************************)
ZeroMinor == {"JPY"}
Unit(currency) == IF currency \in ZeroMinor THEN 1 ELSE 100
Magnitude(n) == IF n < 0 THEN -n ELSE n

\* A price: its value in the currency's minor unit, what groups its digits, and
\* what stands before the minor unit, if anything: without it the price is
\* whole.  after is the word that follows it, behind a space.  Bound: prices are
\* below a million, which is fewer digits than RejectNumber takes.
Price ==
    {p \in [minor: Int, currency: {"USD", "EUR", "JPY"},
            group: {"", ",", "."}, point: {"", ",", "."}, after: STRING] :
        /\ Magnitude(p.minor) < 10 ^ 6 * Unit(p.currency)
        /\ p.point = "" => Magnitude(p.minor) % Unit(p.currency) = 0
        /\ p.group # "" => p.group # p.point}

ASSUME PricesAssumption ==
    /\ Prices \subseteq Price
    /\ FileLists \subseteq Seq(STRING)
    /\ <<>> \notin FileLists
    /\ MaxItems \in Nat

Digits(n) == CHOOSE d \in 1 .. 10 : n < 10 ^ d /\ (d = 1 \/ n >= 10 ^ (d - 1))

\* How the sender writes a price.
Number(p) ==
    LET whole == Magnitude(p.minor) \div Unit(p.currency)
        group(n, len) == [value |-> n, len |-> len]
        grouped == p.group # "" /\ whole >= 1000
        front == IF grouped
                 THEN <<group(whole \div 1000, Digits(whole \div 1000)),
                        group(whole % 1000, 3)>>
                 ELSE <<group(whole, Digits(whole))>>
        minor == IF p.point = "" THEN <<>>
                 ELSE <<group(Magnitude(p.minor) % Unit(p.currency), 2)>>
    IN  [groups |-> front \o minor,
         seps |-> (IF grouped THEN <<p.group>> ELSE <<>>)
                  \o (IF p.point = "" THEN <<>> ELSE <<p.point>>)]

Joined(groups) ==
    FoldLeft(LAMBDA n, g : n * 10 ^ g.len + g.value, 0, groups)

(* Mutant: a point is always decimal. *)
HasFractionAtPoint(number) ==
    /\ number.seps # <<>>
    /\ Last(number.seps) = "." \/ Last(number.groups).len = 2

\* A number with both separators ends in a fraction, and so does one whose last
\* group has two digits.
HasFraction(number) ==
    /\ number.seps # <<>>
    /\ \/ Cardinality(ToSet(number.seps)) = 2
       \/ Last(number.groups).len = 2

ParseNumber(number, currency) ==
    LET fraction == HasFraction(number)
        whole == IF fraction THEN Joined(Front(number.groups)) ELSE Joined(number.groups)
    IN  IF currency \in ZeroMinor
        THEN whole
        ELSE whole * 100 + (IF fraction THEN Last(number.groups).value ELSE 0)

\* What a number and a space are followed by when it is not money.
OtherUnits == {"%", "percent", "tracking", "order"}

\* What looks like a year, what is too long, and what one of these words follows,
\* is not taken for an amount.
Year(number) ==
    /\ number.seps = <<>>
    /\ number.groups[1].len = 4
    /\ number.groups[1].value \in 1900 .. 2100

DigitCount(groups) == FoldLeft(LAMBDA n, g : n + g.len, 0, groups)

RejectNumber(number, after) ==
    \/ after \in OtherUnits
    \/ Year(number)
    \/ DigitCount(number.groups) > 9

NoAmount == [cents |-> 0, currency |-> "none"]

\* A message has one price here: of several the code takes the largest.
ExtractAmount(p) ==
    LET cents == ParseNumber(Number(p), p.currency)
    IN  IF RejectNumber(Number(p), p.after)
        THEN NoAmount
        ELSE [cents |-> IF p.minor < 0 THEN -cents ELSE cents, currency |-> p.currency]

\* Digits before the minor unit, and two after it where there is one.
FormatAmount(cents, currency) ==
    IF currency \in ZeroMinor
    THEN [negative |-> cents < 0, whole |-> Magnitude(cents), minor |-> 0]
    ELSE [negative |-> cents < 0, whole |-> Magnitude(cents) \div 100,
          minor |-> Magnitude(cents) % 100]

-----------------------------------------------------------------------------
(***************************************************************************)
(* The report.                                                             *)
(***************************************************************************)
Init ==
    /\ added = 0
    /\ report = [i \in {} |-> 0]

Before(i, j) ==
    \/ report[i].position < report[j].position
    \/ report[i].position = report[j].position /\ i < j

Order ==
    CHOOSE items \in [1 .. Cardinality(DOMAIN report) -> DOMAIN report] :
        \A m, n \in DOMAIN items : m < n => Before(items[m], items[n])

LastPosition == IF report = <<>> THEN 0
                ELSE Max({report[i].position : i \in DOMAIN report})

AddItem(price, stem, files) ==
    /\ added < MaxItems
    /\ report' = [i \in DOMAIN report \cup {added + 1} |->
           IF i = added + 1
           THEN [position |-> 1 + LastPosition, price |-> price,
                 stem |-> stem, files |-> files, amount |-> ExtractAmount(price)]
           ELSE report[i]]
    /\ added' = added + 1

(* Mutant: the items left keep their positions. *)
RemoveItemOnly(i) ==
    /\ i \in DOMAIN report
    /\ report' = [j \in DOMAIN report \ {i} |-> report[j]]
    /\ UNCHANGED added

RemoveItem(i) ==
    /\ i \in DOMAIN report
    /\ report' = [j \in DOMAIN report \ {i} |-> [report[j] EXCEPT
           !.position = 1 + Cardinality({k \in DOMAIN report \ {i} : Before(k, j)})]]
    /\ UNCHANGED added

Next ==
    \/ \E p \in Prices, s \in Stems, f \in FileLists : AddItem(p, s, f)
    \/ \E i \in 1 .. MaxItems : RemoveItem(i)

Spec == Init /\ [][Next]_vars

-----------------------------------------------------------------------------
(***************************************************************************)
(* The bundle.                                                             *)
(***************************************************************************)

\* The items are counted from 1 in the order of the report.
Index(i) == 1 + Cardinality({j \in DOMAIN report : Before(j, i)})

(* Mutant: the second name is taken without looking. *)
EntryNameTwice(i, suffix, taken) ==
    LET name(n) == <<Index(i), report[i].stem, n, suffix>>
    IN  IF name(1) \in taken THEN name(2) ELSE name(1)

\* _entry_name: the first name that is not taken, without a number or from 2.
EntryName(i, suffix, taken) ==
    LET name(n) == <<Index(i), report[i].stem, n, suffix>>
    IN  name(Min({n \in 1 .. Cardinality(taken) + 1 : name(n) \notin taken}))

Names(entries) == {entries[n].path : n \in DOMAIN entries}

Artifacts ==
    LET items == Order
    IN  FlattenSeq([n \in DOMAIN items |->
            [k \in DOMAIN report[items[n]].files |->
                [item |-> items[n], suffix |-> report[items[n]].files[k]]]])

CollectEntries ==
    LET artifacts == Artifacts
        Entry(a, taken) == [item |-> a.item, path |-> EntryName(a.item, a.suffix, taken)]
        collect[n \in 0 .. Len(artifacts)] ==
            IF n = 0 THEN <<>>
            ELSE Append(collect[n - 1], Entry(artifacts[n], Names(collect[n - 1])))
    IN  collect[Len(artifacts)]

Amount(i) == report[i].amount
Priced == {i \in DOMAIN report : Amount(i) # NoAmount}
Currencies == {Amount(i).currency : i \in Priced}
TotalCents == FoldLeft(LAMBDA n, i : n + (IF i \in Priced THEN Amount(i).cents ELSE 0),
                       0, Order)

(* Mutant: any of the currencies will do. *)
SingleCurrencyAny(currencies) ==
    IF currencies # {} THEN CHOOSE c \in currencies : TRUE ELSE "none"

SingleCurrency(currencies) ==
    IF Cardinality(currencies) = 1 THEN CHOOSE c \in currencies : TRUE ELSE "none"

(* Mutant: of the files of an item the last is listed. *)
ItemEntriesLast(entries, i) ==
    <<Last(SelectSeq(entries, LAMBDA e : e.item = i))>>

\* The files of an item, of all that were collected.
ItemEntries(entries, i) == Select(entries, {e \in ToSet(entries) : e.item = i})

\* In JSON a field is null, <<>>, or has a value.
ManifestItem(entries, i, index) ==
    LET files == ItemEntries(entries, i)
        amount == Amount(i)
    IN  [index |-> index,
         amount |-> IF amount # NoAmount
                    THEN FormatAmount(amount.cents, amount.currency) ELSE NoAmount,
         amount_cents |-> IF amount # NoAmount THEN <<amount.cents>> ELSE <<>>,
         currency |-> amount.currency,
         artifacts |-> [k \in DOMAIN files |-> files[k].path]]

BuildManifest(entries) ==
    LET items == Order
        currency == SingleCurrency(Currencies)
    IN  [items |-> [n \in DOMAIN items |-> ManifestItem(entries, items[n], n)],
         totals |-> [currency |-> currency,
                     currencies |-> Currencies,
                     amount_cents |-> <<TotalCents>>,
                     amount |-> IF currency # "none"
                                THEN FormatAmount(TotalCents, currency) ELSE NoAmount]]

BuildApply(manifest) ==
    FlattenSeq([n \in DOMAIN manifest.items |->
        [k \in DOMAIN manifest.items[n].artifacts |->
            [file |-> manifest.items[n].artifacts[k],
             amount |-> manifest.items[n].amount,
             currency |-> manifest.items[n].currency]]])

-----------------------------------------------------------------------------
(***************************************************************************)
(* Properties.                                                             *)
(***************************************************************************)

\* What somebody reads in a decimal amount, in minor units.
Reading(text, currency) ==
    LET n == text.whole * Unit(currency) + text.minor
    IN  IF text.negative THEN -n ELSE n

\* The archive never holds two files under one name, whatever vendor, subject
\* and suffix the items and files share (_entry_name, collision-safe).
NamesApart ==
    LET entries == CollectEntries
    IN  \A m, n \in DOMAIN entries : entries[m].path = entries[n].path => m = n

\* The number in a file's name is the index under which the manifest has the
\* item, which the two count separately (collect_entries, build_manifest), and
\* its position, which adding and removing keep ("the number is the item's
\* 1-based position", docs/CCWORKS-HANDOFF.md).
NumbersAgree ==
    LET manifest == BuildManifest(CollectEntries)
    IN  \A n \in DOMAIN manifest.items :
            /\ report[Order[n]].position = manifest.items[n].index
            /\ \A path \in ToSet(manifest.items[n].artifacts) :
                   path[1] = manifest.items[n].index

\* Every file of the archive is in the payload for ccworks, once, and with the
\* amount of the item it belongs to (build_apply_json: one entry per artifact).
EveryFileHasAPlace ==
    LET entries == CollectEntries
        apply == BuildApply(BuildManifest(entries))
    IN  /\ Len(apply) = Len(entries)
        /\ \A e \in ToSet(entries) : \E r \in ToSet(apply) :
               /\ r.file = e.path
               /\ r.currency = Amount(e.item).currency
               /\ r.amount # NoAmount =>
                      Reading(r.amount, r.currency) = Amount(e.item).cents

\* The manifest states the price the message named, to the minor unit and in
\* either way of writing it, as text and as a number of minor units.  It states
\* none just where the price was a bare number that looks like a year, or where
\* a word behind it says it is no price, which "order" does in "your $45.00
\* order" too (extract_amount, _reject_number, format_amount).
AmountsAreRead ==
    LET manifest == BuildManifest(CollectEntries)
        items == Order
    IN  \A n \in DOMAIN items :
            LET price == report[items[n]].price
                stated == manifest.items[n]
            IN  IF Year(Number(price)) \/ price.after \in OtherUnits
                THEN stated.amount = NoAmount /\ stated.amount_cents = <<>>
                ELSE /\ stated.amount # NoAmount
                     /\ stated.currency = price.currency
                     /\ Reading(stated.amount, price.currency) = price.minor
                     /\ stated.amount_cents = <<price.minor>>

\* When all amounts are in one currency the total is what they add up to for
\* somebody who reads the list, as text and in minor units; when they are not,
\* no text states one (build_manifest).  What amount_cents is then, the sum over
\* all currencies, is contrary to the comment there and not part of this.
TotalIsTheSum ==
    LET manifest == BuildManifest(CollectEntries)
        total == manifest.totals
        stated == {n \in DOMAIN manifest.items : manifest.items[n].amount # NoAmount}
        sum == FoldSet(LAMBDA n, s :
                   s + Reading(manifest.items[n].amount, manifest.items[n].currency),
                   0, stated)
        currencies == {manifest.items[n].currency : n \in stated}
    IN  /\ total.currencies = currencies
        /\ IF Cardinality(currencies) = 1
           THEN /\ total.currency \in currencies
                /\ Reading(total.amount, total.currency) = sum
                /\ total.amount_cents = <<sum>>
           ELSE total.amount = NoAmount
=============================================================================
