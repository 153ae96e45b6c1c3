------------------------------- MODULE Browse -------------------------------
(***************************************************************************)
(* Browsing a month of a mailbox (browse.py): through the header cache to  *)
(* Microsoft Graph or Gmail (connectors/graph.py, connectors/gmail.py),    *)
(* which list the month page by page while mail comes and goes and the     *)
(* provider throttles; then scored, narrowed, sorted and kept.             *)
(*                                                                         *)
(* Headers are known by their message.  A narrowing of the browse, by      *)
(* subject, sender or attachments, is a filter; that a query names folders *)
(* is left out, and so are IMAP, which Imap.tla has, and what the accounts *)
(* page does.  Credentials and overlapping disconnects are in Mailbox.tla. *)
(***************************************************************************)
EXTENDS Period, Sequences, FiniteSets, SequencesExt, Selection

CONSTANTS
    Workers, Accounts, Messages, Filters,
    NoFilter,      \* the browse of the whole month
    None,          \* no message: a browse that selects none
    Signals,       \* what score_message sees in each message
    Matches,       \* the messages whose header each filter matches
    FoundByGmail,  \* those that Gmail's own search finds for it
    Delay,         \* how long before its receipt a message's Date header is
    Zone,          \* the tick of the UTC day at which a day of Gmail begins
    Sites,         \* providers, when the clock starts there, and who asks
    Periods,       \* the months that are asked for
    Limit,         \* DEFAULT_LIMIT
    CliLimits,     \* what --limit may be
    PageSize,      \* 100, the most that is asked for at once
    Attempts,      \* 4, how often a throttled provider is asked
    Window,        \* month_window
    Ttl, MaxEntries,  \* of the cache
    MaxTime,     \* bound: ticks of the clock
    MaxChanges   \* bound: changes of the mailbox while each process runs

ASSUME BrowseAssumption ==
    /\ None \notin Messages /\ NoFilter \in Filters
    /\ Matches \in [Filters -> SUBSET Messages] /\ Matches[NoFilter] = Messages
    /\ FoundByGmail \in [Filters -> SUBSET Messages]
    /\ FoundByGmail[NoFilter] = Messages
    /\ Delay \in [Messages -> Nat] /\ Zone \in 0 .. DayTicks
    /\ Periods \subseteq [year : Nat \ {0}, month : Nat]
    /\ Sites \subseteq [provider : {"graph", "gmail"}, origin : Nat,
                        process : {"web", "command"}]
    /\ Limit \in Nat \ {0} /\ CliLimits \subseteq Nat
    /\ PageSize \in Nat \ {0} /\ Attempts \in Nat \ {0} /\ Window \in Nat
    /\ Ttl \in Nat \ {0} /\ MaxEntries \in Nat \ {0}
    /\ MaxTime \in Nat /\ MaxChanges \in [{"web", "command"} -> Nat]

Query == [period : Periods, filter : Filters]

VARIABLES
    clock, entries, order, since,  \* of the cache
    lists,    \* what each entry of the cache lists
    site,     \* whose mailbox it is, when the clock started, and who asks
    box,      \* the messages in the mailbox, in the order they came
    mail,     \* with which change and when each message came, and when it went
    changes,  \* how often the mailbox has changed
    request   \* what each worker is asked, has found and has answered

cacheVars == <<clock, entries, order, since>>
mailVars == <<site, box, mail, changes>>
vars == <<cacheVars, lists, mailVars, request>>

Cache == INSTANCE HeaderCache WITH Queries <- Query

-----------------------------------------------------------------------------
(* Records.                                                                *)
Now == site.origin + clock

\* Message m came with change `nth`; 0 for none yet.
Mail == [nth : Nat, at : Nat, gone : 0 .. MaxTime]
NoMail == [nth |-> 0, at |-> 0, gone |-> 0]

\* `asof` is history: how often the mailbox had changed when it was listed, or
\* Torn when it changed meanwhile.
Torn == -1
Listed == [list : Seq(Messages), asof : Nat \cup {Torn}]

Asked == [pc : {"cache", "listing", "headers", "done"},
          ask : Cache!CacheKey, find : Messages \cup {None},
          limit : Nat, cursor : Nat, more : BOOLEAN,
          todo : Seq(Messages), out : Seq(Messages), tries : 0 .. Attempts - 1,
          asof : Nat]
Page == [pc : {"page"}, ask : Cache!CacheKey, shown : Seq(Messages)]
Ended == [pc : {"ended", "missing"}]
Busy(w) == request[w].pc \in {"cache", "listing", "headers", "done"}

TypeOK ==
    /\ Cache!TypeOK
    /\ DOMAIN lists = DOMAIN entries /\ \A k \in DOMAIN lists : lists[k] \in Listed
    /\ site \in Sites
    /\ box \in Seq(Messages)
    /\ mail \in [Messages -> Mail]
    /\ changes \in 0 .. MaxChanges[site.process]
    /\ request \in [Workers -> Asked \cup Page \cup Ended]

Init ==
    /\ Cache!Init
    /\ lists = [k \in {} |-> None]
    /\ site \in Sites
    /\ box = <<>>
    /\ mail = [m \in Messages |-> NoMail]
    /\ changes = 0
    /\ request = [w \in Workers |-> [pc |-> "ended"]]

-----------------------------------------------------------------------------
(* The mailbox.                                                            *)
Came == {m \in Messages : mail[m].nth > 0}

Change ==
    /\ changes < MaxChanges[site.process]
    /\ changes' = changes + 1
    /\ UNCHANGED <<cacheVars, lists, site, request>>

Arrive(m) ==
    /\ m \notin Came
    /\ box' = Append(box, m)
    /\ mail' = [mail EXCEPT ![m] = [nth |-> changes + 1, at |-> Now, gone |-> 0]]
    /\ Change

Leave(m) ==
    /\ m \in Range(box)
    /\ box' = Select(box, Messages \ {m})
    /\ mail' = [mail EXCEPT ![m].gone = clock]
    /\ Change

-----------------------------------------------------------------------------
(* What the providers list.                                                *)

\* Gmail reads a date as the midnight of one time zone, which is not UTC's.
Shift == IF site.provider = "gmail" THEN Zone ELSE 0

Bounds == [p \in {q \in Periods : q.month \in 1 .. 12} |-> month_bounds(p)]

InMonth(m, period) ==
    /\ Bounds[period].start + Shift <= mail[m].at
    /\ mail[m].at < Bounds[period].end + Shift

\* Graph is asked for the dates only.
Lists(m, q) ==
    /\ InMonth(m, q.period)
    /\ site.provider = "gmail" => m \in FoundByGmail[q.filter]

\* The rest of the listing, newest first: Graph's link to the next page skips
\* as many as it has given, Gmail's token goes on behind the last it gave.
Start == IF site.provider = "graph" THEN 0 ELSE MaxChanges[site.process] + 1
Rest(r) ==
    LET listing == Select(Reverse(box), {m \in Messages : Lists(m, r.ask.query)}) IN
    IF site.provider = "graph"
    THEN SubSeq(listing, r.cursor + 1, Len(listing))
    ELSE Select(listing, {m \in Messages : mail[m].nth < r.cursor})

-----------------------------------------------------------------------------
(* Scoring (filters.py).                                                   *)
Least(a, b) == IF a < b THEN a ELSE b

Score(m) ==
    LET s == Signals[m] IN
    (IF s.media THEN 3 ELSE 0) + Least(2 * s.keywords, 4)
    + (IF s.amount THEN 2 ELSE 0) + (IF s.vendor THEN 2 ELSE 0)
    - (IF s.marketing THEN 2 ELSE 0) - (IF s.calendar THEN 2 ELSE 0)

likely_receipt(m) == Score(m) >= 3

-----------------------------------------------------------------------------
(* A browse.                                                               *)
Begin(w, ask, find, limit) ==
    /\ ~Busy(w)
    /\ clamp_period(ask.query.period, Window, Now)
    /\ request' = [request EXCEPT ![w] =
           [pc |-> "cache", ask |-> ask, find |-> find, limit |-> limit,
            cursor |-> Start, more |-> TRUE, todo |-> <<>>, out |-> <<>>,
            tries |-> 0, asof |-> 0]]
    /\ UNCHANGED <<cacheVars, lists, mailVars>>

Ask(a, period, filter) ==
    [account |-> a, query |-> [period |-> period, filter |-> filter]]

(* Mutant: the filters are not in the key. *)
KeyOfTheMonth(r) == [r.ask EXCEPT !.query.filter = NoFilter]

\* CacheKey: everything that is asked but receipts_only and the limit.
Key(r) == r.ask

\* The page of a month on the web.
report_page(w, a, period, filter) ==
    /\ site.process = "web"
    /\ Begin(w, Ask(a, period, filter), None, Limit)

\* A message that a page shows is selected: find_header browses its month.
report_add_item(w, m) ==
    /\ request[w].pc = "page"
    /\ m \in Range(request[w].shown)
    /\ Begin(w, [request[w].ask EXCEPT !.query.filter = NoFilter], m, Limit)

\* Each command runs in a process of its own, whose cache is empty.
cmd_messages_list(w, a, period, filter, limit) ==
    /\ site.process = "command"
    /\ Begin(w, Ask(a, period, filter), None, limit)
cmd_report_add(w, a, period, m) ==
    /\ site.process = "command" /\ m \in Came
    /\ Begin(w, Ask(a, period, NoFilter), m, Limit)

-----------------------------------------------------------------------------
Set(w, r) == request' = [request EXCEPT ![w] = r]

\* receipts_only narrows what is shown, not what is kept.
View(list, receipts_only) ==
    IF receipts_only THEN Select(list, {m \in Messages : likely_receipt(m)}) ELSE list

Answer(w, r, list) ==
    IF r.find # None
    THEN Set(w, [pc |-> IF r.find \in Range(list) THEN "ended" ELSE "missing"])
    ELSE IF site.process = "command" THEN Set(w, [pc |-> "ended"])
    ELSE \E receipts_only \in BOOLEAN :
             Set(w, [pc |-> "page", ask |-> r.ask, shown |-> View(list, receipts_only)])

FromCache(w) ==
    LET r == request[w] IN
    /\ r.pc = "cache"
    /\ Cache!Hit(Key(r))
    /\ Answer(w, r, lists[Key(r)].list)
    /\ UNCHANGED <<lists, mailVars>>

Miss(w) ==
    LET r == request[w] IN
    /\ r.pc = "cache"
    /\ \/ Key(r) \notin DOMAIN entries /\ UNCHANGED <<cacheVars, lists>>
       \/ Cache!GetExpired(Key(r)) /\ lists' = Restrict(lists, DOMAIN entries')
    /\ Set(w, [r EXCEPT !.pc = "listing", !.asof = changes])
    /\ UNCHANGED mailVars

(* Mutant: a page on which nothing counts ends the browse. *)
OnwardWhileFound(r, todo, more, out) ==
    IF Len(out) >= r.limit THEN "done"
    ELSE IF todo # <<>> THEN "headers"
    ELSE IF more /\ out # <<>> THEN "listing" ELSE "done"

\* What is left to do when `limit` headers are out, or not yet.
Onward(r, todo, more, out) ==
    IF Len(out) >= r.limit THEN "done"
    ELSE IF todo # <<>> THEN "headers" ELSE IF more THEN "listing" ELSE "done"

\* One page of the listing; Graph sets its size once, Gmail for every page.
GetPage(w) ==
    LET r == request[w]
        left == IF site.provider = "graph" THEN r.limit ELSE r.limit - Len(r.out)
        top == Least(PageSize, left)
        rest == Rest(r)
        page == SubSeq(rest, 1, Least(top, Len(rest)))
        more == Len(rest) > top
    IN
    /\ r.pc = "listing"
    /\ Set(w, [r EXCEPT !.pc = Onward(r, page, more, r.out),
                        !.todo = page, !.more = more, !.tries = 0,
                        !.cursor = IF page = <<>> THEN @
                                   ELSE IF site.provider = "graph"
                                   THEN @ + Len(page) ELSE mail[Last(page)].nth])
    /\ UNCHANGED <<cacheVars, lists, mailVars>>

\* Gmail's listing has identifiers only; Graph's lacks the attachments.
NeedsFetch(m) == site.provider = "gmail" \/ Signals[m].media

\* One message of the page.  Graph's are matched before they count.
GetHeader(w) ==
    LET r == request[w]
        m == Head(r.todo)
        counts == site.provider = "gmail" \/ m \in Matches[r.ask.query.filter]
        out == IF counts THEN Append(r.out, m) ELSE r.out
    IN
    /\ r.pc = "headers"
    /\ NeedsFetch(m) => m \in Range(box)
    /\ Set(w, [r EXCEPT !.pc = Onward(r, Tail(r.todo), r.more, out),
                        !.todo = Tail(r.todo), !.out = out, !.tries = 0])
    /\ UNCHANGED <<cacheVars, lists, mailVars>>

(* Mutant: the attempts are not counted. *)
ThrottledForever(w) ==
    /\ request[w].pc \in {"listing", "headers"}
    /\ Set(w, [request[w] EXCEPT !.tries = (@ + 1) % Attempts])
    /\ UNCHANGED <<cacheVars, lists, mailVars>>

\* 429 or its like, after which the call is made again.
Throttled(w) ==
    /\ request[w].pc \in {"listing", "headers"}
    /\ request[w].tries < Attempts - 1
    /\ Set(w, [request[w] EXCEPT !.tries = @ + 1])
    /\ UNCHANGED <<cacheVars, lists, mailVars>>

\* Another error, a message that is gone, or one 429 too many.
ProviderFails(w) ==
    /\ request[w].pc \in {"listing", "headers"}
    /\ Set(w, [pc |-> "ended"])
    /\ UNCHANGED <<cacheVars, lists, mailVars>>

\* received_at: Gmail's header has the sender's Date before its own.
received_at(m) ==
    mail[m].at - (IF site.provider = "gmail" THEN Delay[m] ELSE 0)

Sorted(list) ==
    LET Before(i, j) ==
            \/ received_at(list[i]) > received_at(list[j])
            \/ received_at(list[i]) = received_at(list[j]) /\ i < j
        places == CHOOSE p \in [DOMAIN list -> DOMAIN list] :
                      \A i, j \in DOMAIN list : i < j => Before(p[i], p[j])
    IN  [i \in DOMAIN list |-> list[places[i]]]

\* Gmail's answers are matched only here.
Result(r) ==
    Sorted(Select(r.out, Matches[r.ask.query.filter]))

(* Mutant: what receipts_only leaves is kept. *)
StoreView(r, list) ==
    IF site.process = "command" THEN UNCHANGED <<cacheVars, lists>>
    ELSE /\ Cache!Put(Key(r))
         /\ lists' = [k \in DOMAIN entries' |->
                IF k = Key(r) THEN [list EXCEPT !.list = View(@, TRUE)] ELSE lists[k]]

\* A command's entry goes with its process.
Store(r, list) ==
    IF site.process = "command" THEN UNCHANGED <<cacheVars, lists>>
    ELSE /\ Cache!Put(Key(r))
         /\ lists' = [k \in DOMAIN entries' |-> IF k = Key(r) THEN list ELSE lists[k]]

Finish(w) ==
    LET r == request[w] IN
    /\ r.pc = "done"
    /\ Store(r, [list |-> Result(r),
                 asof |-> IF r.asof = changes THEN changes ELSE Torn])
    /\ Answer(w, r, Result(r))
    /\ UNCHANGED mailVars

\* disconnect_account, the only one that calls it.
invalidate_account(a) ==
    /\ Cache!invalidate_account(a)
    /\ lists' = Restrict(lists, DOMAIN entries')
    /\ UNCHANGED <<mailVars, request>>

Tick ==
    /\ Cache!Tick
    /\ UNCHANGED <<lists, mailVars, request>>

-----------------------------------------------------------------------------
NewRequest(w) ==
    \/ \E a \in Accounts, p \in Periods :
           \/ \E f \in Filters :
                  \/ report_page(w, a, p, f)
                  \/ \E limit \in CliLimits : cmd_messages_list(w, a, p, f, limit)
           \/ \E m \in Messages : cmd_report_add(w, a, p, m)
    \/ \E m \in Messages : report_add_item(w, m)

Step(w) ==
    \/ FromCache(w) \/ Miss(w)
    \/ ProviderFails(w) \/ Throttled(w) \/ GetPage(w) \/ GetHeader(w)
    \/ Finish(w)

Next ==
    \/ \E w \in Workers : NewRequest(w) \/ Step(w)
    \/ \E m \in Messages : Arrive(m) \/ Leave(m)
    \/ \E a \in Accounts : invalidate_account(a)
    \/ Tick

Spec == Init /\ [][Next]_vars

\* A browse that has begun is not left lying; whether anything is asked, mail
\* comes or goes, and time passes is nobody's promise.
FairSpec == Spec /\ \A w \in Workers : WF_vars(Step(w))

-----------------------------------------------------------------------------
(* Properties.                                                             *)

(* Whatever is browsed, the cache stays within its bound, and what a       *)
(* browse makes it give up was used least recently.                        *)
EvictsLeastRecentlyUsed == Cache!EvictsLeastRecentlyUsed

\* Of messages S, what a browse lists of them that takes no time: the newest
\* that the provider finds for the filter, less what its headers then rule out.
Newest(S, n) ==
    {m \in S : Cardinality({x \in S : mail[x].nth > mail[m].nth}) < n}
WouldList(S, filter, limit) ==
    IF site.provider = "graph"
    THEN Newest(S \cap Matches[filter], limit)
    ELSE Newest(S \cap FoundByGmail[filter], limit) \cap Matches[filter]

\* The month as the provider has it, and as period.py means it: in UTC.
DatesAsked(period) == {m \in Range(box) : InMonth(m, period)}
OfMonth(period) == {m \in Range(box) : MonthOf(mail[m].at) = period}

(* A browse during which the mailbox does not change lists every message   *)
(* that the provider has for the dates it is asked and that matches, up to *)
(* the limit, and none twice: whatever the pages and the retries are.      *)
PagingIsWhole ==
    \A w \in Workers :
        LET r == request[w] q == r.ask.query IN
        r.pc = "done" /\ r.asof = changes =>
            /\ Range(Result(r)) = WouldList(DatesAsked(q.period), q.filter, r.limit)
            /\ Len(Result(r)) = Cardinality(Range(Result(r)))

(* Such a browse lists the month: all of what came in it, in UTC, that     *)
(* matches, up to the limit.  "Every connector and the browse view need to *)
(* agree on where a month starts ... Months are computed in UTC"           *)
(* (period.py).                                                            *)
PagesAreWhole ==
    \A w \in Workers :
        LET r == request[w] q == r.ask.query IN
        r.pc = "done" /\ r.asof = changes =>
            Range(Result(r)) = WouldList(OfMonth(q.period), q.filter, r.limit)

(* With Graph, which is sent instants (search of graph.py), it does.       *)
GraphPagesAreWhole == site.provider = "graph" => PagesAreWhole

(* Whatever happens meanwhile, and whoever filled the cache, a page shows  *)
(* what was asked for: messages that match its filter, newest first, no    *)
(* more than the limit, and with Graph of the month.                       *)
PagesShowWhatWasAsked ==
    \A w \in Workers : request[w].pc = "page" =>
        LET shown == request[w].shown q == request[w].ask.query IN
        /\ Len(shown) <= Limit
        /\ \A m \in Range(shown) :
               /\ m \in Matches[q.filter]
               /\ site.provider = "graph" => MonthOf(mail[m].at) = q.period
        /\ \A i, j \in DOMAIN shown :
               i < j => received_at(shown[i]) >= received_at(shown[j])

(* No page shows a message that has been gone for as long as an entry      *)
(* lives, unless it went while it was being listed: using an entry does    *)
(* not make it live longer.                                                *)
GoneIsForgotten ==
    [][\A w \in Workers :
         request[w].pc = "cache" /\ request'[w].pc = "page"
         /\ lists[Key(request[w])].asof # Torn
         => \A m \in Range(request'[w].shown) \ Range(box) :
               clock - mail[m].gone < Ttl]_vars

(* "that message is no longer in this month" (web/app.py) about a message  *)
(* that the provider has for the month means that what was kept of the     *)
(* whole month was listed before it came, or while the mailbox changed, or *)
(* has reached the limit; not that another browse had left something else  *)
(* under its key.                                                          *)
MissingIsExplained ==
    [][\A w \in Workers :
         LET r == request[w] IN
         r.pc = "cache" /\ request'[w].pc = "missing" =>
         (r.find \in DatesAsked(r.ask.query.period) =>
            LET kept == lists[Key(r)] IN
            \/ mail[r.find].nth > kept.asof
            \/ kept.asof = Torn
            \/ Len(kept.list) >= Limit)]_vars

(* No page is asked for of a month outside the window as it is just then,  *)
(* and every month of the window can be asked for.                         *)
Index(p) == 12 * p.year + p.month
InWindow(p) ==
    /\ p.month \in 1 .. 12
    /\ Index(MonthOf(Now)) - Index(p) \in 0 .. Window - 1
WindowIsTheLastMonths ==
    \A p \in Periods : clamp_period(p, Window, Now) <=> InWindow(p)

(* Every browse is answered, however often the provider throttles it.      *)
BrowsesEnd == \A w \in Workers : Busy(w) ~> ~Busy(w)
=============================================================================
