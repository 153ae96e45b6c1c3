# ccreport in TLA+

ccreport collects receipts from mailboxes. A faculty member connects mailboxes
that ccreport may only read, browses one month, selects the messages that are
receipts, justifies each, and submits; an administrator downloads the result as
a ZIP bundle. These modules model the parts of `src/src/ccreport/` whose
correctness depends on order, overlap, failure or the state of somebody else's
system. TLC checks them on small instances (`MC*.tla`, `MC*.cfg`), and TLAPS
proves the main results for every value of the constants (`*Proofs.tla`).

Paths below are relative to `src/src/ccreport/` unless they start with `tests/`,
`docs/`, `deploy/` or are a file of the repository's root.

    tlc -config MCReports.cfg MCReports            # a run
    tlapm ReportsProofs.tla                        # the proofs of a module

## 1. The system

### Parts, state, operations

| part | source | state | operations | here |
|---|---|---|---|---|
| report lifecycle | `reports.py`, `storage.py` | `reports`, `report_items`, `artifacts` rows; files in the artifact store | create, add, justify, remove, submit | `Reports`, `ReportPromise` |
| access list | `auth/allowlist.py`, boot hook of `web/app.py`, `cli.py` | `allowed_principals`, audit log | reconcile with the settings, grant, revoke, authorize | `AllowList` |
| mail connections | `accounts.py`, `oauth.py`, `browse.py` | `mail_accounts`, `oauth_tokens`; `_access_tokens` in memory | connect, disconnect, refresh, verify, browse | `Mailbox` |
| sign-in, OAuth flow, form tokens | `auth/principal.py`, `oauth.py`, `accounts.py`, routes of `web/app.py`, `cli.py` | signed states and form tokens; `mail_accounts` | resolve the principal, start, callback, paste a code, post an app password | `Principal`, `OAuthFlow` |
| browsing | `browse.py`, `connectors/graph.py`, `connectors/gmail.py`, the score in `filters.py` | none between calls but the cache | list a month page by page, retry, score, narrow, sort, find a message | `Browse` |
| header cache | `cache.py` | an `OrderedDict` in memory | get, put, invalidate | `HeaderCache` |
| periods | `period.py` | none | bounds of a month, the window of months | `Period` |
| IMAP connector | `connectors/imap.py` | a connection, the selected folder, `_uidvalidity` | search, attachment_refs, fetch_attachment, fetch_body | `Imap` |
| bundle | `bundle.py`, amounts in `filters.py` | none: a function of the report | names, manifest, totals, ccworks payload | `Bundle` |
| command line | `cli.py` | none | one transaction over the functions above | steps of the other modules |
| schema | `models.py`, `db.py`, `migrations/` | the database | constraints, sessions | guards and steps of the other modules |
| rendering | `render.py` | none | pages and pictures | not modelled |
| encryption | `crypto.py` | keys | seal, open | assumed |
| settings, doctor | `settings.py`, `doctor.py` | environment | | constants of the modules |
| deployment toolkit | `deploy/` | `.ccreport/state.json` | steps of a resumable ledger | not modelled |

### How they interact

Every web request and every command is one database transaction (`web/app.py:148`
`db_session`, `db.py:45` `session_scope`): it commits at its end or rolls back. The
database runs at READ COMMITTED, nothing selects FOR UPDATE and no row has a
version. Three things are outside any transaction: files in the artifact store,
what the web process keeps in memory, and the provider.

The deployment runs one web process (`deploy/steps/60-scale-guard.zsh:4`), whose
synchronous routes run in a pool of threads; commands run in processes of their
own, beside it. So requests of one person overlap: two tabs, a double click, a
command beside the web.

**The row of `users` is what keeps them apart.** `authorize()` sets `last_seen_at`
(`auth/allowlist.py:141`), the session flushes that before its next query
(`db.py:44`), and the person's row stays locked until the transaction ends. The
second request of a person waits at that statement, before it has read anything
of the report or the mailbox. Nothing in the code says that this is a lock, and
`authorize(touch=False)` takes it away; the runs `reports` and `mailbox` show what
then breaks. A waiting request holds a connection of the pool (5 and 5 more)
while a submission of the same person calls its providers. Three things still
overlap: requests of different people; reconciliations of the access list, which
run before anybody is authorized; and what a callback does before its first query.

* A **submission** (`reports.py` `submit_report`) opens the connector of each
  item's account (`accounts.open_connector`), which may refresh its token; lists
  and fetches the item's attachments, or renders its body; inserts an artifact
  row and puts a file for each; and sets the status last. Calls to the provider
  lie between what it has read and what it writes.
* A **disconnect** forgets the access token and the cached headers in memory,
  then deletes the account row; the database clears `source_account_id` of the
  items that came from it.
* A **browse** asks the cache, and on a miss the provider, page by page, and puts
  what it has scored and sorted into the cache. Adding a message to a report
  looks it up in the cached month (`find_header`).
* A **callback** unsigns its state and exchanges its code with the provider before
  it first asks the database; two callbacks of one person overlap there.
* A **boot** of the web process, and every command, reconciles the access list
  with the settings before anything else.

### What is hard, and what makes each part correct

| part | hard | correct when |
|---|---|---|
| report lifecycle | a status read before a slow provider call and used after it; failures between files; a crash before the commit; two submissions at once | a submitted report has a justification and files for each of its items and never changes; the files an artifact row names exist; a failed submission leaves no row, and none of its files |
| access list | reconciliations that overlap administrators' commands; redeployments with other settings | nobody is on the list whom neither the settings nor an administrator put there; a hand-made grant is changed by commands only; the settings seed it, and the table decides |
| mail connections | rotating single-use refresh tokens; refresh against disconnect and reconnect; memory that no rollback undoes | a credential exists exactly while the mailbox is connected; the newest refresh token is kept; the status tells the truth; a disconnected mailbox is forgotten |
| sign-in, OAuth flow, form tokens | callbacks late, twice, crossed, or signed in as somebody else; a form that outlives its user; how Entra writes guests | a request acts for its sender; a connection is one its owner started; a mailbox has one row, under its own address |
| browsing | pages of a mailbox that changes; retries in the middle of a page; keys of the cache; what a cached month is good for | a page lists the month that was asked for, all of it and once; a deleted message is forgotten in time |
| header cache | expiry, eviction and invalidation on one ordered dictionary | never more than the limit; the least recently used goes first |
| periods | February, December, and a month that ends while somebody browses it | months meet; the window is the last months |
| IMAP | a folder renumbered or expunged between browse and submission, or between two fetches | what is stored under an identifier is the message that was selected, with all its attachments |
| bundle | items that share vendor and suffix; two ways of writing numbers; currencies without minor units | names, numbers, files, amounts and the total agree in archive, manifest and payload |

`PROJECT.json` lists the hazards one by one, each at its line, with the properties
that would catch it.

## 2. The modules

### Reports, ReportPromise

`ReportPromise` is what the docstring of `reports.py` and `docs/ARCHITECTURE.md`
promise: a draft is edited freely; submitting is a single step, possible only
when each selected message is justified, after which it has evidence; then
nothing changes. `Reports` is the code. One user, one month.

| variable | code |
|---|---|
| `report` | `Report.status`, or `"absent"` |
| `items` | the rows of `report_items`: message, `source_account_id`, justification |
| `artifacts` | the committed rows of `artifacts`, as blob paths |
| `account` | the `mail_accounts` row of each mailbox |
| `blobs` | the files of the artifact store |
| `txn[w]` | what the request in thread `w` has read, and what it will write |

A request is at least two steps, the one that reads and the one that commits:
`AddBegin` … `AddExisting` / `AddNew` / `AddMissing`, `JustifyBegin` …
`JustifyFinish`, `RemoveBegin` … `RemoveFinish`. A submission is as many as the
code has calls that may fail: `SubmitBegin`, `SubmitLoad` (the checks),
`OpenItem`, `SkipAttachment` / `StoreAttachment` / `StoreRendered` per file,
`FinishItem`, `SubmitCommit`; `FailOpening` and `FailInItem` run the except
clause, which deletes the files listed in `written`; those of the item in progress
are in `made` until `FinishItem` lists them. `Lose` is a crash or an exception the
clause does not name. `Silent` are the mailboxes read over IMAP, and `Waits` says that a
request is at a call of one of them. `UserRowFree`
is the lock on the person's row: a condition on where a request begins, and on
nothing else, so that what follows from it is shown and not assumed. `Locked` is the
key-share lock an uncommitted artifact row holds on its item. Artifact paths are
fresh: a path is the submission, the item and the part that made it.

Positions, audit rows and wording are left out; the order in which a submission
takes the items is any order.

### AllowList

`table` is `allowed_principals` (role, and whether the settings seeded the row),
`decided` the last audit entry about each principal. A reconciliation
(`bootstrap_allow_list`) is `Boot` or `CliStart` (reads the rows), `Reconcile`
(flushes the inserts and updates, which fails where the rows have come or gone since,
`FlushSucceeds`, and selects the stale rows), `Purge` (deletes them), `CommitReconciled`. `CliCommand` and `WebCommand` are `admin allow` from
either side, `GrantCommit` and `RevokeCommit` their ends. Rows that a transaction
has written are locked until it ends; an update writes only the columns that
differ from what was read, as SQLAlchemy does.

### Mailbox

One mailbox of one user. `row` and `token` are the database, `consent` and
`newest` the provider (which grants it still honours, and the newest refresh
token of each), `access` and `headers` the memory of the web process, `req[w]`
what each request is doing. `Begin`, `UseRemembered` / `OpenSecret`, `Refresh` /
`RefreshRejected`, `Flush`, `FromCache` / `Call` / `CallRejected`, `Commit` follow
`open_connector`, `_access_token_for`, `browse` and `verify_account`. `Connect` and
`Disconnect` change the memory at once and the rows when they commit. `Report`
tells apart the callers that catch `ReauthRequired` and commit, which are the month
page of the web and `account test`, from those that roll back. `Connect` takes the
exchange of the code and the lock for one step; their order is in `OAuthFlow`. `SingleUse` says whether a refresh token is refused once exchanged.

### Principal, OAuthFlow

`Principal` is `auth/principal.py`: `Normalise` is `_normalise`, undoing the way in
which Entra writes a guest; `principal_from_headers` compares the name header with
the claims; `resolve_principal` adds the development bypass. `Presentations` are the
headers of a person, `Bare` those of a request that did not pass through Easy Auth.

`OAuthFlow` uses it for every request (`Visitors`, `Actors`). `flows` are the states
that were signed, `codes` the codes a provider gave out, `forms` the form tokens
that were rendered, `rows` the connections, each with what it goes back to:
the mailbox its credential opens, the flow or form that it came from and that
one's age; `site` are the mailboxes that the people of this deployment have. A flow is
`accounts_connect` (signs the state), `Consent` (somebody
consents to it, for a mailbox of the provider), `oauth_callback` (lets the request
in if the state is this user's) or `cmd_account_connect` (any state, or an
`--address`), `Exchange` (what the provider answers) and `Connect`; over IMAP
`RenderForm`, `accounts_connect_imap` or `cmd_account_connect_imap`, `Probe`,
`Connect`. `Fail` ends any of them. A code may be spent twice only at the program's
side: the provider honours it once (`Redeemable`), for the flow whose verifier it
was given for.

### Browse, HeaderCache, Period, Selection

`Browse` composes the other two: it extends `Period`, and instantiates
`HeaderCache` for the cache that it shares with it. `box` is the mailbox in order
of arrival, `mail` when each message came and went, `lists` what each entry of
the cache lists, `request[w]` a browse and how far it is. `Begin` and `Ask` are the
entry points (`report_page`, `report_add_item`, `cmd_messages_list`,
`cmd_report_add`); `FromCache` / `Miss`; `GetPage` once per page, and for Gmail
`GetHeader` once per message; `Throttled` and `ProviderFails` at any of these;
`Finish` scores, narrows, sorts, and puts the list into the cache. `Arrive` and
`Leave` change the mailbox in between, and `Tick` moves the clock, which
turns the month. Graph skips by number (`$skip`), Gmail goes on from a token.
Graph is sent the bounds of the month as instants, Gmail as dates, which it reads in the
zone of its account (`Shift`): `DatesAsked` is what the provider has between them,
`OfMonth` what came in the month in UTC, as `period.py` means it.

`HeaderCache` is `cache.py` under its lock: one step per operation, the deadline of
each held key and the order of the dictionary; `since` is history. `Period` is
`period.py` on the proleptic Gregorian calendar. `Selection` is the list comprehension
that all of them, and `Bundle`, use (`Select`), as a flattening of lists of one or none,
which the proofs can expand.

### Imap

`server`, `box` and `issued` are the folder: its UIDVALIDITY, the message of each
UID, and (history) the message every identifier was given to. `imap` is the
connector's connection and `_uidvalidity`, `request` what it is asked. A browse
is `Search`, `SearchIds`, `FetchHeader` once per UID, `SearchDone`; an item's
submission is `Submit`, `AttachmentRefs`, `FetchAttachment` once per attachment,
`FetchBody`, over a new connection. `Arrive`, `Expunge` and `Renumber` happen in
between. `Response` says what the library returns: `"flat"` is what the tests'
`FakeImap` returns, `"literal"` what `imaplib.IMAP4_SSL` returns, a pair of
envelope and data followed by the closing parenthesis. `Split` and `Passes` are
`_split_id`.

### Bundle

`report` is a report being built up by `AddItem` and `RemoveItem` (which renumbers).
The rest is what `bundle.py` makes of it: `CollectEntries` and `EntryName` the
archive, `BuildManifest` the manifest, `BuildApply` the payload for ccworks. `Number`
writes a price the way a sender does, as groups of digits and separators, below a
million (`Price`, a bound: from a billion on, `RejectNumber` refuses it by its length);
`ExtractAmount` reads it as `filters.py` does; `FormatAmount` writes it again. A price may
have a word behind it that `RejectNumber` looks at (`after`). The manifest's amounts are
both its texts and its `amount_cents`, of an item and of the whole.

### What is composed, and what is not

`Browse` is the composition of the browser, the cache and the calendar;
`OAuthFlow` that of sign-in and connecting. `Reports` takes from the mail
connections only whether an item's account row exists and whether it can be
opened, both of which it has as state and as a fault; the promises of `Imap` about
one item are those `Reports` assumes of its `Store` step (a path names one part of
one item). `Mailbox` uses of the cache only whether an account has entries, and
`Browse` of the connections only whether a call fails. Joining them would multiply
the states and add no shared variable beyond `account`.

## 3. The runs

| run | instance | shows |
|---|---|---|
| `reports` | 2 requests, 2 messages, one of a mailbox over HTTP and one of a mailbox over IMAP, 3 item rows, 2 account rows (one each, or two of one mailbox), 2 submissions, messages with 0 or 1 attachment, every fault, a store that fails to delete some files; `FairSpec` | `Reports` implements `ReportPromise` (`KeepsPromise`); `SubmittedIsComplete`, `Frozen`, `ArtifactsHaveBlobs`, `EarlierItemsAreCleanedUp`; every submission that reads no mailbox over IMAP ends (`SubmissionsOverHttpEnd`) |
| `reports_cleanup` | 1 request, 2 item rows, messages with 0 to 2 attachments, a store that deletes what it is told to | violated: `FailureCleansUp` |
| `allow_overlap` | 2 principals, 3 settings, 2 transactions | `NobodyUngranted`, `HandMadeKeepsItsMark` |
| `allow_manual` | the same | violated: `ManualGrantsStay` |
| `mailbox` | 2 requests, from the web process and the command line, 2 rows, 3 consents, 2 rotations of single-use tokens, failures and restarts | `CredentialMeansConnection`, `RotationKept`, `TokensOnlyAdvance`, `HeadersForgotten`, `StatusIsTrue`, `ReconnectHelps` |
| `browse` | 1 request at a time, 2 messages, 2 filters, Graph at the end of a leap February and Gmail over the turn of the year, web and command line, pages of 1, limits of 1 and 2, room for 2 entries; `FairSpec` | `PagingIsWhole`, `GraphPagesAreWhole`, `PagesShowWhatWasAsked`, `GoneIsForgotten`, `MissingIsExplained`, `WindowIsTheLastMonths`, `EvictsLeastRecentlyUsed`; every browse ends (`BrowsesEnd`) |
| `browse_months` | the same, without fairness | violated: `PagesAreWhole` |
| `imap` | 3 messages, one with 2 attachments, 3 UIDs, 2 numberings, browse limit 2, servers of every habit | `NeverAnotherMessage`, `AllItsAttachments` |
| `imap_evidence` | the same, literal responses | violated: `EvidenceIsTheMessage` |
| `bundle` | 3 items, 8 prices (one with "order" behind it), 1 vendor, 1 or 4 files an item | `NamesApart`, `NumbersAgree`, `EveryFileHasAPlace`, `AmountsAreRead`, `TotalIsTheSum` |
| `signin` | 3 people, two of them guests, one (with an underscore) not on the list; people have 2 Gmail mailboxes, one of them personal, or an IMAP mailbox (`Sites`); 2 requests, 2 flows, 2 codes, 1 form, web and command line, the development bypass on, personal Gmail allowed | `StartedByItsOwner`, `OneRowPerMailbox`, `LabelIsTheMailbox`, `ActsForItsSender`, `ListedAreAdmitted` |
| `signin_guest` | an IMAP mailbox only, and the guest with the underscore is on the list | violated: `ListedAreAdmitted` |

`reports`, `allow_overlap`, `mailbox`, `browse`, `imap` and `signin` also check a type
invariant. Every property of a passing run has a mutant in `PROJECT.json`, a plausible
slip in the code with which TLC finds it violated.

### Bounds, and why they are enough

The bounds are constants whose names begin with `Max`: rows inserted (`MaxItems`,
`MaxAccounts`), submissions past their checks (`MaxTries`), attachments of a
message (`MaxParts`), consents and rotations (`MaxGrants`, `MaxRotations`), clock
ticks (`MaxTime`), changes of a mailbox (`MaxChanges`), UIDs and numberings (`MaxUid`,
`MaxEpoch`), flows, codes and forms (`MaxFlows`, `MaxCodes`, `MaxForms`). They stop
counters that grow for ever.

* Two requests are what a race of a read against a later commit takes. Two
  submissions are needed for one to fail after or during another, and a retry.
  Three item rows let one be removed and the message selected again with two
  remaining.
* One attachment, none, or one that is skipped are the three ways through
  `materialize_item`'s branches; two attachments of one message, and what can
  happen between them, are in `imap`, and that a submission fails at the second in
  `reports_cleanup`. A message of each mailbox lets a submission over HTTP run beside one
  that waits on IMAP for ever, and one submission have both.
* Two transactions overlap in every way that matters to a row, and two principals let
  each hold a row that the other wants. Three settings cover an administrator who
  becomes faculty, faculty who become administrators, and somebody who disappears from
  the settings. That nobody is outside the required domain takes no step away.
* Three consents and two rotations let a refresh of an old consent meet a
  reconnect, and a rotation a failure; two rows let a mailbox come back under a
  new id.
* In `browse`, one request at a time is what the person's row allows. Two
  messages on pages of one are two pages, so that a change falls between them;
  two or three changes (web, command) let a message come and go and another move
  up; the tick turns the month, and Gmail's zone is off
  by half a day; two entries and two filters let one be evicted.
* Two flows and two codes let callbacks cross, come twice, or be pasted with each
  other's state; one tick makes a state too old, two make a form. The form is rendered for
  one person and posted by each. People have mailboxes of one kind at a time, since
  flows, forms and the rows they lead to are kept apart by the provider.
* Two numberings and three UIDs let a UID name a message, then nothing, then
  another message, in the middle of a browse and of a submission.
* In `bundle`, an item with three files of one suffix makes the disambiguating
  number count to 3, and three items let the middle one be removed.

### Deadlock

TLC checks for deadlock in the runs of `Reports` and `AllowList`. The others stop where
their bound on time, rows, codes, UIDs or items is reached, which the program does
not; their cfgs say `CHECK_DEADLOCK FALSE`.

### Fairness

`FairSpec` of `Browse` is weak fairness of `Step(w)`, the progress of a request that has
begun, for each request; that of `Reports` of `Step(w) /\ ~Waits(w)`. A thread runs its
request to the end: provider calls over HTTP time out (`httpclient.py`, 30 s), retries
are counted, no step waits for the user, and a lock is held by a request that has begun
itself. A call over IMAP has no timeout (`connectors/imap.py:92`), so a request that is
at one (`Waits`) need not go on, and nothing is claimed of its end; `Browse` is of Graph
and Gmail only. Nothing is assumed about what people choose to do, about mail coming and
going, or about providers answering well. `SubmissionsOverHttpEnd` and `BrowsesEnd` need
fairness.

### What the violated runs show

* `reports_cleanup`: a submission that fails at an item's second file leaves the first
  in the store, since the list that is cleaned up grows only when the item is done
  (`reports.py:421`), contrary to `reports.py:380` and `docs/ARCHITECTURE.md:88`; the test
  of it (`tests/unit/test_reports.py:206`) fails where that item has no file yet.
  `EarlierItemsAreCleanedUp` is what does hold, and is proved.
* `allow_manual`: a reconciliation that read a row as seeded deletes or changes it
  after an administrator has made it a grant by hand, contrary to the docstring of
  `bootstrap_allow_list`. A reconciliation runs before anybody is authorized, so no
  row of `users` keeps it apart.
* `imap_evidence`: `_ok` keeps the elements of a response that are bytes. The message
  itself comes in a pair, so with a real server a submission stores an empty page.
* `browse_months`: Gmail's dates are days of its own zone, so a message in the first or
  last hours of a month in UTC is left out of it, contrary to `period.py:3-9`. Graph
  lists the month (`GraphPagesAreWhole`), and Gmail all between its dates (`PagingIsWhole`).
* `signin_guest`: `_normalise` turns the first underscore of a guest's address into
  the "@", where Entra put the last one in its place; a listed guest with an
  underscore of their own is turned away.

### Other places where code and text part

Met while modelling, visible in the models' actions, and without a run of their own.

Reports and bundles:

* An IMAP connection is opened without a timeout (`connectors/imap.py:92`), where
  `httpclient.py:22` explains why there must be one: a server that falls silent holds
  the submission, its transaction and the person's row for good, and with it every other
  request of that person (`Waits`).
* Reconnecting a mailbox does not repair the items that lost their account, although
  the error tells the user to (`reports.py:406`).
* Two IMAP mailboxes can give two messages one identifier, and the second is then not
  added (`reports.py:150`).
* `totals.amount_cents` adds amounts of different currencies (`bundle.py:188`), which the
  comment at `bundle.py:190` says is not done; only the formatted total is withheld.
  `BuildManifest` has that sum, and `TotalIsTheSum` says nothing of it where there are
  several currencies.
* A bare "$2000" is taken for a year and not for an amount (`filters.py:280`), and "your
  $45.00 order" has none (`filters.py:284`), which `AmountsAreRead` both spells out. "$45.00%"
  has 45, since the pattern gives back the cents that a percent sign may not follow
  (`filters.py:106`); that one is not modelled.

Access:

* Somebody who is revoked and still named in the settings is back after the next
  boot or command (`Missing`), where `auth/allowlist.py:12` calls the table authoritative. No
  property here says that a reconciliation does what its settings say.
* On the command line `--address` takes the place of the address the provider names, and
  is what the guard against personal Gmail looks at (`accounts.py:170`, `Guarded`): a personal
  mailbox can be connected while that is off (`accounts.py:139` says it cannot).
* On the command line an administrator can remove themselves (`cli.py:480` against
  `SECURITY.md:101`); two administrators can remove each other from the web. With
  overlapping transactions the audit log and the list can disagree.

Connections:

* A refresh token that was replaced is lost when the request fails later and rolls
  back (`accounts.py:432`), which `RotationKept` excepts.
* A command has no hand in the web process's memory: after its disconnect the headers
  stay until they expire (`SECURITY.md:57` says at once); after its reconnect the web
  process uses its dead access token until that expires, and testing the account may
  mark it. `HeadersForgotten`, `StatusIsTrue` and `ReconnectHelps` speak of what was
  done in the web process.
* An older consent that is exchanged first and stored second replaces a newer one,
  since the exchange comes before the lock.
* The flows of the command line send the browser to the web's callback, which may
  redeem the code before it is pasted. `GoogleOAuth.revoke` is never called.
* Microsoft's default scopes (`settings.py:107`) have no `openid`, which Google's are
  given (`oauth.py:309`); where the provider sends no ID token for that, an Outlook
  mailbox cannot be connected for want of an address.
* `KeyVaultSecretBox.open` ignores the version an envelope was sealed with
  (`crypto.py:193` against `:142` and `SECURITY.md:68`).

Browsing:

* A message that a filtered page shows may not be selectable: it is looked up in the
  whole month, of which only the first 500 are kept. `MissingIsExplained` says when.
* Graph's pages skip by number: a mailbox that changes between two of them repeats or
  skips a message, and the list is cached. At Gmail a message that is deleted between
  the listing and its header fails the whole browse.
* Gmail's limit counts before the headers are matched; Gmail joins labels with "and",
  Graph folders with "or"; beyond the limit IMAP lists the oldest, Graph and Gmail the
  newest.
* `purge_expired` has no caller, so expired headers stay in memory until they are
  asked for or evicted (`cache.py:7`).
* A server that announces no UIDVALIDITY gives identifiers with which nothing can be
  fetched, and the error is one that `submit_report` does not clean up after.

Deployment: `--dry-run` records its steps as done (`deploy/lib/steps.zsh:14`).

## 4. The proofs

Everything is proved from the named assumptions on the constants (`BoundsAssumption`,
`DataAssumption`, `SeedsAssumption`, `MailboxAssumption`, `PeopleAssumption`,
`TicksAssumption`, `BrowseAssumption`, `PricesAssumption`): the bounds are natural
numbers, the model values for "nothing" are not data, the given functions have their
types. Workers, messages, principals, people, accounts and parts are arbitrary sets,
and need not be finite. What a theorem assumes beyond these is in its row.

| theorem | says |
|---|---|
| `ReportsProofs!TypeCorrect` | `Spec => []TypeOK` |
| `ReportsProofs!BundlesAreWhole` | `Spec => []ArtifactsHaveBlobs` |
| `ReportsProofs!NeverHalfSubmitted` | `Spec => []NothingHalfSubmitted` |
| `ReportsProofs!SubmissionKeepsWhatItRead` | `Spec => KeepsWhatItRead` |
| `ReportsProofs!EarlierFilesAreCleanedUp` | `Spec => EarlierItemsAreCleanedUp` |
| `ReportsProofs!RequestsAreCurrent` | `Spec => []RequestIsCurrent` |
| `ReportsProofs!SubmittedIsFrozen` | `Spec => Frozen` |
| `ReportsProofs!SubmittedReportsAreComplete` | `Spec => []SubmittedIsComplete` |
| `ReportsProofs!ReportsKeepTheirPromise` | `Spec => KeepsPromise`: `Reports` implements `ReportPromise` |
| `AllowListProofs!TypeCorrect`, `ListedMeansGranted` | `TypeOK`, `NobodyUngranted` |
| `AllowListProofs!HandMadeGrantsStayMarked` | `Spec => HandMadeKeepsItsMark` |
| `MailboxProofs!TypeCorrect`, `DisconnectLeavesNoCredential` | `TypeOK`, `CredentialMeansConnection` |
| `MailboxProofs!MarkedMeansRefused`, `ReconnectingHelps` | `StatusIsTrue`, `ReconnectHelps` |
| `MailboxProofs!HeadersAreForgotten`, `CredentialsOnlyAdvance` | `HeadersForgotten`; `TokensOnlyAdvance`, whether or not refresh tokens are good once |
| `ImapProofs!TypeCorrect`, `NeverMixedUp`, `NothingLeftOut` | `TypeOK`, `NeverAnotherMessage`, `AllItsAttachments` |
| `OAuthFlowProofs!TypeCorrect`, `OwnersStartTheirOwn` | `TypeOK`, `StartedByItsOwner` |
| `OAuthFlowProofs!MailboxesHaveOneRow`, `LabelsAreTrue` | `OneRowPerMailbox`, `LabelIsTheMailbox` |
| `OAuthFlowProofs!NobodyActsForAnother` | `ActsForItsSender` |
| `OAuthFlowProofs!TheListedGetIn` | `ListedAreAdmitted`, for a list within a required domain on which no guest's address has an underscore |
| `OAuthFlowProofs!BrowserGmailIsHosted` | with personal Gmail off, what the browser connected at Gmail is hosted, if one address is not both |
| `BrowseProofs!MonthsMeet`, `BoundsHoldTheMonth` | a month's end is the next month's start; its bounds hold exactly its instants |
| `BrowseProofs!WindowHoldsTheLast`, `WindowIsRight` | `clamp_period` lets through the last months; `Spec => []WindowIsTheLastMonths` |
| `BrowseProofs!ListedByMonth` | Graph lists a message for a month exactly when it came in that month, in UTC |
| `BrowseProofs!BrowseTypes`, `EvictionIsRight` | `TypeOK` of `Browse`; `EvictsLeastRecentlyUsed` of the cache it shares |
| `BrowseProofs!PagesAreRight`, `GoneIsRight` | `PagesShowWhatWasAsked`; `GoneIsForgotten` |
| `BrowseProofs!PagesMeet`, `GraphMonthsAreWhole` | `PagingIsWhole`: the pages of a browse leave out nothing of what the provider has for its dates; `GraphPagesAreWhole`: with Graph that is the month |
| `BrowseProofs!MissingIsRight` | `MissingIsExplained`: nothing is left out by what is kept |
| `BundleProofs!NamesAreApart`, `NumbersAlwaysAgree` | `NamesApart`, `NumbersAgree` |
| `BundleProofs!AmountsAreAlwaysRead`, `TotalIsAlwaysTheSum` | `AmountsAreRead`, `TotalIsTheSum` |
| `BundleProofs!EveryFileAlwaysHasAPlace` | `EveryFileHasAPlace` |

**Reports.** That committed artifacts have files is not inductive: a submission commits
rows whose files it put many steps ago, and clean-ups of others delete files in
between. `StagedHaveBlobs` says the files of running submissions are there,
`PathsApart` that no two submissions, committed or running, share a path; so a
clean-up, which deletes paths of its own submission, takes nothing of anybody
else's. `KeepsWhatItRead` rests on `ReadIsCovered`: every item a submission is done with
has a file in its list, and an item with such a file is there, because a removal
waits for the lock that the artifact row holds. `EarlierItemsAreCleanedUp` adds `FilesAreListed`:
every file of a running submission is in one of its two lists, and what is not in the
list that a failure cleans up is of the item in progress. None of these needs the person's row.

**The promise.** `Frozen`, `SubmittedIsComplete` and the refinement do.
`RequestIsCurrent` says that there is at most one request, that the status it read is
still the report's, and that a running submission works on the draft and the items
it loaded. So no edit that saw a draft commits into a submitted report
(`SubmittedStays`), and the one step that submits (`OnlyCommitSubmits`) finds every
item justified and, by `ReadIsCovered`, with a file (`CommitFindsAll`). The refinement
maps a step to `Freeze` if it is that one, to a stutter if the report was submitted
before or has not been created, and to `Edit` otherwise.

**AllowList.** A reconciliation writes rows and commits them later. `WritesApart` (two
open transactions never hold one row) and `WritesGranted` (a row that is held is
accounted for by the settings or a grant) make `NobodyUngranted` inductive, for
overlapping transactions. `ManualGrantsStay` does not hold for those, as `allow_manual`
shows: a reconciliation may still delete a grant made by hand, or change its role. What
it never does is take it for its own: `HandMadeKeepsItsMark`. A row that is held with the
mark of the settings takes the place of none or of another so marked (`MarksWereThere`),
since a flush inserts only where there is no row and an update writes the role alone, and
since no commit changes a row that another transaction holds (`CommitsSpareHeldRows`).

**Mailbox.** `LocksHold` says that what a request is about to write it has locked, and
that the locked row is there; `OneHolder` that one request at a time holds it.
With these a late commit cannot write a credential beside a deleted row. They need
nothing of how requests begin. The other four theorems do: `OneRequest` is what
the person's row gives, `RequestsAreCurrent` that what a request has found or read
still holds, `ConsentsInOrder` and `GrantsInOrder` that no credential is newer than
what the provider gave out, and that the web process remembers none that is older
than the table's where it connected the mailbox itself. `TokensOnlyAdvance` follows
from what a commit writes (`CommitWrites`): the token the request read was still the one
stored, and the provider's answer is of the same grant and no older.

**Imap.** `FolderAsIssued` ties the folder to the history of identifiers;
`SessionIsCurrent` says that the connector's `_uidvalidity` is the server's as long as
its connection lives (the server closes it when it renumbers), and that a submission
has a folder open only where the server announces a UIDVALIDITY; `AnswersTrue` is
the property for what is still being collected. `PartsAccountedFor` adds that as soon
as there are parts to fetch, each attachment of the message is still to be fetched,
passed over or stored, and holds across an expunge and a renumbering in between.

**OAuthFlow.** A row goes back to a flow through a code, a callback, an exchange and a
commit, and each of these may come late, twice or crossed. `FlowsMeant`,
`RequestsMeant` and `RowsMeant` say of each stage what the next one relies on: a code is
for a mailbox of the provider its flow was started for; a request that exchanges or
connects goes back to a flow or form of its own actor, no older than the code allows; a
row in addition stands under a folded address that is unique for its person and
provider. `PeopleAssumption` says that people have addresses of the two shapes Entra
knows, and that the model values for headers without a person are not among them.
`TheListedGetIn` excludes, by its hypothesis on guests, exactly what `signin_guest`
finds; and `BrowserGmailIsHosted` says that the guard against personal Gmail, which the
command line's `--address` gets round, holds in the browser.

**Period.** Within a year the days of a month end where the next month begins, by cases;
over the turn of the year by what 4, 100 and 400 divide (`YearsMeet`); and the last
microsecond of a day is followed by the first of the next, however fine the ticks.
That a month's bounds hold it and no more needs that the years follow each other
without a gap (`YearsGrow`). The window is a recursive function that goes back month
by month; `MonthAt`, the month with a number, solves its recursion, so that its
members are those with the last numbers. In `Browse` the clock alone decides (`Clocked`).

**Browse.** `BrowseInv` has four parts. `CacheOK`: the order of the dictionary lists each held
key once (`Enumerates`), and whatever stands behind a key was used after it (`ByUse`). A
drop, a move to the end and a removal of the first keep both (`DropKeeps`, `MoveKeeps`,
`PopKeeps`), so that the key that goes is one all the others were used after. `MailOK`
and what the mailbox may do meanwhile (`MailGrows`): a message that came is listed for
the same months ever after (`ListedStays`), and one that left stays left. So `RequestsOK`,
that what a browse has collected and has yet to visit is of the month and filter it
asked for and within its limit, survives an arrival between two pages; and `ListsOK`
says the same of what the cache keeps, together with when: the messages of an entry
were in the mailbox when it was put, if nothing changed during its browse, and only a
put sets a deadline, so that no entry outlives what it lists by more than the time to
live. `PagesAreRight` follows for new answers (narrowed with `Select`, sorted by
`SortedFacts`) and kept ones. `BrowseAssumption` asks that there is no month of year 0,
and of the mailbox no more than types.

All of these speak of what is shown. That nothing is left out needs more, since a page is
left out by no single step: `WholeInv`, which `WholeNext` keeps beside `BrowseInv`. `BoxOK`:
the mailbox is in the order of arrival, so that the listing for a query, newest first
(`Listing`), is the only list in that order of the messages that belong to it (`FallingAgree`).
`Progress`: as long as the mailbox is what it was when a browse began, there is a number g of
messages of the listing that the browse has been given (`GivenTo`). The token of the next page
stands behind the first g, which is a number at Graph and a message at Gmail (`Reached`); what
is still to be visited are the last of those g; and what was collected are those before that
count for the connector: at Graph the ones that match, at Gmail all, since Gmail was
asked for them. A page moves g on (`PageGiven`), a header takes one from the rest
(`HeaderTaken`), a retry moves neither. A browse that stops is at its limit or at the end, so it
has found the newest there are to be found (`FoundTheNewest`, by counting what is newer than a
message), which is `PagesMeet`. `KeptWhole` is the same for the cache: what is kept of a whole
month under no filter has all that was in the mailbox when it was listed, or is full, or was
listed across a change. Mail that comes later has a higher number (`MailAdds`), and
nothing else is put under that key (`FinishWhole`): hence `MissingIsRight`. All this is about the dates a
provider was asked for. That they are the month is `ListedByMonth`, by `BoundsHoldTheMonth`,
and holds for Graph, which is asked for instants: hence `GraphMonthsAreWhole`.

**Bundle.** `Counted` says that an item's position is the number of items before it, and
one more. Adding keeps it because the last position is then the number of items
(`LastPositionCounts`), removing because counting anew keeps the order (`PlacesNumber`).
The items in order are then those that 1, 2, 3 count (`OrderCounts`), which is
`NumbersAgree`. `NamesApart` needs no more than types: of one more name than are taken
one is free, by the pigeonhole principle (`EntryNameIsFree`), and so the list of
entries stays without a repetition while it grows (`EntryJoins`). Positions,
numbers and names are thus proved for any number of items and files.

`Amounts` says that an item carries the amount of its price, whatever is added and
removed since. A price is written in one of four ways, plain, with a minor unit, in
groups of digits or both, and `PriceIsRead` goes through them: what is put together from
the left (`JoinedSteps`) is what was written, and nothing is refused but a year and what one of
`OtherUnits` follows, since a price below a million has no more than eight digits. `ReadingIsWritten` says the same of
`FormatAmount`. The payload is flattened from the items' lists, of which `FlattenFacts`
says that nothing is lost and no two elements come from one place; files of
different items differ in their number, files of one item in the place they were selected
from, so that the payload and the archive are two lists of the same without a
repetition, and as long as one another (`AsLong`). `build_manifest` adds in the order of the
report, a reader of the manifest in any order: both additions are the one function of sets
that `Sums` describes (`AnyElement`, `SumsAgree`), and items without an amount may
be left out (`NothingAdded`).

Where a definition recurses over data (the list of entries, flattening and so `Select`,
folds, whose facts `SelectionProofs` holds, and the window),
the library's induction theorems cannot be instantiated, since they take an operator.
The proofs use that < is well founded on the naturals (`NatLessThanWellFounded`, `WFMin`):
the least number for which a claim fails has a predecessor for which it holds
(`NatMin`). The same shows that a recursion has a solution, step by step, and so
that the recursive function is one.

`NobodyUngranted` and the other invariants of runs were checked by TLC first, and the
inductive invariants they rest on (`StoreInv`, `Current`, `PartsAccountedFor`, `MarksWereThere`,
`IInv` of each module, `BrowseInv`, `WholeInv`, `Counted`, `Amounts`) as invariants of the
same instances before they were proved, `WholeInv` also with three messages and limits of 0 and 3.

### Model-checked only

* `SubmissionsOverHttpEnd` and `BrowsesEnd`: liveness under fairness, out of the prover's
  reach.
* `RotationKept`, which holds where a refresh token is good once. The providers do not
  promise that; what holds whether or not is `TokensOnlyAdvance`, which is proved.

## 5. What is not modelled

* `render.py`, vendor names and which text shows which signal in `filters.py`, the CSV
  and HTML of the bundle, templates: functions from text to text or pixels.
* `crypto.py`: sealing is assumed to be undone by opening, for the same account.
* Signatures of states and form tokens are assumed to be sound; a deployment without
  a session secret, in which form tokens are not asked for, is left out.
* The first sign-in of a person, `users` columns other than the lock, display names
  and notes: copied, never decided on.
* IMAP accounts in `Mailbox` (their password is their access token and never
  changes), folders in `Browse`, folders other than INBOX in `Imap` (their messages
  cannot be added to a report), the decoding of headers.
* The pool of connections that waiting requests hold, since no property here is
  about requests of many people.
* Other isolation levels, other databases. SQLite, which development uses, runs one
  writer at a time.
* `settings.py`, `doctor.py`, printing in `cli.py`, `migrations/`.
* `deploy/`: steps of zsh over Azure's command line, whose outcomes are Azure's.

## 6. Plan

Written so far, in this order: `Reports` with its abstract specification, since a
submitted report is what the system is for; `AllowList` and `Mailbox`, the two other
places where transactions overlap; `Imap`; `Bundle`; then `Browse` with `HeaderCache` and
`Period`, and `OAuthFlow` with `Principal`.

What is left:

1. `DeployLedger`: steps, their records, interruption and dry runs.
