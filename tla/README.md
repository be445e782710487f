# Golden: a TLA+ model of the book-and-translation finder

Golden tells a reader which editions and translations of a book exist and where
each can be legally had. A Next.js app and a NestJS API answer from Postgres
and Redis; a worker process fills them from some twenty outside sources,
through three BullMQ queues; addons, plugins and an e-book reader run in the
browser. This directory holds TLA+ modules of the parts whose correctness
depends on order, concurrency or failure, the TLC configurations that check
them, and TLAPS proofs about them. Paths below are relative to the repository
root.

## 1. Inventory

| Component | State it keeps | Operations | What is hard |
|---|---|---|---|
| Work sync (`packages/application/.../sync-work-from-source`, the Pg repositories) | tables `work`, `edition`, `source_link`, `external_ref`, `sync_log` | sync a query's best match; attach a source's editions to a known work | two workers discovering one book; READ COMMITTED reads used after they are stale; a crash between statements or before `sync_log`; upserts locking unique keys in opposite orders |
| Work pages (`get-work-card`, `list-editions-for-work`, `redis-cache`) | Redis keys `work:<id>:card`, `:editions` | read through, invalidate | the invalidation precedes the commit it announces |
| Search and the SearchBox | Redis: results, resolutions, negatives; the box's state | search, poll, supersede, give up | a poll racing the backfill that answers it; answers arriving out of order; lifetimes of five kinds of Redis keys |
| Backfill (`process-backfill-job`, `apps/worker/src/main.ts`) | the job in hand | ask sources in order, enrich, record the answer, retry | one of many sources down; the last attempt; a worker lost in mid-job |
| Job queue (`bullmq-queue`) | jobs, two waiting lists | enqueue under a deterministic id, retain, age out | an id swallows requests while the job is retained |
| Nightly refresh and `POST /sync/:source` (`refresh-stale-works`, `enqueue-source-sync`, `pg-idempotency-store`) | `idempotency_key`, the `sync` queue | enqueue by key; enqueue the stalest works for every source | concurrent requests with one key; one id for two different jobs; works that never become fresh |
| Shelves that fill (`get-featured-books`, `browse-by-subject`) | a cache entry per page, jobs in `backfill` | show what is known, queue what is not | only some may be queued per visit; a retained job swallows a request |
| Resilient fetch (`resilient-fetch`) | breaker state per fetcher | retry over breaker over time limit | a breaker shared by unlike requests; a trial with callers waiting for it |
| Source adapters (`packages/infrastructure/src/providers`) | Redis entries of their own | search, fetch editions, links and details by several requests each | one of many requests refused or failing; what is remembered of half an answer |
| What sources offer (Open Library, Wikidata, Google Books, Gutenberg, LibriVox, the list of given-away books) | none | turn availability and files into rights and links | a scan's rights, a printing outside the page read, caps at several places |
| Library catalogues (`sru-catalog`, `bn-poland`, `ndl`) | none | read records into a work and its printings | who wrote and who translated; which records are about the book; ids and keys worked out apart |
| Edition panels (`get-edition-links`, `aggregate-edition-prices`, `aggregate-translation-ratings`, `link-policy`) | Redis entries under a work's prefix, two lifetimes | answer links, prices, ratings | one failing source of several; a sibling's copy shown; what the policy lets through |
| Domain rules (`packages/domain`: link policy, natural keys, ISBN, near spellings, money, ratings, source priority) | none | pure functions | boundaries, agreement between two of them |
| Accounts and bookmarks (`auth.use-cases`, `pg-auth-repositories`) | `app_user`, `session`, `bookmark` | register, sign in, link Google, authenticate, sign out, save | look-up then insert, by two ways of signing in |
| E-book reader (`packages/reader`, `BookReader.tsx`) | IndexedDB stores `books` and `files`, a record held in memory | open, relocate, bookmark, keep, forget, remove | two stores without one transaction; three copies of one record |
| Page parts (`EditionLinks`, `PriceCompare`, `OpdsShelf`, `FeaturedBooks`, `SubjectBrowser` and their like) | what is shown, a serial number or an effect's flag | load, reload, select, close | late answers, failures, a selection changed under a request |
| Addon engine (`packages/addons`, `addon-runtime`, `installed-addons`) | frames, pending calls, the stored list | boot, invoke, answer, time out, destroy | late answers, timeouts, a frame removed with calls in flight |
| Catalogues of others (`packages/plugins/src/opds`, `opds-addon.ts`, `OpdsShelf`) | an addon's root and search template | read a page in two versions, ask for a book | two parsers of one thing; what is remembered of a server that changes |
| Lists of what is stored (`list-free-books`, `recommend-books`, `browse-by-subject`, `pg-*-adapter`, `FreeBooksCatalog`) | a Redis copy of each page; the pages on screen | page by page, rank, count | pages of different age; order and caps applied at several places |
| A browser's own sources, addons and settings (`installed-addons`, `custom-source-providers`, `reader-display`, `AddonCatalogBrowser`) | localStorage, and a copy per tab | install, remove, order, switch, add, change | two tabs over one storage that may be full or off; a list that moves from an older key; a catalogue read in pages |
| Onboarding tour (`OnboardingTour`, `onboarding-tour`) | a stored step; a popup shown, held or to come | step, leave, resume, restart | steps that wait while the page changes |
| Covers, nearby shops | short Redis caches | one request each | nothing beyond the cache's age |
| Web pages, i18n, logging, configuration | view state | render | nothing that a state machine tells better than a test |

How they meet: the API enqueues into `backfill` and `sync`; the worker consumes
both and runs Work sync, which asks the adapters, which ask through the
fetchers; Work sync writes Postgres and deletes page and panel keys in Redis;
Search, pages, panels and shelves read Postgres and Redis. A browser keeps its
own state (books, addons, settings, a session cookie) and meets the rest only
by requests. Nothing else is shared between processes.

What makes each correct: Work sync publishes a sync wholly or not at all, keeps
keys unique and owners present, lets a source overwrite only what it outranks
and changes nothing when nothing is new. Pages show committed rows and catch
up. A pending search is always being worked on, and what a backfill found out
is not lost or overstated. A queue holds a job once; a requested sync is
answered by a job somebody queued, and stale works get their turn. Shelves
fill. A request through a fetcher ends, and a service that is well is asked.
Nothing but a whole answer of a source is remembered for long, and an outage is
not taken for an absence. Records and copies are taken for the book, the people
and the rights they state. Panels answer what is stored and permitted, with
figures that follow from what was said. An address has one account, a session
opens the account it was given for, and what is signed out stays so. The book
reader keeps the place and the marks it said it kept, and says a file is here
when it is. A part of a page shows what is selected. An addon call is settled
exactly once. A list of what is stored leaves nothing out. What a browser was
told is kept is kept, in the order it was given; the walk through the site
resumes where it was left, and its popups are about the page they are on.

## 2. Modules

| Module | Models | Notes |
|---|---|---|
| `SyncWork` | one statement of `SyncWorkFromSource` per action, for any number of workers over the tables; commit, abort, crash, row and key locks, the deadlock detector | the core |
| `BookCatalog` | what syncs promise: the tables change only by the whole publication of one source's answer, and by nothing that the answer does not name | abstract; `SyncWork` implements it (`PublishesWhole`, proved) |
| `WorkPages` | the two cached pages and a request that fills them | extends `SyncWork` |
| `JobQueue` | BullMQ as `BullMqQueue` sets it up | external parts are marked so in the map |
| `Backfill` | the consumer and `ProcessBackfillJob`; a sync is one step | extends `JobQueue` |
| `Search` | `SearchWorks`, each `await` a step, and `SearchBox` | extends `Backfill` |
| `SyncQueue` | `RefreshStaleWorks`, `EnqueueSourceSync` and the consumer of the `sync` queue | extends `JobQueue` |
| `Shelves` | `GetFeaturedBooks` and `BrowseBySubject`, and the worker that runs what they queue | over `JobQueue` by `INSTANCE` |
| `Fetch` | what an adapter may rely on: a request is answered, once | abstract |
| `Breaker` | `createResilientFetcher`: retry, breaker, time limit, concurrent callers | implements `Fetch` (`EveryFetchIsAnswered`; its safety half proved) |
| `Sources` | which requests an adapter's operation makes, in what order, and what refusals, failures and its caches do to it | sixteen adapters |
| `Offers` | what the sources that host or describe copies make of their answers | extends `EditionPanels`, for `LinkPolicy` |
| `Records` | what a library's records are read as | |
| `EditionPanels` | `GetEditionLinks`, the price and ratings answers and their lifetimes; `LinkPolicy` | a read of the links panel is a step, and so are a sync's deletion of the cached answers and its commit or rollback |
| `Figures` | averages by printing and by translator, offers by binding, `Money`, bookshop listings | extends `EditionPanels`, `Rules` |
| `Rules` | the one-edit comparison of names, ISBNs, the order of offers | functions, compared with definitions |
| `Accounts` | `AuthService` and `BookmarkService`, each statement a step, and their browsers | |
| `Library` | the book reader in one tab: `BookReader.tsx` over `library.ts` and `progress.ts` | |
| `Screens` | the parts of a page that load something | one part per behaviour |
| `Opds` | a page of a catalogue in both versions, read and shown; a catalogue asked as an addon | |
| `Lists` | the free shelf, its cache and the component that pages it while syncs add to it; recommendations, genres and title search as the answers to one question | |
| `Choices` | addons, sources and the look of books in a browser's storage, with several tabs; the pages of an addon's catalogue | one topic per behaviour |
| `Tour` | the walk a browser is offered once, over reloads and page changes | Shepherd is external |
| `AddonHost` | local addons of one browser tab: list, frames, messages, calls | |
| `SyncWorkTypes`, `SyncWorkSafety` | | proofs about `SyncWork` and `WorkPages` (section 5) |
| `JobQueueSafety` | | lemmas on the queue, for the next two and for `Shelves` |
| `SyncQueueSafety`, `SearchSafety` | | proofs about the module of that name |
| `OutsideSafety` | | proofs about `Breaker` (and that it implements `Fetch`), `AddonHost`, `Sources`, `Shelves`, and the four together in `MCOutside` |
| `ReadingSafety` | | proofs about `Library`, `Screens`, `EditionPanels`, `Tour`, `Opds` (the addon scene), `Accounts` |
| `ReadersSafety` | | proofs about their composition in `MCReading` |
| `MCSyncWork`, `MCBackground`, `MCSearch`, `MCReading`, `MCOutside` | constants for TLC; three of them compose the scenes below | |

`MCBackground`, `MCReading` and `MCOutside` hold several components that share
no variable. A behaviour starts in one *scene* and stays there, the variables
of the others keep their initial values: the scenes are checked one after
another in one run, not multiplied.

Beside a definition stand some operators named for a plausible slip in it (a
reset forgotten, a guard dropped, two steps swapped). They are not part of any
specification: each is a change under which TLC finds one of the properties
violated. Where a property is a conjunction there is at least one per conjunct;
PROJECT.json lists one per property, the others show that its other parts are
alive too.

Correspondence in `SyncWork`. `pc[w]` names the statement worker `w` is about
to run, `job[w]` and `loc[w]` hold the locals of `execute`, and `tx[w]` the
rows its open transaction has written. A statement reads the committed tables
overlaid with its own writes (READ COMMITTED), so a row another worker commits
between two statements is seen by the second. `SaveWork` and `PutEdition` are
`INSERT .. ON CONFLICT (natural_key) DO UPDATE`: they wait while another open
transaction holds the row or the key, and update the row that is there,
whatever id the caller has. `Commit` moves `tx[w]` into the tables;
`InvalidateCache` comes before it, as in the source. `Fail` is a provider's
error, `Crash` the death of a worker between any two statements,
`DeadlockAbort` Postgres choosing a victim. A source's answer is a record of a
work and its editions; titles, names and prices are left out except one mark
that says who wrote the row last.

In `Search`, a request's `pc` is the next `await` of `SearchWorks.execute`, and
`box` is the component's state with the words its timer would send. A work's
text matches are a parameter: sure ones per source that contributed titles,
doubted ones per work. Redis lifetimes are not clocks but an order: a poll
session (90 s) outlasts the 60 s of a completed job or a doubted answer and is
outlasted by everything else; a request is shorter than all of them; an answer
outlives the job that recorded it. A job id is a query within one day.

In `SyncQueue`, `pass` is the cron job between its awaits, `posts[p]` a request
between looking a key up, queueing and recording it, `records` the idempotency
table. `asked` observes which job ids were ever given. The date in a job id is
`day`, modulo two. A sync job's effect on a work is one step that makes it
fresh if the source has an answer that matches.

In `Shelves`, `pages` are the cache entries, `asking` the request for one
between its awaits (its `todo` the places in the two lists still to be queued,
taken in order), `catalog` the works stored. A job may be lost in an outage
and be retained as failed; the retained job swallows the next request for the
same name, as `JobQueue` says.

In `Breaker`, `fetches[c]` is one call of `fetch` with its attempt,
`breakers[f]` the breaker's state with its count of consecutive failures and
the trial it may have under way; the callers waiting for that trial share its
end. What cockatiel does is external; that its `ConsecutiveBreaker` counts
across callers, and a half-open breaker lets one call through and makes the
others wait, is how the code uses it. Backoff delays and the open time are
steps that may happen at any time.

In `Sources`, an operation has a plan: stages of requests, each stage joined
(`Promise.all`, settled or tolerant), the refusals an adapter reads as
"nothing" and those it throws on, and what it writes to its cache at the end.
Requests of a stage may finish in any order and after the operation has thrown.
`memory` is what a cache entry stands for (a whole answer, a part, nothing),
not its content.

In `Offers`, `Records` and `Figures` a state is one source and what it holds,
one book's records, or one page of ratings and prices: the module's operators
read it as the adapter does, and the invariants compare the result with what is
stated of the book: the rights, people, printings, averages and amounts.
Strings are tokens, with the relations the code asks of them (begins with, is a
word of, normalises to) as tables or sequences of tokens. Requests that fail
are `Sources`' subject, so answers here are whole.

In `EditionPanels`, `rows` is `source_link` as committed, and `linkSync` the
sync of the work that has deleted the cached answers and not yet ended
(`DeletePanels`, then `CommitSync` or `RollBack`): there is at most one, since
a sync holds the lock of its work's row from `save` to its end. What it commits
is what `LinkPolicy` accepts of a source's claim about one printing. A request
for a links panel is in `readers`: it misses Redis (`AskLinks`), reads the
printing's links (`ReadOwn`), those of its siblings where none is a copy
(`ReadSiblings`), and caches what it has put together (`KeepPanel`); syncs come
in between. Its `had` and `crossed` observe, and are read by no action: whether
there was a copy when it began, and whether a sync was between its deletion and
its end at some moment until the answer was kept. `panels` and `kept` are the
cache entries, and `questions` the requests in flight for prices or ratings,
whose sources settle in any order.

In `Accounts`, `call[b]` is the request of browser `b` between two statements
of its handler; the schema's unique keys refuse inserts; `proof` observes which
credential a token was given for. Hashes are the passwords.

In `Screens`, `want` is what is selected, `shown` what the part holds and of
which selection, `flights` the requests under way with the serial they were
sent under; an answer is dropped or taken as the part's own guard says. Every
part has its guard from its source: a request counter, an effect's `cancelled`
flag, or none.

In `Opds`, a page is a list of entries with links, served as Atom or JSON; each
parser has its own operators, and what the shelf shows is read from their
result. In the addon scene `root` and `template` are what the transport
remembers.

In `AddonHost`, a frame is named by the visit of a page that started it.
`frames[v, a]` holds the host's side, the worker's, the messages between them
and the pending calls; messages of one frame stay in order, timers may fire at
any time.

In `Lists`, `stock` is what the tables hold of each work's printings,
`freeCache` the cached answers, and `freeList` the component, which grows by
the pages it asks for; a sync may add a printing between two of them.
Recommendations, genres and title search are functions of a history, of stored
headings and of how alike texts are, which is Postgres' and given as numbers.
Here a state is a question, as in `Rules`.

In `Choices`, `store` is localStorage and `views[t]` the React state of tab
`t`; a handler is one step, since localStorage is synchronous and a handler
does not await. Each read of the list of addons first tries to move the older
list over, as `read` does; `DieMoving` is a tab closed between its two writes.
A click carries the entry on screen, which another tab may have changed since.
`mood` says whether storage works, is full (what grows may be refused) or
refuses everything; `popup` is the last message with the list it was about.

In `Tour`, `tour` is what Shepherd has: the step it is at, those on screen
(`up`), those whose promise has not settled (`coming`; nothing ever withdraws
one) and those shown because ten seconds had passed (`late`).
`waitingForRoute` and `pendingResume` are the component's refs. Loading a page
decides whether to start; building the walk follows when Shepherd has come.

In `Library`, a book's record is in three places, as in the code: the store
`books`, `recordRef` and React's `state`. A request waits in its store's
`queue` with what its caller captured (`was` is the `state` of the render the
click belongs to); one action answers it and runs the caller up to its next
`await`. Requests to one store are answered in order, since IndexedDB orders
transactions of overlapping scope; the stores `books` and `files` are
independent. An answer may be a refusal. A reload drops whatever waits. `told`,
`torn` and `toggled` observe and are read by no action. A locator stands for a
position with its fraction; titles, sizes, origins and times are left out.

## 3. Runs

| Run | Question | Instance |
|---|---|---|
| `SyncRace` | do concurrent syncs keep the tables consistent? | 2 workers, 3 syncs of one book from two discovering sources that share its ISBNs in opposite orders and one attached source; failure and crash anywhere |
| `SyncSerial` | is what a source stored what it says, and is a repeat harmless? | 1 worker that may die anywhere, 5 syncs, three ranked sources |
| `Background` | *pages*: do readers see committed data, and do syncs end? *queue*: is a requested sync a queued one, and does every stale work get its turn? | 2 workers, 2 syncs that lock two ISBNs crosswise, a request for a page, TTL expiry; 3 stale works in batches of 2, or 2 requests with one key spelt two ways, a crash, midnight; fairness |
| `Search` | does a pending reader get what there is to get? | 2 consumers, 2 requests in flight, 2 queries and a genre page's job for one of them, three discovering and two enriching sources, one of which may fail, one lost worker, lock or request, 2 attempts, 1 poll, 2 acts after the first words typed |
| `Reading` | fifteen scenes, below | below |
| `Outside` | four scenes, below | below |
| `RefDangles`, `PagesStale`, `PlaceLost`, `RefreshDropsAttach`, `SharedBreaker`, `FoldersMissing` | disagreements with what the repository says | as the runs above |

Scenes of `Reading`:

| Scene | Property | Instance |
|---|---|---|
| reader | `PlaceKept`, `MarksKept`, `FlagTellsFile` | 2 books, 2 places, 9 clicks, 3 requests waiting per store, one refused write, one reload |
| account | `OneAccountEach`, `SessionOpensOwnAccount`, `SignedOutForGood` | 2 browsers, 2 addresses, a Google identity that has either, 2 requests each, one lost answer or dead handler, one session that expires |
| screens | `PanelsTellTrue` | each kind of part by itself, 5 acts among selections, answers, failures, closings |
| links, quotes | `AnswersAreHonest` | four printings in two languages, three sources' claims, up to one link stored when a sync comes and three after it, two countries, one request for a links panel and one panel in Redis; two shops, one rating source, 2 requests, one at a time |
| rules | `JudgedRight` (`RulesAgree`) | all names of two to six letters of two, ISBN cores of three groups with every check digit, lists of offers in two currencies and none |
| feeds, addon | `JudgedRight` (`FeedsReadAlike`, `OwnBookIsFound`) | pages of every kind of entry and link; 2 books, 2 questions, 3 asks, one broken answer, 2 changes of the server |
| records | `JudgedRight` (`RecordsReadRight`) | what a catalogue in each of four record formats (Dublin Core, MARC, the Polish library's, the NDL's) may hold of a book and its namesakes, asked in three ways |
| offers | `JudgedRight` (`OffersAreTrue`) | what six sources may hold of a book, past each of their caps |
| figures | `JudgedRight` (`FiguresAreTrue`) | pages of two and of four printings, one or two sources' answers to each; two volumes for sale among others, two shops' pages, every binding |
| shelf, lists | `JudgedRight` (`ListsAreRight`) | 4 works in pages of 2, two printings that syncs add, cached pages that expire; histories of up to 4 visits, 3 genres, 5 headings in lists of up to 2, up to 2 texts that are each found in three ways |
| choices | `JudgedRight` (`ChoicesHold`) | 2 tabs, 4 acts on one topic: 2 catalogues of the older list, one addon, 2 addresses to add, five sources, two settings; storage that works, is full or off. Catalogues of up to 4 entries in pages of 2 |
| tour | `JudgedRight` (`TourHolds`) | 7 steps over 4 pages, one of them the reading view, 11 acts among clicks, page changes, reloads and restarts; storage on or off |

Scenes of `Outside`:

| Scene | Property | Instance |
|---|---|---|
| breaker | `HealthyIsAsked`, `TrafficReturns`, `EveryFetchIsAnswered` | 3 callers, 2 services, one of which may fail, threshold 2, 2 tries |
| sources | `OnlyWholeIsKept` | 16 adapters, 2 syncs each, one cache entry that expires |
| addons | `NothingLeftBehind`, `AnswersFit`, `AddonsRespond` | 2 addons, 2 questions, a preview and a visit, one stored value, one change of the list |
| shelves | `ShelfFills` | 3 curated books, one of which nobody has, a subject that shares one, one outage |

Why the bounds suffice. Races of Work sync are between two transactions, and a
third sync sees what the two left; three sources give every pair of ranks.
Every row a sync touches belongs to one book or to an ISBN shared with it, so
one book with two editions reaches every branch. The Search instance holds one
query that a source resolves under another name and one that only half matches,
so every branch of `execute` and of `enrich` is taken; one of its sources knows
the book, stands after the one that resolves the query and does not enrich, so
it is rightly passed over. Attempts, polls and faults are counters whose second
step is like their third.

In the reader every fault needs one book to be disturbed and one to disturb it,
two places to tell a stale one from a fresh one, and at most seven clicks
(open, turn, mark, note, keep, open the other, come back); three waiting
requests let page turns, marks and their refusals queue behind one another.
`PlaceLost` needs one book and four clicks. Accounts race in pairs: two
handlers between their look-up and their insert, and a third call that meets
what they left. A part of a page has at most two answers in flight that matter,
the last one sent and an older one. A breaker needs a caller on trial, one
waiting for it and one of another service. An adapter's cache has an entry of
the last sync and of this one. The sizes in `Offers` (`EDITIONS_PAGE_SIZE` and
its like) are small so that each cap bites; only their order matters to the
code. Nor do four acts on a browser's settings leave a case out: a list of two,
an act in one tab, and one in the other that still shows the list of before.
Eleven acts take the walk to its last step by way of a page left and returned
to; the steps that are left out repeat a case that is there.

What they show. Under any interleaving and any crash the committed tables
change only by whole publications (`PublishesWhole`), keys stay unique, owners
exist and ids are never reassigned. Serially, every stored reference resolves,
no two printings share a row, a lower source never overwrites a higher one, a
re-sync is a no-op and none is refused. A cached page holds only rows that were
committed, and one that fell behind goes with its TTL. A recorded request names
a job the queue was given, whatever died in between; a work that any source can
answer for becomes fresh. A pending search is always worked on unless its
worker was lost twice; a day's "nothing" is never an outage's doing; a found
book is asked about at every source under its own name; a poll is never told
less than an earlier one could have been. A page of the home shelf or of a
genre holds every book the sources can find in the end.

A fetch ends whatever its service does, after an outage requests go out again,
and a service that did not fail is never refused. A source that was not reached
is never taken for one that has no such book, now or from its cache, and a
library catalogue's remembered records hold every lookup made for them. A links
panel in Redis offers only what is stored and committed, of a sibling only free
copies in the same language, and misses no copy there was when it was asked
for, wherever a sync fell among its reads; it says what would be answered now
unless such a sync was between its deletion and its end. Each copy stored has a
right that may be believed; a price or rating answer with a hole in it is kept
for the short life only. A
right, a person, a printing, an average or a price shown is one that was
stated, of that book. A part of a page shows the answer to what is selected, or
an older one while the right one is on its way, and does not say it is loading
when nothing is coming. The free shelf shows no book twice, and passes over
none unless one was stored between its pages; a row of recommendations is full
while there are books for it, a genre offered has the books it says, and a
title found is found once, at its better place. A catalogue of the older list
is neither lost nor brought back, the order of addons is the reader's, and what
a popup says is stored is stored. A walk that is on is to be seen, or will be
on its page, one popup at a time, and a reload resumes it. An addon call is
answered once, with the answer to that question; nothing runs in a frame that
is gone, and nobody waits for one.

The place on screen is what is stored, under the book on screen; a bookmark or
a note said to be stored stays; a record tells whether its bytes are there,
unless it was cut short half-way. An address has one account and so has a
Google identity; a token opens the account whose credential it was given for
and, once signed out or expired, none.

What the passing instances stay clear of, because the code does go wrong there:

* **Two discoveries of one book at once** leave an `external_ref` no row
  answers (`RefDangles`), and which of the two outranks the other is then
  decided by whose reference was visible. `RefsResolve`, `PriorityRespected`
  and `RerunIsCorrect` are therefore checked, and proved, for one worker.
* **One external id for a work and its edition** (Google Books, Gutenberg,
  LibriVox, authorized-free) makes the edition resolve to the work, and with an
  ISBN another source stored, the sync is refused for ever. The passing
  catalogues give works and editions ids of their own.
* **A source that corrects a title** changes the work's natural key, and the
  upsert then meets the old row's primary key. The passing catalogues keep
  titles.
* **The invalidation before the commit** lets an old page back in
  (`PagesStale`); it stays until its TTL, which is what `StalePagesGo` says. A
  links panel read in that gap is stale in the same way, for up to six hours
  (`LINKS_TTL_SECONDS`): deletion, request, its reads, commit, and the old
  answer is kept. In `PanelsTrue` only a panel that did not cross the gap
  answers as of now; without that condition TLC finds these five steps.
* **A worker that dies** after it recorded what a query led to, and is not
  retried, leaves the book with what the first source said until a nightly
  refresh reaches it. `FoundIsEnriched` speaks of books over which no worker
  was lost.
* **A source that both discovers and enriches** is asked about a known work
  under the id of its other job (`RefreshDropsAttach`). In `Background` the two
  groups are apart, as in `SyncSerial`: when Wikidata, which does both
  (`composition-root.ts:49` and `:100`), is asked about a book that Gutenberg
  discovered, it leaves the row to Gutenberg; should it then discover the same
  book, it repeats what it stored and takes the row. TLC finds
  `RerunIsCorrect` violated there.
* **Works nobody answers for** stay the stalest. Once a batch of them has
  gathered, no other work is refreshed: `StaleIsRefreshed` assumes fewer. In
  the same way ten curated books that cannot be found would take every place of
  a visit, and one keeps its page "filling" for ever (`ShelfFills` assumes one
  and says nothing of `filling`).
* **One fetcher for every source**, as the worker builds it, lets one failing
  source close the way to the others (`SharedBreaker`). The breaker scene of
  `Outside` has a fetcher for each service, as the API does.
* **A doubted match** queues its backfill over a day's "nothing"
  (`search-works.use-case.ts:142`), and **typing while a search is pending**
  changes the question its timer sends (`SearchBox.tsx:70`).
* **Ticking "keep this book"** puts the record React last rendered in place of
  the current one, and the next bookmark stores the place the book was opened
  at (`PlaceLost`). `PlaceKept` therefore speaks of books whose box was left
  alone since they were opened.
* **An impatient reader** who opens a second book while one is loading, or
  turns a page while a file is being kept, gets page turns saved to the wrong
  book or a flag that does not match the bytes: with `Patient = FALSE` each of
  `PlaceKept`, `MarksKept` and `FlagTellsFile` fails within a few clicks. With
  `ReadsFail = TRUE` a refused read looks like a new book and the old record is
  overwritten. `Reading` takes a reader who waits and reads that succeed;
  writes it lets fail.
* **A page left while its addons load** leaves frames running, and a removed
  addon's worker may store its state again (`installed-addons.ts:168`). Two
  manifests with one id make the registry's constructor throw
  (`addon-runtime.ts:47`). The scene has addons of different ids, and
  `NothingLeftBehind` speaks of frames whose page saw them start.
* **OPDS 2.0 folders** never reach the shelf (`FoldersMissing`).
* **A search description lost once** makes a catalogue's later searches answer
  from its root page for the life of the browser page; `OwnBookIsFound` is
  stated for the case that it was read. A relative search template is not
  resolved by the addon's transport (`OpdsClient.search` resolves it).
* **A free book stored between two pages** moves the others: one may never be
  shown, and "show more" may stay at one offset for ever. `ShelfPagesRight`
  says that nothing is passed over as long as nothing was stored since the
  first page.
* **A step of the tour left before its element came** is shown over whatever
  page is open when its time is up, since `beforeShowPromise` is never
  withdrawn; when the walk has moved on by then, two popups stand together.
  `OnItsPage` is stated for walks that did not move on past a step still to
  come (`overtaken`), and lets a late step stand on a wrong page.
* **Catalogues of the older list without an id** and with addresses of one
  length get one id (`installed-addons.ts:110`), and the registry then throws.
  The scene's have ids, as those the program wrote itself.
* **Entries of an addon's catalogue that cannot be read** are dropped before
  the offset of the next page is counted, so books are shown twice, and a page
  of nothing else ends the list. `CatalogueIsShown` takes fewer of them
  together than make a page, and speaks of repetition for those without.
* **A Google address** is taken never to pass from one Google identity to
  another.

Seen while modelling, where the code is lenient by design or the model takes it
as it is:

* Sync: an outage of `fetchWorkDetails` fails the sync, though
  `book-metadata-provider.port.ts:101` calls details best-effort. Idempotency
  records are written with an expiry nobody reads or cleans. A registration
  that loses the race for its address surfaces as a server error. Expired
  sessions are deleted only when they are met (`deleteExpired` has no caller).
* Search pages: `browse-by-subject.use-case.ts:84` speaks of the books "this
  instance lacks" and queues all twenty; a genre that stays thin under a
  language filter queues the same twenty each quarter of an hour. Links stored
  before the policy changed stay (ADR-0011).
* Open Library remembers a missed availability for six hours and Wikidata a
  missed Wikisource likewise. Of two exact items about one edition the later
  wins, so a free scan may give way to a lendable one. Archive.org's own format
  names ("Text PDF") defeat the priority list of `parseIAFormats`. Gutenberg
  takes `copyright: null` for public domain. In the list of given-away books a
  word counts from three letters, so "and" may name an author
  (`authorized-free-catalog.ts:178` says short words are dropped). Wikidata's
  candidates that turn out to be no books stop the retry with fewer words.
* Library catalogues: an SRU record's author is looked for by every long word
  of the query, the title's included, so a book about Alice by an Alice may be
  taken; relator codes are read from the first `$4` of a field; the wording is
  asked whenever no author code is there, others or not; the Polish reader
  never asks the wording for the author; two records may share an id with
  different natural keys (the publisher is lowercased and ISBN forms are not
  mixed down), and end on one row.
* Panels: an average above five stars is cached for a day before
  `Rating.create` refuses it, so that source counts as failed for that ISBN all
  day. One volume in an unknown currency fails the whole price answer.
  `editions=` is not deduplicated. A translator with one rated printing may be
  shown alone. The model takes rounding as exact, where binary fractions round
  1.005 to 1.00.
* Page parts: one failure of the featured books hides the section for later
  languages; the nearby shops take whichever answer is last; a tag hidden "for
  this visit" is not hidden when storage refuses (`hidden-tags.ts:36`), and
  hiding the last genre takes away the control that brings it back; a catalogue
  that could not be stored never shows up (`opds-feeds.ts:100`); a reload of
  the bookmarks may bring back one being removed. The heading of a panel's
  shops names the country of the render, the shops are of the country at
  loading (`EditionLinks.tsx:208`). A work page opened without a language in
  its address forgets the remembered one, so that lasts for one page view
  (`RememberBookLanguage` speaks of remembering).
* Lists: the number of free books is the first page's, and 0 past the end.
  Where no genre is shared, recommendations fall back to all tags
  (`reading-history.ts:109`), though ADR-0006 says there is then no section.
  A subject is counted by its headings, so a work with two spellings of one
  counts twice. An addon's sources are asked id by id, so their order is not
  the reader's priority (`AddonSources.tsx:38`).
* Settings: removing an addon forgets its own state even if the list could not
  be written. Switching an addon that another tab removed, or a source, says
  "saved". Two tabs' displays overwrite one another whole. A removed source's
  id may be given again, and a click in another tab then acts on the new one. A
  template may ask for `{domain}`, which the form has no way to fill. The first
  page of an addon's catalogue that fails cannot be asked for again.
* Tour: whether to begin is decided before Shepherd is downloaded, so a reader
  who goes on to the reading view meanwhile is interrupted there
  (`OnboardingTour.tsx:159` says never). "Take the tour" does nothing in that
  time and says it did; while a walk is on it says both "restarted" and
  "skipped". A link of the navigation opened in another tab advances the walk.
* OPDS: a priced or unspecified acquisition, or a sample, is offered by the
  addon's transport as a file; both parsers drop a price without a currency
  (`parse-atom.ts:45`), so an open or unspecified acquisition that has one counts
  as a direct download; an Atom entry that only leads on becomes a
  folder and its JSON twin vanishes; of two specific relations on a link the
  first decides.

## 4. Fairness

Every liveness property is checked under what something in the code or below it
keeps doing; nothing is assumed of failures, crashes, recoveries or what people
do, except where said.

* `PagesFairness`: `Proceed(w)` (Node resumes a continuation whose await has
  settled, and Postgres grants a free lock), `DeadlockAbort` (its detector runs
  after `deadlock_timeout`) and `ExpireSome` (a Redis TTL runs out).
* `QueueFairness`: the nightly pass and a request go on from await to await,
  midnight comes, the worker takes and ends what is queued, retained jobs age.
* `BreakerFairness`: timers fire, and a service answers or the time limit does.
  Requests need not come, and a sick service need not recover.
* `AddonsFairness`: timers fire, messages arrive, downloads end. An addon's own
  code owes nothing.
* `ShelvesFairness`: readers keep coming (a shelf nobody visits does not fill),
  cache entries and retained jobs expire, the worker runs, and its plain list
  is not kept full for ever, since a deferred job runs only when no other
  waits.

`Search`, `Sources` and the scenes of `Reading` have safety properties only:
their readers stop by a counter, and what ends there is what ends in `Breaker`.

## 5. Proofs

Every theorem is about all values of the constants: workers, readers, sources,
books, bounds. What it assumes of them is named in the module that declares
them, and TLC evaluates that on every run. A hypothesis beyond that stands in
the theorem (`ASSUME .. PROVE`); the passing runs satisfy it, and the last
column says what shows that it is needed. TLC finds the strengthened invariants
true on the instances of section 3 as well, but for the type parts it cannot
enumerate.

| Theorem | States | Hypothesis |
|---|---|---|
| `TypeCorrect` (`SyncWorkTypes`) | `TypeOK` | |
| `InvHolds`, `KeysStayUnique`, `OwnersAlwaysExist`, `IdsStayStable` | `Inv`, `KeysUnique`, `OwnersExist`, `IdsStable` | |
| `CatalogueChangesWhole` | `PublishesWhole`: `SyncWork` implements `BookCatalog` | |
| `RefsLeadToRows`, `EditionsStayApart` | `RefsResolve`, `EditionsKeptApart` | one worker (`RefDangles`); a source's ids tell works from editions (`WorksApart`; section 3 names four that do not), and name one printing each (`OnePrintingEach`); as in `SyncSerial`, workers die but sources answer (`CalmSpec`) |
| `BetterSourceStays` | `PriorityRespected` | the same, and answers of a source that share an id are about one work (`OneHomeEach`) |
| `RerunStaysCorrect` | `RerunIsCorrect` | the same, and an ISBN a source lists stays with one work (`PrintingsStay`), sources without a rank have no book in common (`UnrankedApart`), no ranked source both discovers and attaches |
| `PagesShowOnlyCommitted` | `PagesShowCommitted` | |
| `SyncQueueTypeCorrect`, `ReplaysNameQueuedJobs` | `SyncQueueTypeOK` with `QueueConsistent`, `ReplayNamesQueuedJob` | |
| `EnrichmentNamesItsWork` | `AskedAboutKnownWork` | registered and enriching sources are disjoint (`RefreshDropsAttach`), no query is a work's id |
| `SearchTypeCorrect`, `NobodyWaitsForNothing`, `NothingForADayIsNothing`, `AnswersAreNotTakenBack`, `NoBookIsLeftBare` | `SearchTypeOK`, `PendingIsWorkedOn`, `DayMeansUnknown`, `AnswersStick`, `FoundIsEnriched` | |
| `AccountsTypeCorrect`, `AccountsAreOneEach`, `SignOutIsForGood` | `AccountsTypeOK`, `OneAccountEach`, `SignedOutForGood` | |
| `SessionsOpenOwnAccounts` | `SessionOpensOwnAccount` | an address never passes to another Google identity (`OneIdentityPerAddress`) |
| `BreakerTypeCorrect`, `WaitersAreNotForgotten` | `BreakerTypeOK`, `TrialUnderway` | |
| `HealthyServicesAreAsked` | `HealthyIsAsked` | no fetcher serves services that fail beside others (`FetchersApart`; `SharedBreaker`) |
| `FetchesAreAnsweredOnce` | `Breaker` implements the safety half of `Fetch` (of `EveryFetchIsAnswered`) | |
| `AddonsTypeCorrect`, `AddonsLeaveNothing`, `AnswersAreToTheQuestion` | `AddonsTypeOK`, `NothingLeftBehind`, `AnswersFit` | |
| `SourcesTypeCorrect`, `NotFoundIsAnAnswer` | `SourcesTypeOK`, `OnlyWholeIsKept` | |
| `ShelvesTypeCorrect` | `ShelvesTypeOK` | |
| `OutsideTypeCorrect` | `OutsideTypeOK` | |
| `PatientReader`, `ReaderTypeCorrect`, `PlaceIsKept` | `ReaderInv`, `ReaderTypeOK`, `PlaceKept` | a patient reader (section 3) |
| `MarksAreKept`, `FlagsTellFiles` | `MarksKept`, `FlagTellsFile` | a patient reader, reads that succeed (section 3) |
| `ScreensTypeCorrect`, `PanelsAreTrue` | `ScreensTypeOK`, `PanelsTellTrue` | |
| `PanelsInvariant`, `PanelsTypeCorrect`, `PanelsAnswerHonestly` | `PanelsInv`, `PanelsTypeOK`, `AnswersAreHonest` | |
| `WalkKeepsItsPlace` | `TourHolds` | |
| `OpdsTypeCorrect`, `OwnBookTurnsUp` | `OpdsTypeOK`, `OwnBookIsFound` | |
| `ReadersTypeCorrect` | `ReadersTypeOK` | a patient reader |
| `AddonAndTourJudgedRight` | the addon and tour parts of `JudgedRight` | |

The arguments, by what the properties need beyond themselves:

* **Syncs** (`Inv`). Key uniqueness is not inductive by itself: a commit merges
  a private write set into tables that other transactions changed since it was
  built. `Safe` adds what locking provides: write sets of two open transactions
  share no row id and no natural key; a row an open transaction writes under a
  key is the committed row with that key, if there is one; and every edition or
  link it writes has an owner among its own or the committed rows. A statement
  extends one set by a row it has locked; a commit moves a set whose parts were
  already compatible; an abort or crash only removes.
* **Whole publications.** `Written` says statement by statement what of the
  answer the open transaction already holds and that it holds nothing else, so
  that at `commit` it is the publication of that answer. The proof has one
  lemma per statement; that the loops over editions and links end with nothing
  left out is where `Written` is needed.
* **References** (`CalmInv`). Of the only transaction there is, the tables
  overlaid with its writes always resolve (`Leads`), and the row it is about to
  write under an id it found is still there (`WorkFound`, `EditionFound`). Both
  are false for two workers: the second may find what the first is to move.
* **Who signs a row** (`SettledInv`, `YieldingInv`). With one worker, what a
  transaction has found out is still so when it writes: the rows its answer
  leads to are those of one work, its source is the first of those known for
  the row it is about to sign, or the row was there and keeps its signature
  (`Settled`). So each row its view changes is signed by a source not outranked
  (`YieldsTo`), which `Commit` then makes the table's.
* **Repeats** (`RepeatsInv`). While a stored answer is synced again, the view
  is the tables and the links are there already: the row found is the row that
  would be written. A source attached to a work does not sign its row, so one
  that also discovers and outranks who did takes it by a repeat; and two
  sources without a rank each take a common book from the other. TLC has a
  counterexample to both. The deployed lists have Wikidata in both groups and
  library catalogues without a rank that may hold the same printing: there the
  theorem says nothing, and a repeat may change data (`docs/plan.md:548` says
  that it does not).
* **Pages** (`PagesInv`). What a request has read stays committed, since
  editions, links and what sources were known for are never taken back
  (`RequestsOK`, `RefsTold`).
* **Queue.** `QueueConsistent` is inductive: an id is in the list that its state
  names, once; it has a consumer exactly when active; a waiting one has an
  attempt left. The lemmas of `JobQueueSafety` say of each of BullMQ's steps
  which of the others' jobs it leaves. `SyncQueueSafety` adds that a request
  about to record a job id has given it (`SavedAfterQueued`).
* **Search.** A poll is worked on because a job that ended left an answer, was
  lost twice, or is there to swallow the next one (`Settled`); what a consumer
  has found out so far (`AtWork`, `DiscoveryOK`) is what makes a recorded
  "nothing" one that every source gave. `RequestsRemember` carries what Redis
  knew when a request set out over its awaits. `SearchSafety` splits `Next`
  into the backfill's side, which loses no answer, and the reader's, which
  writes none. For `FoundIsEnriched` a consumer's list is what is left: the
  sources tried so far enrich, are remembered as having drawn a blank, or were
  down (`Exploring`), and a found book has been asked about at all but those
  still in `todo` (`Thorough`). A later job only adds to what is attached.
* **Accounts.** Uniqueness rests on the unique keys alone. That a session opens
  its own account needs that the credential was already the account's when the
  session is about to be written (`CredentialsOpen`); a token once handed out is
  below the counter, so it is not handed out again.
* **Breaker.** A half-open breaker's tester is in flight on trial through it,
  and whoever waits is behind such a caller (`TrialUnderway`). A healthy
  service's breaker stays closed with no failure counted (`HealthyInv`). Seen
  through `Told`, which hides attempts, trials and waiting, each step of the
  breaker is one of `Fetch`: an `Ask`, an `Answer` to those whose fate it
  decides (a trial's end decides several), a `Take`, or no step.
* **Shelves** (`ShelvesInv`). The queue under them is `JobQueue` by `INSTANCE`,
  and so are its lemmas: each step of a shelf is one of the queue's or leaves
  it alone.
* **Addons** (`HostInv`). A frame is in the document, and listened to, exactly
  while it runs; one that does not holds no message and no call that waits; one of
  a later visit is unused; and a waiting call or a result on its way carries the
  question its number was given to.
* **Adapters** (`SourcesInv`). An operation whose answer decides has lost no
  request so far, and neither has a cache entry made from one (`WholeSoFar`);
  one that failed concluded nothing (`ThrownOnly`).
* **The reader** (`ReaderInv`). A patient reader's tab is in one of three
  phases: pages and marks are on their way (`Turning`), one book is arriving
  (`Arriving`), or one long request is all there is (`Waiting`). In each, the
  last record on its way is the ref's (`LastWritten`), every record on its way
  has the ref's marks but for those a later request changes again (`MergesTo`,
  `Later`), and a flag differs from the bytes only between a request's two
  halves (`Midway`).
* **Page parts** (`ScreensInv`). The request with the current number asks for
  what is selected, and a closed part waits for nothing.
* **Panels** (`PanelsInv`). A stored copy is permitted, and half an answer is
  young. A copy once stored is never taken back (`CopiesFree`), so what a
  request has read stays true and what it has yet to read still holds the copy
  there was (`ToFind`). Whoever was at it when a sync deleted, or came before
  that sync's end, is marked (`OpenCrosses`); so an unmarked request has seen
  no commit, and what it has read is as of now (`ReadSoFar`), and a panel kept
  by one was deleted before the next commit.
* **The tour** (`TourInv`). A step held for its page is all there is of the
  walk (`StepHeld`); what is still to come is the step the walk is at, unless
  it moved on (`ComesWhatIs`); a walk that is over is not begun by the page
  that is loading (`OverIsOver`).
* **A catalogue as an addon** (`OpdsInv`). The root is one page and there from
  when anything needs it; without a template there is no search, or its
  description was missed (`NoneForAReason`); a book held since it was asked
  about is held (`HadIsHeld`).
* **Compositions.** The scenes share no variable: a step of one is a stutter of
  the others, so each keeps the invariant it has alone (`OutsideInv`,
  `ReadersInv`). That `Outside` also starts from what an earlier sync left is
  one more initial state to check.

Model-checked only:

* Liveness and whatever needs `ENABLED` (`StalePagesGo`, `SyncsEnd`,
  `StaleIsRefreshed`, `TrafficReturns`, `AddonsRespond`, `ShelfFills`, and of
  `EveryFetchIsAnswered` that the answer comes), which TLAPS does not reach.
* The other parts of `JudgedRight`: what the operators of `Rules`, `Records`,
  `Offers`, `Opds`' parsers, `Figures`, `Lists` and `Choices` compute. They
  fold over or filter sequences, so what they return for every input is
  induction over data.

## 6. Plan

1. *(done)* Work sync, its abstract catalogue, pages, first proofs.
2. *(done)* Queue, backfill, search.
3. *(done)* `SyncQueue`, and `Shelves`, the other producer.
4. *(done for one tab)* `Library`. Left: a second tab writing the same record,
   records of older versions.
5. *(done for local addons)* `AddonHost`. Left: http addons, other
   capabilities.
6. *(done)* `Accounts`.
7. *(done)* `Breaker` and its abstract `Fetch`; `Sources` above them.
8. *(done)* `Rules`, `EditionPanels`, `Figures`, `Records`, `Offers`, `Opds`,
   `Screens`.
9. *(done)* `Lists`, `Choices`, `Tour`. Left in 8 and 9: Gallica's records, the
   batching of review links, the nearby shops.
10. *(done)* Theorems of section 5: refinement of `BookCatalog` and of `Fetch`'s
    safety half, the safety of syncs (of one worker's order and repeats under
    the hypotheses named), pages, queue, search, accounts, breaker, shelves,
    addons, adapters, reader, page parts, panels, tour and own catalogue, and
    of the two compositions.
11. Left: what the operators over lists compute, for every input, which needs
    them written without sequences; liveness.

## 7. Not modelled

Dictionaries of the interface (about 25 000 of the 61 000 lines of the
implementation are translated sentences), widgets, style and layout, wording
and logging, wiring, configuration, migrations and Docker files: nothing in
them has an order or a choice a property could be about. The vendored e-book
renderer is external, as are Postgres, Redis, BullMQ, cockatiel, IndexedDB and
the browser. Of the code that decides something, what is left out is named in
PROJECT.json, component by component: mostly text turned into text (titles,
punctuation of names, tables of languages and countries) and readers with one
query and one cache entry of fixed life. For these reasons the map names a
minority of all lines, and a quarter of those outside the dictionaries.

Redis and Postgres are taken to keep what they acknowledged; a wiped Redis
loses caches and jobs together, which is the initial state again.
