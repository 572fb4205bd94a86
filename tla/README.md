# A verification of go-evepraisal

TLA+ models of the parts of go-evepraisal where something can go wrong between
two steps, checked with TLC on small instances, and theorems, checked with TLAPS for
every instance, of all their properties but the liveness ones.

Paths below are relative to the repository (`src/`).

## 1. The system

A visitor pastes a list of items of EVE Online; the program parses it, prices
each item, stores the result as an *appraisal* under a short ID and shows it. For
members of one alliance an appraisal is also an offer to buy the items back: the
program compares it with the contract that the member made in the game and
tells the buyers on Discord. The program is one process with several goroutines
and four bolt files.

| Component | State | Operations | Talks to |
|---|---|---|---|
| Appraisal database and reaper (`bolt/appraisal_db.go`) | five buckets: appraisals and their sequence, index by user, last used, notified time, notified status | PutNewAppraisal, GetAppraisal, Delete, Get/SetNotifiedState, listings; goroutines setLastUsedTime and startReaper; Close | web handlers, management server |
| Static data fetcher (`staticdump/`) | files of each dump: zip, bolt file, search index | RunOnce at start and every six hours, Close | CDN; hands a type database to the application |
| Type database under the requests (`evepraisal/app.go`, `bolt/type_db.go`) | App.TypeDB, App.Parser, open bolt files | the callback that swaps both; GetType, HasType, GetTypeByID, Search | every request |
| Price fetcher (`esi/fetcher.go`) | workers and channels of a fetch, maps of prices | runOnce every five minutes, FetchOrderData, FetchPriceData, Close | ESI, price database |
| Price database, HTTP cache (`bolt/price_db.go`, `bolt/httpcache.go`) | one bucket each | one transaction per operation | fetcher, pricing, HTTP client |
| Parsers (`parser.go`, `parsers/`) | none | text to items and lines that are left | type database |
| Pricing and buyback (`appraisal.go`, `buyback.go`) | none | prices, materials, totals | type and price database |
| Contracts and locations (`esi/contracts.go`, `esi/locations.go`) | package-level caches of systems, stations, sovereignty | EvaluateContract, FindLocation | ESI with the user's token |
| Web (`web/`) | cookie sessions | handlers; post to Discord when a contract's status changed | all of the above |
| Management server, legacy restore (`management/`, `legacy/`, `evepraisal/restore.go`) | none | backup, restore of appraisals with a given ID | appraisal database |
| Start and shutdown (`evepraisal/app.go`) | deferred closes | start in order, close in reverse | everything |

What is hard here, and what makes each part correct:

* **Operations of several transactions.** bolt makes one transaction atomic, but
  DeleteAppraisal, SetNotifiedState and a pass of the reaper take two or more, and
  requests, the reaper, the last-used goroutines and crashes come between them. The
  index by user must stay exact, deleted appraisals deleted, IDs unique; nobody
  but the owner and the reaper may remove.
* **Files as state.** The static fetcher decides by the existence of a file whether
  a dump is downloaded and loaded. A load that did not finish must not be served, and
  a later run must repair what a failure, a stop or a crash left.
* **Pointers that are swapped under requests.** No lock protects App.TypeDB and
  App.Parser. What a request loads must be open; a type that exists must be found.
* **Channels and selects.** An error, the end of the workers and a stop race in one
  select. Incomplete data must not be stored, failures must not end the loop, and
  Close must return.
* **Maps in arbitrary order.** The prices of a market are merged by loops that
  change the maps they read.
* **A chain of parsers.** Each takes lines and hands the others on; some renumber
  them, some drop what they do not like. No line may be counted twice, and none
  that says plainly what it is about may be lost.
* **Three steps to a message.** The verdict on a contract is compared with the
  stored one, posted and stored, by requests that overlap, with answers that do
  not come, caches that remember failures, and restarts in between. A change must
  be told, if more than once.
* **A cursor over a list that changes.** The pages of a user's history must neither
  repeat nor skip an appraisal while others come and go.
* **Closing under load.** Nothing waits for requests in progress when databases are
  closed: goroutines must have ended, and what a request then misses must not be stored.

Everything of this kind that we found is under "hazards" in `PROJECT.json`, with
the line where it bites and the properties that would notice.

## 2. Modules

| Module | What it is |
|---|---|
| `AppraisalStore` | abstract specification: a map of appraisals with the history of each user, and atomic Create, Import and Delete (the interface `AppraisalDB` of `evepraisal.go`) |
| `AppraisalDB` | the five buckets, requests, goroutines, reaper, Close, crash, restart; `INSTANCE`s AppraisalStore |
| `AppraisalDBProofs` | theorems about AppraisalDB |
| `MCAppraisalDB` | model values and symmetry for TLC |
| `StaticFetcher` | RunOnce, loadTypes, the files of each dump, stop, failures, crashes |
| `StaticFetcherProofs` | theorems about StaticFetcher |
| `TypeDBSwap` | the callback in app.go and the requests that look types up |
| `TypeDBSwapProofs` | theorems about TypeDBSwap |
| `PriceFetcher` | the goroutine, the workers of a fetch, the channels, publication |
| `PriceMerge` | which price a market gets, for every order of iteration |
| `PriceProofs` | theorems about PriceFetcher and PriceMerge; EXTENDS both, so that no name of PriceMerge is one of PriceFetcher |
| `LineParsers` | what each of the fifteen parsers takes from a paste and leaves of it |
| `Buyback` | prices, adjustments, and how items are taken apart into materials |
| `Appraise` | NewContextMultiParser and StringToAppraisal: the loop over the parsers, merging, pricing, buyback; EXTENDS both |
| `AppraiseProofs` | theorems about Appraise, its parsers and its buyback |
| `MCAppraise` | types, prices and pastes for TLC |
| `Notifications` | the owner's view of an appraisal: contract, locations, verdict, Discord, the stored state |
| `NotificationsProofs` | theorems about Notifications |
| `UserHistory` | the pages of a user's history; `INSTANCE`s AppraisalStore for the appraisals that come and go |
| `UserHistoryProofs` | theorems about UserHistory |
| `Lifecycle` | the parts of appMain, started and closed in order, with their goroutines, requests and the restore command |
| `LifecycleProofs` | theorems about Lifecycle |

### AppraisalDB

One bolt Update is one atomic durable step, one View reads one snapshot; an action
is one transaction with the code that leads up to it, and what the code carries
from one transaction to the next is kept in `req` (requests), `touches`
(setLastUsedTime goroutines) and `reaper`. A crash loses these three and keeps the
buckets. DeleteAppraisal is `DeleteRead` and `DeleteCommit` (the reaper's
`ReaperRead` and `ReaperCommit`), SetNotifiedState is `SetNotifiedState`,
`SetNotifiedTime`, `SetNotifiedStatus`. HandleDeleteAppraisal checks the owner in
`RequestDelete`, a transaction earlier. `PutFails` and the `CommitFails` disjuncts
are transactions that do not commit. An appraisal is its user and its private
flag; a time is an age that stops growing beyond ExpireTime, so time is unbounded.
The refinement maps the store to bucket `appraisals`, each user's history to the
keys of the index, and the issued IDs to the sequence.

### StaticFetcher

The state on disk is, for each dump, the zip (none, broken, whole), the bolt file
(absent, empty, or how many blocks of a thousand types it holds) and the index (none,
broken, whole). `fetcher` is where the fetcher is in RunOnce and loadTypes. NewTypeDB for writing
is `CreateTypes` (bolt.Open creates the file), `CreateBuckets` (its Update) and `CreateIndex`, which
opens an index that is there; `LoadBlock` is one turn of the loop between two looks at stop. The deferred
function closes a finished database (`LoadEnds`); of any other it removes the bolt file (`RemoveTypes`)
and then the index (`RemoveIndex`). Each of these steps has one that fails, and a crash can come
between any two of them or, for the index, in the middle. An error of NewTypeDB or of the
deletion loses a handle that is open for writing: `locked` says of which dumps, until the
process ends. bolt waits a second for such a lock, bleve without end (`WaitsForIndex`).
`OpenTypes` opens read-only, which creates a missing file before it fails, as bolt
does. `RunFails` is log.Fatal at the start and a warning later. `cut` is a history variable: the dumps
whose load or deletion was cut by a crash, or whose deletion failed.

### TypeDBSwap

`RunOnce`, `OpenNew`, `StoreTypeDB`, `StoreParser` and `CloseOld` are the steps of
the fetcher and its callback. A request loads a pointer (`Start`, `Load`), begins a
View (`Begin`), gets a slice (`Get`) and decodes it after the View (`Decode`). bolt's
Close does not wait for a View. Reading unmapped memory ends the program or yields
something else, nondeterministically (`ReadUnmapped`). `swapped` is a history flag
that says whether a database was closed since the request started.

### PriceFetcher, PriceMerge

PriceFetcher keeps the select of FetchOrderData as Go has it: while it waits
("blocked"), the first event is the one it takes, so an error that is sent to it
wins over `finished`; before it waits ("spawned"), the ready cases are chosen among at
random. `early` is a history flag: an error came before the select. That takes a
request that fails after ten retries faster than one goroutine reaches its select,
and is the only way to incomplete prices. PriceMerge is the double loop of runOnce; its
initial states are all combinations of orders and CCP prices.

### LineParsers, Buyback, Appraise

A line is abstract: a *form* that says which regular expressions match it and what
their groups hold (`Matched` and `Captured`, obtained by running the expressions of
the source on an example of each form), the name that it holds and a quantity. A parser
is an operator from the lines that are left, by number, to the lines it takes, the items
it finds and the rest. Nearly all are `RegexParse` over their expressions; the others
have rules of their own: `ContextListing` and `Heuristic` look names up, `ParseSurveyScan`
drops the rest, `ParseEFT` and `ParseKillmail` renumber the lines (`Strings`), and
a killmail that is cut off ends the request (`Panic`). The state of `Appraise` is the local state of
NewContextMultiParser and StringToAppraisal, and its actions are their stages: one turn of the
loop is `Take`, `MoveAhead` or `ParserPanics`; then `FindKind` or `NoValidLinesFound`,
`ItemsOfResult` (both mergings by name), `PriceItems`, `CalculateBuyback` or
`BuybackPanics`. Arithmetic is in whole numbers: prices in hundredths, rates in percent; the
division by portions and the rounding down of materials are those of the code. (The code multiplies
and divides in floating point, which is exact for quantities below 2^53 / 100.)

`Collect` is collectBuybackItems as a recursive function, on the types of `Divisible`: the
least set of types that are bought, or made only of types in it, with no portion of 0. For any other type
the code has no result, and `CalculateBuyback` is not enabled. `BuybackMap` fills the map of the whole
from the entries of the items' maps, one after the other, as the two loops do. `bought` is what the
page shows below each item, `offer` the totals.

### Notifications

`views` says where each view is and what it found: the contract (`FetchContracts`, with the
checks that need nothing else), the location (`Lookup`, `Fetch` and `Store` are the look at a map, the fetch
and the write to it, once for the station, once for the region), a structure, the map of
sovereignty, the items, and then `Compare`, `Post` and `SetNotifiedState`. The map of sovereignty is
asked for (`SovereigntyAnswered`), filled entry by entry (`FillOthers`, `FillSystem`) and looked at
(`Sovereignty`), by other views also while it is being filled. `known` and
`sovMap` are the package-level maps, which a restart empties; `notified` is the stored
state, which it does not. `...Fail` actions are fetches without an answer, and
`PostUnanswered` is the post whose response is nil. `webhook` says whether discord-webhook is configured;
by default it is not, and then `Post` posts nothing and the verdict is stored all the same.
`ConcurrentMapWrite` is the end of the program by Go's runtime, which may find that a map is used
while it is written, and may not. `answered` (Discord answered the view that stored
what is stored), and `saw` of a view (what the map of sovereignty said of the system when the view looked), are history.

### UserHistory

A page is one View: `LatestAppraisalsByUser` takes the newest IDs below that of the link, as the
cursor does from the place where that key is or was. `Latest` begins a walk, `Earlier`
follows the link, `StoreMoves` is any step of AppraisalStore. `shown` and `stayed` are history variables.

### Lifecycle

`up` counts the parts that are started and not closed; `StartPart` and `ClosePart` go
through `Parts` up and down. appMain defers priceDB.Close twice: the second of them is an entry of `Parts` of
its own, between those of priceFetcher and httpCache, and after it the price database is closed, although
its first entry comes last. Close of a part with a goroutine is `StopTask`, then the goroutine's
`TaskEnds`, then `ClosePart`. `Interrupt` puts a signal into the channel, `ReceiveStop` takes it.
A request takes app.TypeDB at each stage (`TakeTypeDB`) and uses it in a later step, when it may be
closed, and then may find all that it looks for, some or nothing (`Outcomes`). What it missed is in `types` (of
the items), `prices` and `whole` (any other lookup: lines, the plain ore of a variety, adjustments, materials of the
offer); `closed` is history: a type database was closed in its time. An item without a type has the
ID 0, and `zeroType` says whether the dump has a type with it, as loadtypes takes any type that has a name. The
goroutines of setLastUsedTime, for which no Close waits, are in AppraisalDB. `RestoreRecord` is one turn of the loop of
RestoreLegacyFile with the post to the management server.

## 3. Runs

Passing runs:

| Run | Question | Bounds |
|---|---|---|
| `AppraisalDB_safety` | exact index, no trace of an ID before it is handed out, who removes, refinement of the store | one imported and two new IDs, one user and visitors (two users are in `AppraisalDB_commit_fails`), two requests, one toucher, ages up to ExpireTime + 1: deletions of two requests and the reaper overlap, with a goroutine behind them and crashes anywhere |
| `AppraisalDB_liveness` | orphans and expired entries are reaped, Close returns; a notified status never without its time | two statuses, two requests, so that two notifications, or one and a deletion, overlap; one ID; no symmetry |
| `AppraisalDB_commit_fails` | what holds when commits fail: deleted for good, never overwritten | one imported and one new ID, two users, one request, with notifications |
| `StaticFetcher` | a partial database that would be served is left only of a dump whose load or deletion was cut; a whole one is never touched; a dump is served in the end unless a spoiled file was left; Close returns | three dumps, two blocks each: a stop or a crash can come before, between and after blocks, and dumps can be published during a load and after damage |
| `TypeDBSwap` | pointers lead to open databases; only two are open; types are missed only across a close | four handles, used again when free, two requests, so that each request can hold an old database while two swaps pass |
| `PriceFetcher` | incomplete orders are not stored, no data race, the loop survives, Close returns | two regions (the program has one), two pages, two markets, one type |
| `PriceMerge` | the merged price is the chosen one | two types, volumes on both sides of 2 and 10 |
| `Appraise` | lines counted once, plain lines kept, quantities kept, the offer is the sum of its parts, where panics stop | all pastes of one or two lines out of 68, with known and unknown names, and thirteen longer ones: killmails, cut ones, fits of both kinds; six types with two levels of materials, portions of 3, rates that do not divide |
| `Notifications` | what is stored was answered; verdicts are right unless something failed, the system was lost or its map was being filled; the last verdict is told | two views, one unanswered fetch or post, one restart, every flaw, station or structure: a late view, a lost post and a restart can meet, and two views can be in one map. A webhook is configured: without one `Post` posts nothing, StoredIsPosted claims nothing, and the other two properties, which do not read `answered`, hold as well (Webhooks = {TRUE, FALSE}, which takes twice as long) |
| `UserHistory` | pages descend, a walk shows all that stayed | five appraisals, pages of two, two users, two kinds: a walk has up to three pages, and each page can lose or gain its neighbours |
| `Lifecycle` | fetchers and the reaper have their stores, what a stored appraisal may lack and when, a signal ends the program, nothing that a restore got taken is lost | one request (requests do not meet here), all eight entries of `Parts`, with and without a type of ID 0, two records of three kinds, so that a good one can come before and after any other |

The run that ends in a violation, a disagreement between the code and what it says:

| Run | What it shows |
|---|---|
| `AppraisalDB_never_used` | the last use of a new appraisal is recorded only if storing it failed (`appraisal_db.go:127`), so an appraisal nobody views is never reaped |

Weaknesses that the models show without a run of their own, because nothing in the
repository promises otherwise or a property excepts them by name:

* The reaper deletes by the list of an earlier transaction, also an appraisal used since then.
* A crash during a load gets the partial type database served after the restart; so does a crash or an
  error between the two removals of TypeDB.Delete, after which the index is taken for the next load's, when that load
  fails there (both excepted by `PartLeftOnlyIfCut`). A deletion that fails leaves a lock for which the next run,
  and with it Close, waits for ever (`WaitsForIndex`). A stop during a load leaves an empty file that the next start cannot open;
  a failed download leaves a zip that is taken for the dump ever after (excepted by
  `ServedUnlessSpoiled`); the search for a dump never gives up (`FindOlder`: its counter does not move).
* GetType decodes a value after its View, when the file may be unmapped (`ReadUnmapped`).
* The lines of a result that is not liked, and those that a survey scan or a killmail
  drops, are neither in the appraisal nor among its "bad lines" (excepted by `KnownLineKept`, or not plain).
* An unknown item next to a known one ends the request in a division by zero (`BuybackPanics`), unless the dump
  has a type with the ID 0, which is then taken apart in its place; a killmail that is cut off ends the request,
  too (`ParserPanics`).
* An adjustment that cancels the base adjustment counts as none, so such a type is paid in full (`EffectiveAdjustment`).
* A message may be posted twice; a post without an answer ends the request in a panic; an answer of
  Discord that refuses the message counts as posted, and so does one that was not posted because there is no webhook.
* A view that looks its system up while another one fills the map of sovereignty calls a right contract invalid, and
  that is announced (excepted by `VerdictExplained`; `EventuallyTold` says that it does not last).
* A location that could not be fetched once stays missing, and the map of sovereignty stays as it was,
  until the program ends (excepted by `EventuallyTold`); two requests that use such a map at once may end the program.
* The link to the next page of a history loses the kind.
* A request whose type database is closed under it, by the shutdown or by a swap, ends in a panic or an error, or it
  goes on and its appraisal lacks lines, the price of a plain ore, or materials of the offer (excepted
  by `StoredWhole`).
* A record of the legacy file that the running program refuses is only logged, and one that cannot be
  read ends the restore.

Every property of a passing run has a mutant in the module it is about: the
definition as a plausible mistake would have it, for which the property fails.

Every bound is a CONSTANT commented "bound:" or named in the table. Unbounded in
the models are: time, crashes and restarts, swaps, runs of the fetchers and passes
of the reaper.

**Fairness.** Goroutines run (weak fairness of each request's, goroutine's and the
reaper's next step), because the Go scheduler is fair and every transaction and
HTTP request ends (all clients have timeouts). Time passes, and a program that is
down is started again. Liveness also needs that crashes and failures come to an
end, `<>[][~Crash]_vars`: nothing can be promised of a program that is killed
again and again. Nobody has to make a request, close the program or publish a dump.
In `Notifications` the owner looks again and again and a request that is handled goes on
(weak fairness of each view); that is the premise of "in the end", not a claim about owners. The bounds
on faults and restarts say that they end. In `Lifecycle` appMain goes on,
which takes for granted that a first dump is found and loaded, runs of goroutines end, and a select
between a timer and stop does not overlook stop for ever (strong fairness of `TaskEnds`, since Go chooses at random).
In `StaticFetcher` a run that waits for a lock that its own process lost never goes on, so `CloseReturns` and
`ServedUnlessSpoiled` except `WaitsForIndex`.

## 4. Proofs

`AppraisalDBProofs` proves, for any users, IDs, expiry time and number of requests
and goroutines:

* `TypeCorrect`: `TypeOK` always holds, also when commits fail. It is inductive
  except for the sequence, which needs its assumption.
* `IndexIsExact`, `FreshIsUntraced`: if commits do not fail, `IndexExact` and
  `NoTraceBeforeIssue` always hold. Neither is inductive. A deletion removes the index entry
  of the user that it read in an earlier transaction, so the invariant must say
  that this is still the appraisal's user, if the appraisal is still there
  (`CarriedUser`); a new appraisal must not meet a pending deletion of its ID, so it must say that
  an ID beyond the sequence has no trace in any bucket, request, goroutine or
  reaper pass (`NoTraceBeforeIssue`). `IndexInv` is the conjunction of the three with TypeOK.
* `DatabaseImplementsStore`: if commits do not fail, `Spec => ImplementsStore`: every
  step is a step of the atomic store or leaves it alone.
* `DeletedStaysDeleted`: `DeletedForGood` holds, also when commits fail.
* `NothingOverwritten`, `OnlyOwnerOrReaperRemoves`: `NeverOverwritten` and
  `RemovedByOwnerOrReaper` hold, also when commits fail. The invariant is `StoreInv`:
  what is stored under a new ID was issued, imported appraisals are all alike, and
  a request that deletes was checked for an ID that was issued, whose appraisal is
  still its owner's or gone. `StoreStep` sorts the steps by what they do to the
  bucket of appraisals; all three theorems rest on it.
* `StatusHasItsTime`: if commits do not fail, `NotifiedWhole` always holds. A removal
  between the two transactions of SetNotifiedState takes the time away, and the status is
  written all the same; `NotifiedInv` adds to StoreInv that statuses and requests that
  notify are of issued IDs, so that such an appraisal never becomes stored again.

The assumptions are those of the module: imported IDs are not above the start of
the sequence (`LegacyAssumption`), `NoUser` is no user, the bounds are numbers.
IndexExact really needs that commits succeed: the last-used entry that
PutNewAppraisal writes for an ID that was rolled back lets the reaper start to delete the
ID before it is handed out.

`NotificationsProofs` proves, for any views that overlap, any flaws, and any number of requests
without an answer and of restarts:

* `StoredWasPosted`: `StoredIsPosted` always holds. The invariant adds to it that a view which is about to
  store a verdict that asks for a message was answered, where there is a webhook (`PostedOK`).
* `VerdictsExplained`: `VerdictExplained` always holds. A view judges by what other views left in the
  maps, so the invariant says why a location may be missing there (`KnownOK`: a structure among the
  stations, or a fetch that failed), and what each view has behind it at each point of the checks
  (`ViewOK`): the terms before it looks for the location, the location before the map of
  sovereignty, that map before the items; and what the map said of the system when the view looked (`saw`). An entry
  that says lost is of a system that is lost for good (`SovOK`).

A step moves one view; what the other views know stays true because the contract's flaw and place do not
change, faults only grow, and a map of sovereignty that has entries keeps some (`OtherViews`, `ViewStep`).
There is one lemma for each action. The assumptions name the flaws (`FlawsAssumption`) and say that a webhook is
configured or not (`WebhooksAssumption`).

`StaticFetcherProofs` proves, for any dumps and blocks, with or without failures, stops and crashes:

* `TypeCorrect`: `TypeOK` always holds.
* `WholeStays`: `WholeStaysWhole` holds, no step touches the files of a dump that is whole.
* `PartsWereCut`: `PartLeftOnlyIfCut` holds. RunOnce decides by the existence of files, so the
  invariant says what the files of a dump are at each place of a run (`FilesOK`), that a run which is
  at a dump is at one that there is (`DumpOK`), and where a whole index may be (`LeftOK`): with a whole database,
  with one that is being written, or where a load or a deletion was cut. A run that starts over may come upon an
  index without its bolt file, but only there.

`TypeDBSwapProofs` proves, for any handles, requests that overlap and swaps:

* `TypeCorrect`, `PointersStayOpen` (`CurrentOpen`), `SwapsAreWhole` (`SwapWhole`) and `MissesExplained`
  (`MissOnlyIfSwapped`). The invariant says what the two pointers lead to at each step of
  the callback (`PointersOK`), which databases are open then (`OpenOK`: those that a pointer or the
  callback holds, besides the ones that failed, which nobody has), and that a request's database
  is open or was closed since the request started (`HeldOpen`). A handle that was closed is used again while
  a request may still hold it, so what a request missed is tied to a close in its time, not to its handle.

`PriceProofs` proves about the fetch, for any regions, pages, markets and types:

* `FetchTypeCorrect`; `NoWriterLeft` (`AggregatesAlone`) and `PartNeverStored` (`AllOrdersOrNone`). The invariant
  says that `finished` is closed only when no worker can still write (`FinishedOK`), and that a worker which
  lost a page means either an error that is still to be received or one that came before the
  select (`LostEarly`). Assumed: the number of pages is a number.

and about the merge, for any types and volumes:

* `MergeTypeCorrect`, `MergeIsChoice` (`MergedAsChosen`), `TakenIsSettled` (`UniverseSettled`). The maps are
  changed by the loops that read them, in any order, so the invariant gives the price of every type
  at every point (`MapsOK`): the orders' before CCP's loop came to it, then CCP's where orders are few, and the
  chosen one after the loop over the universe. That no volume of Jita is above that of the universe, which
  the program's data have, is not needed.

`AppraiseProofs` proves, for any types, prices, rates and pastes:

* `CountedOnce` (`LineCountedOnce`), `PlainLinesKept` (`KnownLineKept`), `PanicsExplained`
  (`PanicNeedsKnownType`). None of the three is inductive: each needs to know what the parsers before left of the
  paste. For each of the fifteen parsers there are lemmas that say what it may do with the lines that it is given:
  it takes some and hands on others as they are (`Orderly`; the parsers that renumber keep the whole
  lines of a paste, and no line was taken before them: `StartOK`), the types it finds are named in the
  lines (`Named`), and a plain line is taken with a type or handed on (`Keeps`). So a plain line was taken or waits
  for a parser that is still to come and knows its form (`KeptOK`), and each result that was kept has a type, which a
  line names (`FoundOK`). Which expression of a parser reads a form is a table in the model, so the
  lemmas go through the forms.

* `QuantitiesSurvive` (`QuantitiesKept`), `OfferAddsUp` (`BuybackSumsUp`) and `OfferIsBought`: the
  appraisal has all the quantity that was found of each name, the offer is the sum of what is shown for the
  items, and it holds only materials that the corporation buys, in whole quantities. The invariant `OfferInv`
  says besides that every kept result has finitely many items with quantities (`CountedOK`), which goes through
  all fifteen parsers (`ParseCounted`); for a killmail it needs that each section begins after the one before
  (`SectionIs`), so that the recursion over them ends. Three arguments carry the rest:
    * `MergedTwice`: merging the items of each result and then those of all results is adding up per name.
    * `CollectIsBag`: every call of `Collect` on a divisible type has a bag as its value, since each further call is
      for a type that was known to be divisible before it.
    * `MapSumsUp`: one more entry in the map of the whole adds its quantity, and its price is linear in that
      (`OneMoreSumsUp`), so the order of the loops over Go's maps does not matter and nothing is rounded twice.

These are inductions. The library's theorems for them take an operator as a parameter, which the provers cannot
instantiate, so the module states its own, in the first order. `SubsetInduct` is induction over the subsets of a finite
set. `Recursion` says that a rule which gives the value for an element from those of its predecessors has a
solution along any relation that is well founded, and `SameValues` that it has one only; the rule is itself a
function. By them the folds of the community modules and the recursive functions of the model are what their
equations say (`SumStep`, `SectionsTyped`, `CollectIsBag`, `BuybackMapFolds`), and sums have the laws of sums
(`SumWithout`, `SumChanged`, `SumByPlace`).

The assumptions are those of the modules: Junk is no type (`JunkAssumption`); a paste is a finite sequence
of lines, numbered from 0, and not empty (`PasteAssumption`), which is what strings.Split returns, and its
quantities are not negative (`QuantityAssumption`), since the expressions match digits without a sign;
the types are finitely many and have finitely many materials, in quantities that are not negative, as portions
are (`TypesAssumption`, `TypeAssumption`); prices and rates are not negative and adjustments are whole percentages
(`PriceAssumption`, `RateAssumption`). No assumption says how types are made of each other: that is `Divisible`.

`UserHistoryProofs` proves, for any users, kinds, IDs and length of a page, while appraisals come and go:

* `Descends` (`PagesDescend`) and `NoneSkipped` (`WalkComplete`). The invariant adds that the link is to the
  oldest appraisal shown so far (`LinkOK`), and that what was there all the time and is not shown is
  behind the link (`Behind`). The lemmas say of `Newest` that it leaves out nothing above what it takes, and
  leaves out anything only when the page is full.

`LifecycleProofs` proves, for any requests and records:

* `NoTaskWithoutStore` (`TasksHaveStores`): a fetcher or the reaper goes on only while its own part is up (`TasksOK`),
  and parts are closed in reverse order; the price database as soon as its fetcher is.
* `StoredAreWhole` (`StoredWhole`): the price database is closed after the appraisal database, so a request
  that is not priced cannot be stored any more (`PricesClosed`); one that missed the type of an item ends before its
  offer, unless there is a type with the ID 0; and what a request misses it misses on a type database that
  was closed in its time (`RequestsOK`).
* `RestoreComplete` (`RestoredAll`): the restore is past a good record only when it was stored or
  refused (`RestoreOK`).

Every invariant above was first checked by TLC on the instance of the module's run; that of Appraise on part of
its pastes, the single lines, 64 pairs and all the longer ones, as it is slow to evaluate.

Only model-checked:

* The liveness properties: `OrphansReaped`, `ExpiredReaped`, `CloseReturns`, `ServedUnlessSpoiled`, `RefreshedAgain`,
  `EventuallyTold` and `StopEnds`. Fairness and ENABLED are outside the prover.

## 5. Not modelled

* Sessions: the session is a cookie that each response writes as a whole, as it was when its
  request came, so that the last of two overlapping responses wins. The program has no state of it.
* LatestAppraisals and TotalAppraisals: one snapshot each, nothing kept.
* How the legacy restore converts items and prices, how YAML becomes types, how ToInt reads numbers (it does not
  see an overflow) and how ParsePI does (it takes a quantity with a comma, such as 1,000, for 0),
  and what the pages derive from an appraisal (cap and rounding of the offer, percentages).
* Contracts whose titles hold the ID of another appraisal, which findMatchingContract would take.
* The HTTP cache (a vendored library's rules over a key-value store), rendering,
  routing, generated assets, the regular expressions of the parsers, floating-point
  statistics of prices, YAML reading.
* Restoring an appraisal with a user through the management server: the restore
  command never sends one.
* A worker of a fetch that outlives the call that started it: nothing it can still
  reach is read by anyone. With one region, as the program has it, none can block.

## 6. Plan

In this order, the most important first; all are done.

1. `AppraisalStore`, `AppraisalDB`: the store, its refinement, its proofs.
2. `StaticFetcher`: the files that survive.
3. `TypeDBSwap`: composes the fetcher's callback with requests.
4. `PriceFetcher`, `PriceMerge`.
5. `Notifications`: the contract, its location, the verdict and the message.
6. `LineParsers`, `Buyback`, `Appraise`: an appraisal from text to totals.
7. `UserHistory`: the pages of a history, over AppraisalStore.
8. `Lifecycle`: closing in order, with requests and the restore command.
9. Proofs: the safety and action properties of every module, for any value of the constants (section 4).

## 7. Running

    tlc -workers 2 -config AppraisalDB_safety.cfg MCAppraisalDB
    tlc -workers 2 -config StaticFetcher.cfg StaticFetcher
    tlc -workers 2 -config Appraise.cfg MCAppraise
    tlc -workers 2 -config Notifications.cfg Notifications
    tlc -workers 2 -config Lifecycle.cfg Lifecycle
    tlapm AppraisalDBProofs.tla
    tlapm NotificationsProofs.tla
    tlapm StaticFetcherProofs.tla
    tlapm TypeDBSwapProofs.tla
    tlapm PriceProofs.tla
    tlapm AppraiseProofs.tla
    tlapm UserHistoryProofs.tla
    tlapm LifecycleProofs.tla

`PROJECT.json` lists each run with its module, configuration and properties.
