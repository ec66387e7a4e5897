# Verification of craigslist_kbb

The program answers one question: which cars on craigslist are cheap compared with their Kelley
Blue Book (KBB) price. An invocation searches craigslist, reads the ads it finds, looks each car
up in a shared GraphQL cache, asks KBB for the price of those it does not find there, writes
them to the cache and returns what it found, sorted by the distance from the KBB price.

This directory holds TLA+ models of the parts in which that can go wrong, the TLC runs that check
them on small instances, and TLAPS proofs of their main properties for every size.

## 1. Inventory

The program's own code is small; `src/p` holds its vendored libraries.

| part | code | state | operations |
|---|---|---|---|
| spider | `craigslist_sample/spiders/test.py` | requests in flight and the item in their `meta`; class counters, `PARSED_NUM` | `parse_start_url`, `parse_items`, `kbb_parse`, `kbb_final_parse`, `download_errback` |
| hand-off | `handler.py` | `RESULT`, the reactor, a pipe, two processes | `entry_point`, `run_process`, `setup_crawler`, `scraped_handler` |
| cache client | `utils/prisma_gql.py`, `p/gql/client.py`, `p/gql/transport/requests.py` | a call and its attempts | `put`, `get`, `_get_result`; `delete` in a test only |
| GraphQL service | outside the repository | the cars, unique by url | `createCar`, `car` |
| arguments | `handler.py` | none | `get_args`, `build_craigs_url` |
| matching | `test.py` 98-131, `utils/find_style.py` | none | `find_kbb_model`, `find_model_by_desc`, `find_style_by_desc`, `find_style` |
| number reading | `test.py` 236-265, 155 | none | price, odometer, percentage |
| items, settings | `items.py`, `settings.py`, `serverless.yml` | none | timeouts 30 s and 300 s, retries off |
| pipelines, `try.py` | not used | | |
| scrapy 1.3.0 | `src/p`: `scrapy/core/engine.py`, `scraper.py`, `downloader`, `crawler.py` | requests waiting, scheduled, downloaded, scraped; the slot; `nextcall` | `crawl`, `_next_request`, `close_spider`, redirects, signals |
| twisted reactor | `src/p`: `twisted/internet/base.py`, `epollreactor.py` | timed calls, sockets | `runUntilCurrent`, `doPoll` |
| other vendored libraries | rest of `src/p` | | not modelled |

**How they interact.** `entry_point` forks a child for each invocation and joins it. The child
runs scrapy's reactor. On its one thread, scrapy calls the spider back for each page that
arrives, in any order; a callback runs to its end, including the blocking HTTP calls of the
cache client, and returns the next request of that car or the item. Each item goes, through the
`item_scraped` signal, into `RESULT`. When the spider is idle the reactor stops, and the child
sends `RESULT` through the pipe. What the spider takes for granted of scrapy and the reactor (every
request is answered once, the spider is closed when nothing is left, pages that arrive are read)
depends on vendored code that schedules its own calls; that code is modelled too. Invocations share nothing but the GraphQL service, and whatever
the parent process keeps between invocations of a warm container.

**What is hard.**

- Concurrency: `get` and `put` of a car are two KBB pages apart, so two searches of one
  invocation, or two invocations, can value the same ad at once. `dont_filter=True` disables the
  duplicate filter.
- Failure: every download can fail, every callback can raise part-way; a raised `put` loses the
  item, since it stands before the `yield`. The platform may end an invocation anywhere.
- Delivery: a reply may be lost after `createCar` took effect; the client then repeats it. A
  request may reach the service after its caller has given up.
- Waiting: the cache client has no timeout, and the parent joins before it receives.
- Stale data: a cached row replaces what was read from the page.
- Turns: the engine looks for work only when a call of `_next_request` is scheduled, a callback's
  outputs are taken over several turns, and a blocked callback keeps the reactor from reading
  sockets while the timers of the downloads run on.
- Text: two functions look for the model of an ad in two different forms of its text, and must
  agree.

PROJECT.json lists every hazard at its line with the properties that cover it.

**What makes each part correct.** The spider: what it reports is what the cache holds, is a
valuation of an acceptable car, and is never changed afterwards; every ad is accounted for; the
crawl ends. The hand-off: an answer is this invocation's and complete; the call returns. The
client: what a caller concludes from how a call ended is true of the service. Matching: the KBB
model and style belong to the ad. Numbers: what is read is what the page says. The engine: no
request is lost or answered twice, nothing waits for ever, the crawl is closed when and only when
nothing is left. The reactor: a page that came in time is not given up, and a download ends.

## 2. Modules

| module | models | extends or instantiates |
|---|---|---|
| `Pricing` | the arithmetic of `kbb_final_parse` | |
| `CarCrawl` | the spider, many invocations, one cache | `Pricing`; instantiates `Valuations`, and `Frontier` for each crawl |
| `AdPage` | what the spider makes of one page: numbers, models, styles | |
| `Handoff` | `handler.py` | |
| `GqlClient` | the cache client and the service | instantiates `Valuations` |
| `Engine` | scrapy's engine, scheduler, downloader and scraper | instantiates `Frontier` |
| `Reactor` | twisted's main loop under the downloads | |
| `Valuations` | abstract: a write-once store of valuations and its readers | |
| `Frontier` | abstract: the tasks of a crawl, worked off until none is left | |
| `MCCarCrawl`, `MCAdPage`, `MCHandoff`, `MCGqlClient`, `MCEngine`, `MCReactor` | small instances for TLC | |
| `CarCrawlProofs`, `CounterProofs`, `AdPageProofs`, `HandoffProofs`, `GqlClientProofs`, `EngineProofs`, `ReactorProofs` | the proofs | each extends its module |
| `DataInduction` | induction on the natural numbers, for the proofs about texts, numbers and sorting | |

The two abstract modules tie the parts together. `Engine` and `CarCrawl` describe a crawl at two
levels, requests and callbacks, and both implement `Frontier`: what the engine gives (every task
handed out is worked off; closed means nothing is due) is what the spider's model assumes when it
closes a spider with no job left. `GqlClient` and `CarCrawl` describe the cache at two levels,
HTTP attempts and whole calls, and both implement `Valuations`.

### CarCrawl

A *job* is one ad of one search of one invocation: `<<crawl, search, k>>`, where `k` is its place
among the first `PageLimit` local ads of the page (`cars[:30]`; `PageLimit` is 30 in the code and
1 or 2 in the runs). `stage` says which callback the job's request is waiting for, or how the job
ended:

| `stage` | meaning |
|---|---|
| `ad`, `styles`, `price` | waits for `parse_items`, `kbb_parse`, `kbb_final_parse` |
| `reported` | its item was yielded and is in `RESULT` (`result[j]`) |
| `skipped`, `dropped`, `unpriced` | no price list; not a car to value; no KBB price on the page |
| `adFailed`, `kbbFailed` | the errback ran |
| `adRaised`, `raised` | the callback raised, before or after it counted the car as found |
| `hung` | the callback is inside a cache call that is never answered |

Each action is a whole callback with its counters and its cache call; that scrapy does not
interrupt a callback makes it atomic. The `put` inside `kbb_final_parse` is one action with it:
between sending `createCar` and seeing the reply the process does nothing else, and the only
other thing that matters is *when* the service acts. If it acts before the reply, that is
`PutCache`'s first disjunct; if it acts although the caller saw a failure, the row is put into
`late` and `ServiceCreates` makes it at any later moment, or never. A put that made the row in
its first attempt and was refused in its second is the second disjunct followed by
`ServiceCreates`. `GqlClient` models the same call attempt by attempt.

`parse_start_url` is a generator that scrapy consumes over several turns; since it only reads its
page, creating all jobs in one step loses no order of callbacks: a job just created may wait
arbitrarily long. Redirects are left out: `item['url']` is `response.url`, taken to be the url
that was asked for. An ad's page is read anew by each job and may say something else each time,
so `FindCar` chooses price and odometer freely. Matching models and styles is reduced to "found"
or "raises"; `AdPage` has how they come about, in stages of the same names.

`PercentAbove` gives the *set* of results the double arithmetic may come to: the exact truncated
percentage, and, when the exact percentage is a whole number, also the next one towards zero
(115 against 100 gives 14 in Python).

Seen from scrapy, the tasks of a crawl are its searches and its jobs: a search makes tasks, a job
with a request outstanding is due. `CrawlsWorkOffTasks` says that each crawl is a `Frontier`;
that a killed crawl is cut short, and that a hung one never closes, are cases of it.

### AdPage

One ad page, then one KBB page of styles. A text is a sequence of *fragments*: `"-"` and `" "` are
the separators that the code inserts and looks for, any other fragment (`Letter`) a piece of a
word. So the models `Civic` and `Civics` share a fragment, and the argument `mazda+3` is found in the year
`2003`, as substring search does. `Join`, `Has`, `FirstArg` are `str.join`, `str.find(...) > -1` and
the loops over `args.make_model`. `find_kbb_model` searches the hyphenated words after the make,
`find_model_by_desc` the description with its spaces; `SearchesAgree` asks whether both take the
same argument, since KBB is asked with the one and the style is cut out behind the other. They do
for a *plain* ad, `PlainAd`; its comment says what that excludes, and `MCDesc` and `MCArg` have
a case of each.
`AdPageAssumption` says what inputs there are: words that `split()` leaves have letters and no
spaces, arguments have at least one word, digits are digits. `Value` and `Joined` are recursive
functions of the digits and words read so far. Numbers are sequences of digits; `ReadPrice` and
`ReadOdometer` complete short ones by three zeros, with limits that differ by one. `parse_items` ends in one of `CarCrawl`'s stages, by the same
early returns and exceptions: `broken` is a page that lacks its picture or the text of an attribute,
or whose odometer or cylinders are no number; and once the searches have succeeded the cache may have
the car, or its call may raise.

### Valuations

What a user of the cache relies on, in two actions: `Learn` adds a valuation for an ad that has
none, and may report it; `Reuse` reports one that is there. `CarCrawl` implements it with
`store <- cache`, `report <- result`: checked as property `Valued`, proved as `Implementation`.
A lost reply is what makes it interesting: a valuation may enter the store unreported, at a time
when its crawl is gone. `GqlClient` implements it too (`CallsAreOfOneStore`): the store are the
service's cars, and a client reports a row when its put is acknowledged or its get finds one.

### Frontier

A set of tasks `made` and those of them still `due`. `Work` does something of a task: it may make
new tasks and may finish it. `Close` needs `due = {}`; `Cut` is a signal or the platform's timeout,
after which tasks may remain.

### Handoff

`parent` and `child` are program counters of `run_process` and `setup_crawler`; `home` and `copy`
are their globals (`RESULT`, and how often the reactor was run), and the fork is
`copy' = home`. `pipe` holds the message; `Capacity` stands for the buffer of the pipe, counted in
items where the system counts bytes (`Connection.send` of the pickled list). `scraped` records
what the spider yielded, to state what the answer should be. `ChildHangs` is a GraphQL call that
is never answered, in `GqlClient()` at set-up or in a callback; `SetupRaises` is `MySpider()`
raising, which ends in the `StopIteration` of line 65. `TimeOut` is the platform's; when it
comes, the container is replaced.

### GqlClient

One client per crawl, since the reactor thread makes one call at a time. `waiting[c]` is the
attempt the client waits for, `wire` the requests the service may still act on, `reply[c]` the
answer on its way back. An attempt can fail before its request is sent, after, or while the
reply is on its way; its request stays on the wire or not. Only the attempt being waited for sees
a reply, for each attempt is an HTTP exchange of its own. `had` and `asked` are history: the
query of each call and what the service held for its url when the call began. The service is
external: `createCar` refuses a url it has, as the spider's use and `TestGqlClient` imply, `car`
returns it, and either may be answered with errors for any other reason, before or after the service
has acted; `execute` raises on errors of every kind (`client.py` 51-52). The ways a call can raise are
one outcome, `raised`, for no caller tells them apart; so a put that raised says nothing of whether
the car is there.

### Engine

From `crawler.crawl` to the end of `reactor.run`, one action per turn of the reactor. A request is
in one of the places the code keeps it in: `starts` (the iterator of start requests), `pending`
(the scheduler), `active` (the downloader), `scraping` (its callback's outputs are being taken),
`done` (removed from the slot). `nextcall` is `CallLaterOnce`: scheduled or not, however often it is
asked for. `NextRequest` is a whole turn of `_next_request`: requests are taken from the scheduler
until there is no room, then at most one start request, then the idle test and, if it holds, the
closing of the slot. `Remove` is the end of a request, with `_maybe_fire_closing`. Callbacks yield
their outputs one turn at a time. `full` is `scraper.slot.needs_backout`, chosen freely where sizes
of responses would decide. Which scheduled request is taken first is left open. A redirect makes a
request of its own that inherits `dont_filter` and the callback, so it is the same task again;
`redirects` is its `redirect_times`. `Shutdown` and `Abort` are the first and second SIGINT or
SIGTERM. `ConnectHandlers` stands between `Crawl` and `RunReactor`, where line 67 of `handler.py`
has it.

### Reactor

The loop of `mainLoop`: a pass over the timed calls (`loop = "calls"`), one poll (`"poll"`), again; or
a callback that waits for the cache (`"blocks"`). Time is `left`, in ticks until the timed call of a
place is due, and passes only in `Sleep` and `Block`: computing takes no time. A pass takes the time
once, so `ready` is fixed when it begins (`Poll` sets it), and a timed call that falls due while a
callback blocks has to wait for the next pass, after the next poll. A poll does one read of at most
64 KB of each readable socket; `unread` counts the reads a page still takes. `inTime` and `blocked`
are history.

## 3. Runs

| run | instance | checks |
|---|---|---|
| `crawl_overlap` | 1 crawl, 2 searches, 2 ads, 2 ads per page: up to 4 jobs, an ad listed twice in one page | `TypeOK`, `ResultsAreCached`, `CountersAddUp`, `LateValuationIsLost`, `JobsNeverGoBack`, `CrawlsWorkOffTasks` |
| `crawl_shared` | 2 crawls of one ad with max_miles 1 and 2; prices 80 and 115; 2 odometers; under fairness | `RowsAreValuations`, `PercentsNeverOverstate`, `ExcessMilesAreCached`, `Valued`, `EveryCrawlEnds` |
| `crawl_excess` | prices 80 and 130 against 100, excess 15 | `ExcessRespected`, violated |
| `crawl_miles` | as `crawl_shared` | `MilesRespected`, violated |
| `handoff_warm` | 3 invocations of one container, up to 3 items, a pipe for 2 | `TypeOK`, `AnswerIsThisCrawl`, `ReactorRunsOnce`, `StandstillHasCause` |
| `handoff_cli` | one call, no platform timeout, under fairness | `CallsReturn` |
| `gql_retries` | 2 clients, 1 url, 2 values, 2 attempts, 2 calls each; clients symmetric | `TypeOK`, `AcknowledgedPutIsStored`, `OnePutReturns`, `GetIsCurrent`, `LearntIsFoundAgain`, `CallsAreOfOneStore` |
| `engine_turns` | 4 requests, 2 of them start requests, 2 downloads at once, 1 redirect each, both signals, under fairness | `TypeOK`, `InOnePlace`, `DownloadsBounded`, `NoLostWakeup`, `EveryItemIsHeard`, `StopsClean`, `RequestsAdvance`, `WorksOffTasks`, `EngineStops`, `RequestsAnswered` |
| `reactor_timers` | 3 connections, a timeout of 2 ticks, pages of 1 or 2 reads, under fairness | `TypeOK`, `OnlyBlockingLosesPages`, `TimedCallsAreKept`, `DownloadsEnd`, no deadlock |
| `ads_pages` | 9 descriptions with 6 prices and 6 odometers, all lists of one or two of 7 arguments, 4 pages of styles | `NumbersAreWhole`, `SearchesAgree`, `StyleIsPreferred` |
| `ads_models` | the same | `ModelsAreOptional`, violated |
| `ads_hyphens` | the same | `ModelIsHyphenated`, violated |

**Bounds, and why they are enough.** The races of the spider are between two jobs about one ad;
`crawl_overlap` has up to four jobs over two ads, so that a third party can also interfere, and
`crawl_shared` has the two jobs in different processes, with limits that differ so that "someone
accepted this odometer" is not "I accepted it". Its second price, 115, is one for which the
double falls short. `KbbPrice` contains 0, the price that raises. Pages of categories are not
bounded: a job may follow any number of them, and `hops` counts them modulo 2, which keeps the
states finite and still makes each a step of its own. For `GqlClient`, two attempts are the least that has a repeated request, and two
calls per client the least in which an old request meets a later call; the code has three
attempts and no bound on calls, and the proofs cover any number. `MaxCalls` in `Handoff` and
`GqlClient`, and `MaxItems`, are the only bounds on otherwise unbounded behaviour, each a guard of
the action that counts.

In `Engine` two of four requests are start requests, so that callbacks make requests while start
requests still wait, a turn of `_next_request` can find more in the scheduler than may be
downloaded, and a redirect of one meets the end of another. In `Reactor` three connections are one
that blocks, one that is given up and one that keeps the loop busy; a page of two reads is the
least that one poll does not empty; a timeout of two ticks is longer than a callback's delay of one,
so that callbacks may block in between. `AdPage` has no bounds but its inputs: `MCDesc`
has a model with and without a style, hyphenated, as part of a longer word, as part of the year,
behind another word, and missing; `MCArg` a make alone, a model that is a prefix of another, one
written with a hyphen of its own, one that is another car's style, and one that `kbb_models`
renames; the numbers are on both sides of each limit, absent, and padded with a zero.

`RequestsAdvance` ranks a request by what is still before it (`PassesLeft`) and says that every step
that touches it lowers the rank: the part of `EngineStops` and `RequestsAnswered` that does not need
fairness. `JobsNeverGoBack` ranks a job in the same way (`AnswersLeft`), with one exception that the
code has: a page of categories. `kbb_parse` (`test.py` 172-180) asks for the first category and
parses what comes the same way, without a count, so KBB can lead a job from one such page to the
next, and back, for ever. That step changes nothing of the job, and nothing else fails to bring it
nearer to its end. `EveryCrawlEnds` says what follows: a crawl ends unless KBB does this to one of
its jobs. It makes no assumption on KBB, and the exception is part of the property. Unlike the
liveness properties, the two rankings are proved for any number of jobs and requests. `Engine` has
finitely many requests, so `EngineStops` presumes a spider that stops asking: a spider led in circles
is `EveryCrawlEnds`'s exception, and keeps its engine open with it.

Deadlock is checked for `Reactor`, whose loop never stops by itself. It is not for the others: an
invocation ends, an engine stops, a page is read, a killed one stays where it was, a client makes
finitely many calls, and a parent that waits for a child that is gone is the very behaviour that `Handoff` is about
(`CallsReturn` and `StandstillHasCause` say when).

**What the runs show.** All properties but four hold. The four say what help texts and a docstring
promise, and the code does otherwise:

- `--excess_price` is never compared: lines 160-161 of `test.py` are commented out, so any priced
  car is reported (`crawl_excess`).
- `--max_miles` is compared with the page only; the cached row reported in its place can exceed
  it, when an ad was edited after a crawl with a higher limit had cached it (`crawl_miles`).
- `--make_model` says "Models are optional" (`handler.py` 103), but an ad of a make that is given
  alone is lost: `find_kbb_model` looks for the make among the words after the make, finds nothing,
  and making the KBB url raises (`ads_models`).
- `find_model_by_desc` is said to return "a hyphenated version of the model" (`test.py` 107) and
  returns it with spaces (`ads_hyphens`). Its only caller wants it so.

`LateValuationIsLost` is no flaw in this sense, but worth knowing: a car valued by two jobs at
once is reported by at most one of them. `OnePutReturns` says the same of two puts, attempt by
attempt; neither may return, when the one is refused for a car that an earlier attempt of its own had
made. `ExcessMilesAreCached` bounds what `crawl_miles` shows: a report beyond a crawl's
`--max_miles` is only ever of a row that was cached before; what a crawl values itself is within its
limit, whatever the pages said while it waited for KBB.

**Fairness.** `CarCrawl.FairSpec`: each request of a running crawl is eventually answered, since
scrapy's downloader ends it after `DOWNLOAD_TIMEOUT` (30 s) at the latest and nothing is retried
(`RETRY_ENABLED = False`); the engine closes a spider with nothing outstanding; a *blocked*
process is eventually killed by the platform's 300 s timeout (`serverless.yml`). A process that
is not blocked is not assumed to be killed, so that termination does not come from the timeout
alone. A blocked crawl answers nothing further: a call into the cache may hang for good. Nothing
is assumed of KBB: its pages of categories may never end. `Handoff.FairSpec`: both processes
run, and a crawl that neither the service nor KBB holds up ends, which is `EveryCrawlEnds`
(`ChildHangs` is the step of one that is held up, for good). There is
no fairness on `TimeOut`, nor on `ChildKilled`, `ChildHangs` or the items; `handoff_cli` has no
timeout at all. `Engine.FairSpec`: scheduled calls are made, a download ends in an answer or a
failure (which is `DownloadsEnd`), and a callback comes to its end. There is none on `Heartbeat`,
which would hide a lost wake-up, nor on signals or on what callbacks yield. `Reactor.FairSpec`: the
loop goes on, and the cache answers each call some time (`CarCrawl` has the calls it never
answers). `Sleep` is strongly fair: a poll that comes back for a page or a due call disables it
for a moment, but calls are bounded by what is outstanding, and the engine's heartbeats are five
seconds apart, so the loop cannot keep awake for ever without time passing. Nothing is assumed of
servers.

## 4. Proofs

Each proof assumes only the named assumption on the constants of its module, which TLC evaluates
in every run. All invariants and action properties that the runs check are proved, for every value
of the constants.

**CarCrawlProofs.** The inductive invariant `IInv` strengthens `TypeOK`, `RowsAreValuations` and
`ResultsAreCached` with three facts they lean on: a waiting job knows its ad, and its item is of
that ad and within its crawl's limit (`JobsKnowTheirAd`; without it the row stored would be
filed anywhere and exceed any limit); only a reported job has a result
(`OnlyReportedHaveResults`; else a step could report twice); and the jobs of a search not
answered are unused (`UnansweredHaveNoJobs`; else `ParseStartUrl` could restart a job that has
reported). Every step is first put into one of a few forms, by what it does to the cache, the
results and the stages (`StepHasForm`); each part of the invariant is then a lemma over the forms.
From `IInv` and `CacheGrows`, that no step replaces or removes a row, follow `LateValuationIsLost` and
`Implementation`: initial states map to initial states of `Valuations`, and each step to `Learn`,
`Reuse` or a stutter. `CrawlsImplementTasks` does the same for `Frontier`, crawl by crawl; it
needs one more fact, that a crawl with a hung job is blocked (`HungBlocks`), for else a spider could
be closed around it. `OnlyCategoriesKeepJobs` reads the ranking `AnswersLeft` off the forms.

From the same invariant follow three results on what is reported. `PercentsAreHonest` rests on
lemmas about `PercentAbove` for all prices: a quotient rounded towards zero has the sign of the
exact one and misses less than one (`PercentBounds`), the step the double arithmetic may fall short
never goes past zero, and a dearer car never gets a smaller percentage (`PercentRanks`), even when
the one is rounded and the other is not. `ReportsAgree`: two jobs report an ad alike, at whatever
distance in time. `ExcessIsOfTheCache`: whatever the limits of the crawls, a report beyond one's own
is of a row the cache had before the step (`ExcessMilesAreCached`). It needs the limit in
`JobsKnowTheirAd`, kept from the ad's page to the page of the price, and that a row is filed under
its own url.

**CounterProofs.** `CountersAddUp` equates counters with cardinalities of sets of jobs. It is not
inductive: `kbb_parsed` counts jobs that have left the stage it is compared with. The strengthening
`Adds` bounds it by the cars found, with the jobs still waiting for their styles. Each step
changes the stage of at most one job of one crawl, or makes fresh jobs; `Num` lemmas say what
that does to a cardinality, for any finite set of searches (`SearchAssumption`).

**DataInduction.** What a recursive function computes, and that a sort exists, needs an induction.
The library's induction theorems are about a predicate `P(_)`, which the provers cannot instantiate;
`InductionOnNat` is about a set: one that has 0 and the successor of each of its numbers has them
all. It is proved from the pigeonhole principle for finite sets, which the library states without
such a parameter. `LeastNat` follows: a set of numbers has a least one, which is what `CHOOSE` in a
search finds.

**AdPageProofs.** The steps are few: `PageInv` says of each stage what the functions make of the
page (`InvCar`, `InvRaised`, `InvChoice`). The work is in the functions, for all digits and texts.
*Numbers*: `Value` is the function its definition says, by induction on the digits, and so three
digits that are not padded are 100 or more. *Models*: a text joined by spaces and one joined by
hyphens are the same but for the separators (`JoinSwapped`), so a name without separators of its own
is found at the same places in both (`HasSwapped`); and a name that is in the whole description is
in the words after year and make (`SkipYearAndMake`), for it cannot begin in a word that lacks its
first one. Both searches therefore take the first of the same arguments (`NamedAgree`). What follows
the place found is a suffix of the description (`RestIsSuffix`). *Styles*: `SelectInSeq` finds the
first style with the word. Each of the four conditions of `PlainAd` is one that
a step of this asks for, and none is there for the proof's sake only: leave out any, and TLC finds
`SearchesAgree` violated in the instance of `ads_pages`. Without the one on separators within an
argument, say, the arguments are `honda+civic-ex` and `honda+civic` and the ad `2005 honda civic ex`,
in which one search takes the first and the other the second.

**HandoffProofs.** `HInv`: the parent's globals are as at start-up (a child changes its copy only);
a child works only while the parent joins, and a message is in the pipe only of a child that has
exited, and of every one that exited in good order; `RESULT` in the child is what its spider
scraped, and so is the message. From it: no process runs two reactors (`ReactorRunsOnce`), the
answer is a list that holds each item this invocation scraped as often, in ascending order
(`AnswerIsThisCrawl`), and every standstill has one of three causes (`StandstillHasCause`).
`Sorted` is the set of the results of a stable sort. Each is a list of items with these properties,
and `SortIsFunctional` shows that there is exactly one: by induction on the items, the next one
goes behind those not greater (`SortInserts`); and two orders that differ would differ at a first
place, where each has an item that must stand before the other's (`SortOrderUnique`).

**GqlClientProofs.** `GInv` carries what a *reply on its way* says, with the same predicate `Holds`
as the outcome it will become: the service's cars are never replaced (`CarsGrow`), so what was
true when the service answered is true when the answer is read. `OneMakes` counts a "created"
reply on its way as already made; without it two replies could be under way for one url.
`FutureIsBlank` and `HadIsThere` are needed for "a get misses nothing". `ClientImplementsStore`
maps each step to a step of `Valuations`: the service's creation of a car is a `Learn` that nobody
reports yet, the client's reading of the reply the report. `LearntStays` is about two calls of one
client, and its strengthening `SessionsRemember` about the moment between them: when the later call
began, the service already had what the earlier one had learnt.

**EngineProofs.** The invariant joins the properties with `Phases`: before `Crawl` there is nothing
anywhere; the reactor runs only with the handler connected, for `EveryItemIsHeard`; a closed slot
means a stopped reactor and nothing in progress, and a stopped reactor a closed slot or a second
signal, for `StopsClean`. `NoLostWakeup` needs that
`Remove`, `Enqueue` and `Downloaded` all schedule, and that `NextRequest`, which alone unschedules,
leaves nothing it could have taken: its last turn ends at the bound, in an empty scheduler, or in
closing. `DownloadsBounded` needs that `Takes` counts what it takes. `EngineImplements` maps
`NextRequest` that closes to `Close`, using that everything made is then done. `RequestsMoveOn`
ranks requests by `PassesLeft`; that a redirect lowers the rank, though it sends the request back to
the scheduler, is because `redirects` counts and is bounded.

**ReactorProofs.** `IInv`: what is `ready` is due (`ReadyIsDue`), and of a page that is in the socket
in time and not yet read in full: its timer has run out only if a callback has blocked the loop
since, and the pass under way is about to give it up only if it takes several reads, for a poll
has come before that pass (`PagesInTime`). With these `OnlyBlockingLosesPages` is inductive.
`DueCallsAreRun` also needs that only a waiting download has anything to read (`OnlyWaitingRead`), so
that a poll cancels the timed call of no download but one it ends.

**Only model-checked.** The liveness properties `EveryCrawlEnds`, `CallsReturn`, `EngineStops`,
`RequestsAnswered` and `DownloadsEnd`: fairness and ENABLED are beyond the prover. Their parts that
need no fairness are proved: `RequestsAdvance`, that each step makes progress, and `JobsNeverGoBack`,
that each but a page of categories does;
`NoLostWakeup`, that the engine is called when it has something to do; `StandstillHasCause`, that
one of the two processes can go on; `TimedCallsAreKept`, that a timer is not put off. What is left
to TLC is that fairness turns these into an end.

## 5. Not modelled

- Wording, logging, page layout and the text of queries.
- `get_args` and `build_craigs_url`: they keep no state and format; the one outcome another part
  depends on, that an argument is refused, is in `Handoff`.
- `delete` of the client, which only its test calls; the pipelines, which settings do not enable;
  `try.py`, an experiment that nothing imports.
- The failure of `sorted` on an item without a percentage: only rows from the cache could lack it,
  and every row `put` sends has one.
- Of scrapy: what the settings turn off or the spider does not use: retries, disk queues, delays
  and limits per domain (the defaults leave them above or at the global limit that is modelled),
  pausing, `DontCloseSpider`, other middlewares; of twisted, threads and writing to sockets.
- The rest of `src/p`, some 730 000 lines of vendored libraries, of which the program imports little
  and which have no behaviour of this program. This is why the mapped lines are a small part of
  the tree, while they are nearly all of the program's own code that keeps or changes state.
- `Handoff` composed with `CarCrawl`. What it would say end to end, that an answer is made of cached
  valuations of this invocation, is `AnswerIsThisCrawl` for whatever a crawl yields together with
  `ResultsAreCached` for what it does yield; the two modules share no variable but `RESULT`, which
  the spider's model only appends to, and the platform's timeout, which both have.

## 6. Plan

All that was planned is done: `Pricing`, `CarCrawl`, `Valuations`, `Handoff`, `GqlClient`, `AdPage`
(matching and number reading), `Frontier`, `Engine`, `Reactor`, the refinements and the proofs. What
a next step could add: `Handoff` composed with the crawl it forks, proved from the results on each;
what `SearchesAgree` says of ads that are not plain; and limits per domain in `Engine`, should the
spider ever crawl more than one slow site.
