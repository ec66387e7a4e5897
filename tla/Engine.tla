------------------------------- MODULE Engine --------------------------------
(***************************************************************************)
(* The part of scrapy 1.3.0 (src/p) that CarCrawl takes for granted: the   *)
(* engine, scheduler, downloader and scraper of one crawl, from            *)
(* crawler.crawl in setup_crawler to the end of reactor.run.               *)
(*                                                                         *)
(* Everything happens on the reactor thread, in turns.  The engine looks   *)
(* for work only when nextcall, a call scheduled at most once, is due;     *)
(* whoever may have made work possible must schedule it.  The outputs of a *)
(* callback are taken one by one, in turns of their own.  A signal stops   *)
(* the engine gracefully; a second one ends the reactor at once.           *)
(***************************************************************************)
EXTENDS Integers, Sequences, FiniteSets, Functions

CONSTANTS
  Request,      \* requests a crawl may make
  Start,        \* those of spider.start_requests, in order
  Concurrency,  \* CONCURRENT_REQUESTS
  MaxRedirects  \* REDIRECT_MAX_TIMES

StartSet == Range(Start)

ASSUME EngineAssumption ==
  /\ IsFiniteSet(Request)
  /\ Start \in Seq(Request)
  /\ IsInjective(Start)
  /\ Concurrency \in Nat \ {0}
  /\ MaxRedirects \in Nat

VARIABLES
  reactor,    \* "off", "running" or "stopped"
  heard,      \* whether scraped_handler is connected to item_scraped
  slot,       \* the engine's: "none", "open", "closing" or "closed"
  nextcall,   \* whether a call of _next_request is scheduled
  starts,     \* start requests not taken yet
  exhausted,  \* whether start_requests has raised StopIteration
  pending,    \* requests in the scheduler
  active,     \* downloader.active
  scraping,   \* scraper.slot.active: their callbacks' outputs are being taken
  full,       \* whether scraper.slot.active_size exceeds max_active_size
  redirects,  \* redirect_times of each request
  made,       \* requests made so far
  done,       \* requests removed from the slot, answered
  items,      \* requests whose callback has yielded an item
  result,     \* those whose item is in RESULT
  signals     \* SIGINT or SIGTERM received

queues == <<starts, exhausted, pending>>
spider == <<made, done, items, result>>
vars == <<reactor, heard, slot, nextcall, starts, exhausted, pending, active,
          scraping, full, redirects, made, done, items, result, signals>>

Init ==
  /\ reactor = "off" /\ heard = FALSE /\ slot = "none" /\ nextcall = FALSE
  /\ starts = Start /\ exhausted = FALSE
  /\ pending = {} /\ active = {} /\ scraping = {} /\ full = FALSE
  /\ redirects = [r \in Request |-> 0]
  /\ made = {} /\ done = {} /\ items = {} /\ result = {} /\ signals = 0

InProgress == active \cup scraping

-----------------------------------------------------------------------------
(* setup_crawler.                                                          *)

\* crawler.crawl opens the spider and starts the engine, all in one call.
Crawl ==
  /\ reactor = "off" /\ slot = "none"
  /\ slot' = "open" /\ nextcall' = TRUE
  /\ made' = StartSet
  /\ UNCHANGED <<reactor, heard, queues, active, scraping, full, redirects,
                 done, items, result, signals>>

ConnectHandlers ==
  /\ reactor = "off" /\ slot = "open"
  /\ heard' = TRUE
  /\ UNCHANGED <<reactor, slot, nextcall, queues, active, scraping, full,
                 redirects, spider, signals>>

\* Mutant: scraped_handler is connected after the reactor has been started.
RunReactorFirst ==
  /\ reactor = "off" /\ slot = "open"
  /\ reactor' = "running"
  /\ UNCHANGED <<heard, slot, nextcall, queues, active, scraping, full,
                 redirects, spider, signals>>

RunReactor ==
  /\ reactor = "off" /\ heard
  /\ reactor' = "running"
  /\ UNCHANGED <<heard, slot, nextcall, queues, active, scraping, full,
                 redirects, spider, signals>>

-----------------------------------------------------------------------------
(* The engine.                                                             *)

\* The slot's closing fires: the spider is closed, the crawler stopped, and
\* the crawl's deferred stops the reactor, all in the same turn.
CloseSlot == slot' = "closed" /\ reactor' = "stopped"

NeedsBackout(downloading) ==
  slot # "open" \/ full \/ Cardinality(downloading) >= Concurrency

\* Mutant: whether there is room is asked once, before the loop.
TakesAll(taken) == taken = IF NeedsBackout(active) THEN {} ELSE pending

\* The scheduler's requests are downloaded until it is empty or there is no
\* more room; which of them come first (the latest of the highest priority)
\* is left open.
Takes(taken) ==
  IF NeedsBackout(active) THEN taken = {}
  ELSE /\ Cardinality(active \cup taken) <= Concurrency
       /\ taken = pending \/ Cardinality(active \cup taken) = Concurrency

\* Mutant: the scraper is not asked whether it is idle.
IsIdleUnscraped == exhausted /\ pending = {} /\ active = {}

IsIdle == exhausted /\ pending = {} /\ InProgress = {}

\* One start request, if there is still room, goes into the scheduler.
TakeStart(rest) ==
  \/ /\ exhausted \/ NeedsBackout(active')
     /\ pending' = rest /\ nextcall' = FALSE
     /\ UNCHANGED <<starts, exhausted>>
  \/ /\ ~exhausted /\ ~NeedsBackout(active') /\ starts = <<>>
     /\ pending' = rest /\ nextcall' = FALSE
     /\ exhausted' = TRUE /\ UNCHANGED starts
  \/ /\ ~exhausted /\ ~NeedsBackout(active') /\ starts # <<>>
     /\ pending' = rest \cup {Head(starts)} /\ nextcall' = TRUE
     /\ starts' = Tail(starts) /\ UNCHANGED exhausted

NextRequest ==
  /\ reactor = "running" /\ nextcall
  /\ \E taken \in SUBSET pending :
       /\ Takes(taken)
       /\ active' = active \cup taken
       /\ TakeStart(pending \ taken)
  /\ UNCHANGED <<heard, scraping, full, redirects, spider, signals>>
  /\ IF IsIdle' /\ slot = "open" THEN CloseSlot ELSE UNCHANGED <<slot, reactor>>

\* The heartbeat, every five seconds.
Heartbeat ==
  /\ reactor = "running"
  /\ nextcall' = TRUE
  /\ UNCHANGED <<reactor, heard, slot, queues, active, scraping, full,
                 redirects, spider, signals>>

\* Mutant: a redirected request is filtered out as seen before.
EnqueueUnseen(r) == pending' = pending \cup ({r} \ made) /\ nextcall' = TRUE

\* engine.crawl
Enqueue(r) == pending' = pending \cup {r} /\ nextcall' = TRUE

\* Mutant: the end of a callback schedules no call of _next_request.
RemoveQuietly ==
  /\ UNCHANGED nextcall
  /\ IF slot = "closing" /\ InProgress' = {} THEN CloseSlot
                                             ELSE UNCHANGED <<slot, reactor>>

\* Mutant: closing fires when the downloader is done.
RemoveEarly ==
  /\ nextcall' = TRUE
  /\ IF slot = "closing" /\ active' = {} THEN CloseSlot
                                         ELSE UNCHANGED <<slot, reactor>>

\* slot.remove_request, then nextcall.schedule
Remove ==
  /\ nextcall' = TRUE
  /\ IF slot = "closing" /\ InProgress' = {} THEN CloseSlot
                                             ELSE UNCHANGED <<slot, reactor>>

-----------------------------------------------------------------------------
(* Answers.                                                                *)

\* Mutant: a request is redirected once more than REDIRECT_MAX_TIMES.
MayRedirectOnceMore(r) == redirects[r] <= MaxRedirects

MayRedirect(r) == redirects[r] < MaxRedirects

\* A response or a failure, the timeout's included, goes to the scraper.
Downloaded(r) ==
  /\ reactor = "running" /\ r \in active
  /\ active' = active \ {r}
  /\ scraping' = scraping \cup {r}
  /\ full' \in {full, TRUE}
  /\ nextcall' = TRUE
  /\ UNCHANGED <<reactor, heard, slot, queues, redirects, spider, signals>>

\* Mutant: redirect_times is not handed on to the request made again.
RedirectedUncounted(r) ==
  /\ reactor = "running" /\ r \in active /\ MayRedirect(r)
  /\ active' = active \ {r}
  /\ Enqueue(r)
  /\ UNCHANGED <<scraping, redirects, heard, starts, exhausted, full, spider, signals>>
  /\ Remove

\* The response is a redirect: the request is made again.
Redirected(r) ==
  /\ reactor = "running" /\ r \in active /\ MayRedirect(r)
  /\ redirects' = [redirects EXCEPT ![r] = @ + 1]
  /\ active' = active \ {r}
  /\ Enqueue(r)
  /\ UNCHANGED <<scraping, heard, starts, exhausted, full, spider, signals>>
  /\ Remove

\* The callback of r yields a request, or the item.
YieldRequest(r, q) ==
  /\ reactor = "running" /\ r \in scraping /\ q \notin made
  /\ made' = made \cup {q}
  /\ Enqueue(q)
  /\ UNCHANGED <<reactor, heard, slot, starts, exhausted, active, scraping,
                 full, redirects, done, items, result, signals>>

YieldItem(r) ==
  /\ reactor = "running" /\ r \in scraping /\ r \notin items
  /\ items' = items \cup {r}
  /\ result' = IF heard THEN result \cup {r} ELSE result
  /\ UNCHANGED <<reactor, heard, slot, nextcall, queues, active, scraping,
                 full, redirects, made, done, signals>>

\* It returns or raises: finish_scraping, and the request leaves the slot.
Finish(r) ==
  /\ reactor = "running" /\ r \in scraping
  /\ scraping' = scraping \ {r}
  /\ done' = done \cup {r}
  /\ full' \in IF scraping' = {} THEN {FALSE} ELSE {full, FALSE}
  /\ UNCHANGED <<heard, queues, active, redirects, made, items, result, signals>>
  /\ Remove

-----------------------------------------------------------------------------
(* Signals.                                                                *)

\* The engine stops and the spider is closed once nothing is in progress.
Shutdown ==
  /\ reactor = "running" /\ signals = 0
  /\ signals' = 1
  /\ IF InProgress = {} THEN CloseSlot ELSE slot' = "closing" /\ UNCHANGED reactor
  /\ UNCHANGED <<heard, nextcall, queues, active, scraping, full, redirects, spider>>

Abort ==
  /\ reactor = "running" /\ signals = 1
  /\ signals' = 2 /\ reactor' = "stopped"
  /\ UNCHANGED <<heard, slot, nextcall, queues, active, scraping, full,
                 redirects, spider>>

-----------------------------------------------------------------------------
Next ==
  \/ Crawl \/ ConnectHandlers \/ RunReactor
  \/ NextRequest \/ Heartbeat \/ Shutdown \/ Abort
  \/ \E r \in Request : \/ Downloaded(r) \/ Redirected(r)
                        \/ YieldItem(r) \/ Finish(r)
                        \/ \E q \in Request : YieldRequest(r, q)

Spec == Init /\ [][Next]_vars

\* The reactor makes the calls that are due, a download ends (the downloader
\* times it out), and a callback comes to its end; no fairness of Heartbeat.
Fairness ==
  /\ WF_vars(Crawl) /\ WF_vars(ConnectHandlers) /\ WF_vars(RunReactor)
  /\ WF_vars(NextRequest)
  /\ \A r \in Request : /\ WF_vars(Downloaded(r) \/ Redirected(r))
                        /\ WF_vars(Finish(r))

FairSpec == Spec /\ Fairness

-----------------------------------------------------------------------------
(* Properties.                                                             *)

\* The engine is in a state its code can be in.
TypeOK ==
  /\ reactor \in {"off", "running", "stopped"}
  /\ slot \in {"none", "open", "closing", "closed"}
  /\ heard \in BOOLEAN /\ nextcall \in BOOLEAN
  /\ exhausted \in BOOLEAN /\ full \in BOOLEAN
  /\ starts \in Seq(Request)
  /\ redirects \in [Request -> 0..MaxRedirects]
  /\ made \subseteq Request
  /\ items \subseteq made
  /\ result \subseteq items
  /\ signals \in 0..2

Waiting == Range(starts)

\* No request is lost between the parts of the engine or is in two of them, so
\* none is downloaded or answered twice: each one made waits, is scheduled,
\* downloaded or scraped, or has been answered.
InOnePlace ==
  slot # "none" =>
    /\ made = Waiting \cup pending \cup active \cup scraping \cup done
    /\ (Waiting \cup pending) \cap (InProgress \cup done) = {}
    /\ Waiting \cap pending = {}
    /\ active \cap (scraping \cup done) = {}
    /\ scraping \cap done = {}

\* Never more downloads at once than CONCURRENT_REQUESTS, however many
\* requests one turn finds in the scheduler.
DownloadsBounded == Cardinality(active) <= Concurrency

\* While the engine could go on, by a download, a start request or by closing
\* the spider, a call of _next_request is scheduled: nothing ever waits for the
\* heartbeat.
Runnable ==
  /\ slot = "open"
  /\ \/ ~NeedsBackout(active) /\ (pending # {} \/ ~exhausted)
     \/ IsIdle

NoLostWakeup == reactor # "stopped" /\ Runnable => nextcall

\* No item is scraped before scraped_handler is connected, although the crawl
\* is begun first.
EveryItemIsHeard == result = items

\* A reactor that stops, be it by one signal in the midst of the crawl, leaves
\* no download and no callback behind; only a second signal does.
StopsClean == reactor = "stopped" /\ signals < 2 => InProgress = {}

\* Where a request is, and how many parts of the engine it may still pass through,
\* those of the rounds that redirects may cost it included.
Place(r) == <<r \in Waiting, r \in pending, r \in active, r \in scraping, r \in done>>

PassesLeft(r) ==
  IF r \in done THEN 0
  ELSE 3 * (MaxRedirects - redirects[r]) + (IF r \in scraping THEN 1
                                            ELSE IF r \in active THEN 2
                                            ELSE IF r \in pending THEN 3
                                            ELSE IF r \in Waiting THEN 4 ELSE 5)

\* A request only ever moves on: whatever moves it, a redirect included, leaves it
\* fewer parts to pass through, and no heartbeat, signal or other request sends it
\* back.  It is why every request is answered, in a bounded number of turns.
RequestsAdvance ==
  [][\A r \in Request : \/ UNCHANGED <<Place(r), redirects[r]>>
                        \/ 0 <= PassesLeft(r)' /\ PassesLeft(r)' < PassesLeft(r)]_vars

\* The requests as a crawl's tasks: all of them are done when an idle spider is
\* closed, and callbacks still make requests, that are lost, after a signal.
Phase ==
  IF slot = "none" THEN "new"
  ELSE IF signals > 0 THEN "cut" ELSE IF slot = "closed" THEN "closed" ELSE "open"

Tasks == INSTANCE Frontier WITH
           Task <- Request, Start <- StartSet, phase <- Phase,
           made <- made, due <- made \ done

WorksOffTasks == Tasks!Spec

\* The reactor stops by itself, without the help of the heartbeat.
EngineStops == <>(reactor = "stopped")

\* Every request is answered unless a signal stops the engine.
RequestsAnswered ==
  \A r \in Request : (r \in made) ~> (r \in done \/ signals > 0)
=============================================================================
