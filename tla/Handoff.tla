------------------------------ MODULE Handoff -------------------------------
(***************************************************************************)
(* handler.py: entry_point answers an invocation by forking a process that *)
(* runs the crawl and sends RESULT back through a pipe.                    *)
(*                                                                         *)
(* The container of the platform stays warm: one parent process serves     *)
(* many invocations, one at a time, and each child inherits a copy of the  *)
(* parent's globals.  The child is joined before the pipe is read, and the *)
(* parent keeps the child's end of the pipe open, so a child that sends    *)
(* nothing, or more than the pipe buffers, leaves both waiting until the   *)
(* platform's timeout replaces the container.  The command line has none.  *)
(***************************************************************************)
EXTENDS Integers, Sequences, FiniteSets, Functions

CONSTANTS
  Item,      \* what a spider can yield
  Percent,   \* Percent[i] is the percent_above_kbb of item i
  MaxItems,  \* a crawl yields at most this many items
  Capacity,  \* how many items, pickled, the pipe buffers
  TimesOut,  \* whether a platform ends an invocation that takes too long
  MaxCalls,  \* bound on the invocations of a container
  None

ASSUME HandoffAssumption ==
  /\ Percent \in [Item -> Int]
  /\ MaxItems \in Nat
  /\ Capacity \in Nat
  /\ TimesOut \in BOOLEAN
  /\ MaxCalls \in Nat
  /\ None \notin Seq(Item)

VARIABLES
  calls,    \* invocations so far
  parent,   \* where entry_point is, in run_process
  child,    \* where the forked setup_crawler is, or how its process ended
  home,     \* the parent's globals
  copy,     \* the child's globals, inherited at the fork
  pipe,     \* messages sent and not received
  scraped,  \* the items the spider of the current invocation has yielded
  answer    \* what the latest invocation returned

vars == <<calls, parent, child, home, copy, pipe, scraped, answer>>

\* RESULT, and how often reactor.run has been called in the process.
Fresh == [result |-> <<>>, runs |-> 0]

Init ==
  /\ calls = 0
  /\ parent = "idle"
  /\ child = "none"
  /\ home = Fresh
  /\ copy = Fresh
  /\ pipe = <<>>
  /\ scraped = <<>>
  /\ answer = None

-----------------------------------------------------------------------------
(* entry_point and run_process, in the parent.                             *)

\* Mutant: the crawl is a thread of the parent, whose globals it changes.
CallThread ==
  /\ parent = "idle" /\ calls < MaxCalls
  /\ calls' = calls + 1
  /\ parent' = "joining" /\ child' = "setup"
  /\ copy' = copy
  /\ pipe' = <<>> /\ scraped' = <<>> /\ answer' = None
  /\ UNCHANGED home

\* The arguments are good: a new pipe, a new process, and join.
Call ==
  /\ parent = "idle" /\ calls < MaxCalls
  /\ calls' = calls + 1
  /\ parent' = "joining" /\ child' = "setup"
  /\ copy' = home
  /\ pipe' = <<>> /\ scraped' = <<>> /\ answer' = None
  /\ UNCHANGED home

\* argparse refuses the event: nothing is started, and SystemExit may end the
\* parent, which the platform then replaces.
RefuseArgs ==
  /\ parent = "idle" /\ calls < MaxCalls
  /\ calls' = calls + 1
  /\ home' \in {home, Fresh}
  /\ answer' = None /\ scraped' = <<>>
  /\ UNCHANGED <<parent, child, copy, pipe>>

JoinChild ==
  /\ parent = "joining" /\ child \in {"sent", "lost"}
  /\ parent' = "receiving"
  /\ UNCHANGED <<calls, child, home, copy, pipe, scraped, answer>>

\* sorted() by percent_above_kbb, which keeps the order of equal items: the
\* results a sort of items may have, of which there is one.
Sorted(items) ==
  {[k \in 1..Len(items) |-> items[order[k]]] :
     order \in {o \in Bijection(1..Len(items), 1..Len(items)) :
                 \A i, k \in 1..Len(items) : i < k =>
                   \/ Percent[items[o[i]]] < Percent[items[o[k]]]
                   \/ Percent[items[o[i]]] = Percent[items[o[k]]] /\ o[i] < o[k]}}

ReceiveResult ==
  /\ parent = "receiving" /\ pipe # <<>>
  /\ parent' = "idle"
  /\ answer' \in Sorted(Head(pipe))
  /\ pipe' = Tail(pipe)
  /\ UNCHANGED <<calls, child, home, copy, scraped>>

\* The platform gives up on the invocation and replaces the container.
TimeOut ==
  /\ TimesOut /\ parent # "idle"
  /\ parent' = "idle" /\ child' = "none"
  /\ home' = Fresh /\ copy' = Fresh
  /\ pipe' = <<>> /\ scraped' = <<>>
  /\ UNCHANGED <<calls, answer>>

-----------------------------------------------------------------------------
(* setup_crawler, in the child.                                            *)

Child(from, to) == child = from /\ child' = to

\* crawler.crawl succeeds, the handlers are connected, the reactor runs.
RunReactor ==
  /\ Child("setup", "crawling")
  /\ copy' = [copy EXCEPT !.runs = @ + 1]
  /\ UNCHANGED <<calls, parent, home, pipe, scraped, answer>>

\* MySpider() raises: the crawler is discarded and next(iter({})) raises.
SetupRaises ==
  /\ Child("setup", "lost")
  /\ UNCHANGED <<calls, parent, home, copy, pipe, scraped, answer>>

\* Mutant: scraped_handler skips an item that RESULT has already.
ScrapeItemOnce(i) ==
  /\ child = "crawling" /\ Len(scraped) < MaxItems
  /\ scraped' = Append(scraped, i)
  /\ copy' = IF \E k \in 1..Len(copy.result) : copy.result[k] = i
             THEN copy ELSE [copy EXCEPT !.result = Append(@, i)]
  /\ UNCHANGED <<calls, parent, child, home, pipe, answer>>

\* The spider yields an item and scraped_handler appends it to RESULT.
ScrapeItem(i) ==
  /\ child = "crawling" /\ Len(scraped) < MaxItems
  /\ scraped' = Append(scraped, i)
  /\ copy' = [copy EXCEPT !.result = Append(@, i)]
  /\ UNCHANGED <<calls, parent, child, home, pipe, answer>>

\* The spider is closed and the reactor stops: crawler.start returns.
StopReactor ==
  /\ Child("crawling", "sending")
  /\ UNCHANGED <<calls, parent, home, copy, pipe, scraped, answer>>

\* Mutant: something keeps the process alive after setup_crawler returns.
SendResultLingers ==
  /\ child = "sending" /\ pipe = <<>>
  /\ Len(copy.result) <= Capacity
  /\ pipe' = Append(pipe, copy.result)
  /\ UNCHANGED <<calls, parent, child, home, copy, scraped, answer>>

\* Mutant: every item is sent as a message of its own.
SendResultEach ==
  /\ Child("sending", "sent")
  /\ Len(copy.result) <= Capacity
  /\ pipe' = [k \in 1..Len(copy.result) |-> <<copy.result[k]>>]
  /\ UNCHANGED <<calls, parent, home, copy, scraped, answer>>

\* Mutant: a child that found nothing has nothing to send.
SendResultIfAny ==
  /\ Child("sending", "sent")
  /\ Len(copy.result) <= Capacity
  /\ pipe' = IF copy.result = <<>> THEN pipe ELSE Append(pipe, copy.result)
  /\ UNCHANGED <<calls, parent, home, copy, scraped, answer>>

\* conn.send blocks for good when the pipe cannot buffer all of RESULT, as
\* nobody reads before the child has exited.
SendResult ==
  /\ Child("sending", "sent")
  /\ Len(copy.result) <= Capacity
  /\ pipe' = Append(pipe, copy.result)
  /\ UNCHANGED <<calls, parent, home, copy, scraped, answer>>

\* A call of the GraphQL service is never answered, be it for the schema, by
\* GqlClient() in MySpider(), or by a callback; or KBB leads a job from one page
\* of categories to the next for good.  What the spider still yields then is of
\* no consequence: the process never comes to send it.
ChildHangs ==
  /\ child \in {"setup", "crawling"}
  /\ child' = "hung"
  /\ UNCHANGED <<calls, parent, home, copy, pipe, scraped, answer>>

\* The process is killed, for want of memory say.
ChildKilled ==
  /\ child \in {"setup", "crawling", "sending", "hung"}
  /\ child' = "lost"
  /\ UNCHANGED <<calls, parent, home, copy, pipe, scraped, answer>>

-----------------------------------------------------------------------------
Next ==
  \/ Call \/ RefuseArgs \/ JoinChild \/ ReceiveResult \/ TimeOut
  \/ RunReactor \/ SetupRaises \/ StopReactor \/ SendResult
  \/ ChildHangs \/ ChildKilled
  \/ \E i \in Item : ScrapeItem(i)

Spec == Init /\ [][Next]_vars

\* Both processes keep running, and a crawl that is held up neither by the GraphQL
\* service nor by KBB comes to its end (EveryCrawlEnds of CarCrawl).
Fairness ==
  /\ WF_vars(JoinChild) /\ WF_vars(ReceiveResult)
  /\ WF_vars(RunReactor) /\ WF_vars(StopReactor) /\ WF_vars(SendResult)

FairSpec == Spec /\ Fairness

-----------------------------------------------------------------------------
(* Properties.                                                             *)

\* The two processes are where run_process and setup_crawler can be.
TypeOK ==
  /\ calls \in 0..MaxCalls
  /\ parent \in {"idle", "joining", "receiving"}
  /\ child \in {"none", "setup", "crawling", "sending", "sent", "lost", "hung"}
  /\ home \in [result : Seq(Item), runs : Nat]
  /\ copy \in [result : Seq(Item), runs : Nat]
  /\ pipe \in Seq(Seq(Item))
  /\ Len(pipe) <= 1
  /\ scraped \in Seq(Item)
  /\ Len(scraped) <= MaxItems
  /\ answer \in Seq(Item) \cup {None}

Occurrences(items, x) == Cardinality({k \in 1..Len(items) : items[k] = x})

\* An invocation answers with exactly the items its own crawl scraped, each as
\* often as it was scraped, and in ascending order of percent_above_kbb:
\* RESULT is global and the container is reused, yet nothing of an earlier
\* invocation is in the answer.
AnswerIsThisCrawl ==
  answer # None =>
    /\ \A x \in Item : Occurrences(answer, x) = Occurrences(scraped, x)
    /\ \A i, k \in 1..Len(answer) : i < k => Percent[answer[i]] <= Percent[answer[k]]

\* No process calls reactor.run twice, which twisted refuses: the parent never
\* runs a reactor, however many invocations the container serves.
ReactorRunsOnce == copy.runs <= 1 /\ home.runs = 0

\* Whenever an invocation is served, one of its processes can go on: the crawl
\* runs, the child can send into an empty pipe, join returns, or recv finds a
\* message.  It stands still only for a child that ended without sending, one that
\* the service or KBB holds up, or one with more to send than the pipe buffers; no
\* order of exit, join, send and recv leaves the two waiting for each other else.
StandstillHasCause ==
  parent # "idle" =>
    \/ child \in {"setup", "crawling"}
    \/ child = "sending" /\ pipe = <<>> /\ Len(copy.result) <= Capacity
    \/ parent = "joining" /\ child = "sent"
    \/ parent = "receiving" /\ pipe # <<>>
    \/ child \in {"lost", "hung"}
    \/ child = "sending" /\ Len(copy.result) > Capacity

\* Without a timeout, an invocation returns unless its child ended without
\* sending, is held up for good by the service or by KBB's categories, or has more
\* to send than the pipe buffers.
CallsReturn ==
  (parent # "idle") ~> (\/ parent = "idle"
                        \/ child \in {"lost", "hung"}
                        \/ child = "sending" /\ Len(copy.result) > Capacity)
=============================================================================
