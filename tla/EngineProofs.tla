---------------------------- MODULE EngineProofs -----------------------------
(***************************************************************************)
(* The safety of Engine, for every number of requests and start requests,  *)
(* every limit on downloads and redirects, and that Engine implements      *)
(* Frontier.                                                               *)
(***************************************************************************)
EXTENDS Engine, FiniteSetTheorems, TLAPS

\* Where the engine is: setup_crawler's calls come in their order, the spider is
\* open until it is idle or a signal has come, and a reactor that has stopped
\* has closed it unless a second signal came.
Phases ==
  /\ slot = "none" => /\ reactor = "off" /\ ~heard
                      /\ starts = Start /\ ~exhausted
                      /\ pending = {} /\ InProgress = {}
                      /\ made = {} /\ done = {}
  /\ reactor = "off" => /\ slot \in {"none", "open"} /\ signals = 0
                        /\ InProgress = {}
                        /\ slot = "open" => nextcall
  /\ reactor # "off" => heard
  /\ slot = "open" => reactor # "stopped" /\ signals = 0
  /\ slot = "closing" => signals > 0 /\ (reactor = "running" => InProgress # {})
  /\ slot = "closed" => /\ reactor = "stopped" /\ InProgress = {}
                        /\ signals = 0 => made = done
  /\ reactor = "stopped" => slot = "closed" \/ signals = 2

\* What the iterator of start requests holds: each once, none when exhausted.
StartsKept ==
  /\ IsInjective(starts)
  /\ exhausted => starts = <<>>

\* A scraper that has nothing is not full.
FullOfSomething == full => scraping # {}

IInv ==
  /\ TypeOK
  /\ Phases
  /\ StartsKept
  /\ FullOfSomething
  /\ InOnePlace
  /\ DownloadsBounded
  /\ NoLostWakeup
  /\ EveryItemIsHeard

-----------------------------------------------------------------------------
\* Taking the head of a sequence without repetitions.
LEMMA HeadTaken ==
  ASSUME NEW S, NEW s \in Seq(S), s # <<>>, IsInjective(s)
  PROVE  /\ Head(s) \in S /\ Tail(s) \in Seq(S) /\ IsInjective(Tail(s))
         /\ Range(s) = {Head(s)} \cup Range(Tail(s))
         /\ Head(s) \notin Range(Tail(s))
<1>1. /\ Head(s) = s[1] /\ Tail(s) \in Seq(S) /\ Len(s) \in Nat \ {0}
      /\ DOMAIN s = 1..Len(s) /\ DOMAIN Tail(s) = 1..(Len(s) - 1)
      /\ \A k \in DOMAIN Tail(s) : Tail(s)[k] = s[k + 1]
  OBVIOUS
<1>2. \A k \in DOMAIN s : k = 1 \/ (k - 1 \in DOMAIN Tail(s) /\ s[k] = Tail(s)[k - 1])
  BY <1>1
<1>3. \A k \in DOMAIN Tail(s) : k + 1 \in DOMAIN s /\ 1 \in DOMAIN s /\ k + 1 # 1
  BY <1>1
<1>4. Range(s) = {Head(s)} \cup Range(Tail(s))
  <2>1. ASSUME NEW x PROVE x \in Range(s) <=> \E k \in DOMAIN s : x = s[k]
    BY DEF Range
  <2>2. ASSUME NEW x PROVE x \in Range(Tail(s)) <=> \E k \in DOMAIN Tail(s) : x = Tail(s)[k]
    BY DEF Range
  <2> QED
    <3>1. ASSUME NEW x \in Range(s) PROVE x = Head(s) \/ x \in Range(Tail(s))
      <4>1. PICK k \in DOMAIN s : x = s[k]
        BY <2>1
      <4> QED
        BY <4>1, <1>1, <1>2, <2>2
    <3>2. Head(s) \in Range(s)
      BY <1>1, <2>1
    <3>3. ASSUME NEW x \in Range(Tail(s)) PROVE x \in Range(s)
      <4>1. PICK k \in DOMAIN Tail(s) : x = Tail(s)[k]
        BY <2>2
      <4> QED
        BY <4>1, <1>1, <1>3, <2>1
    <3> QED
      BY <3>1, <3>2, <3>3
<1>5. Head(s) \notin Range(Tail(s))
  BY <1>1, <1>3 DEF Range, IsInjective
<1>6. IsInjective(Tail(s))
  <2> SUFFICES ASSUME NEW k \in DOMAIN Tail(s), NEW l \in DOMAIN Tail(s), Tail(s)[k] = Tail(s)[l]
               PROVE  k = l
    BY DEF IsInjective
  <2>1. k + 1 \in DOMAIN s /\ l + 1 \in DOMAIN s /\ s[k + 1] = s[l + 1]
    BY <1>1
  <2>2. k + 1 = l + 1
    BY <2>1 DEF IsInjective
  <2> QED
    BY <1>1, <2>2
<1>7. Head(s) \in S
  BY <1>1
<1> QED
  BY <1>1, <1>4, <1>5, <1>6, <1>7

\* A sequence ranges over its set, the empty one over nothing.
LEMMA RangeOfSeq ==
  /\ \A S : \A s \in Seq(S) : Range(s) \subseteq S
  /\ Range(<<>>) = {}
<1>1. ASSUME NEW S, NEW s \in Seq(S) PROVE \A k \in DOMAIN s : s[k] \in S
  OBVIOUS
<1>2. DOMAIN <<>> = {}
  OBVIOUS
<1> QED
  BY <1>1, <1>2 DEF Range

\* Fewer elements, no greater number of them.
LEMMA FewerFit ==
  ASSUME NEW S, IsFiniteSet(S), NEW T \in SUBSET S
  PROVE  Cardinality(T) \in Nat /\ Cardinality(S) \in Nat /\ Cardinality(T) <= Cardinality(S)
  BY FS_Subset, FS_CardinalityType

\* The variables keep their shape.
LEMMA TypesKept == IInv /\ Next => TypeOK'
<1> SUFFICES ASSUME IInv, Next PROVE TypeOK'
  OBVIOUS
<1> USE EngineAssumption DEF IInv, TypeOK, Phases, StartsKept, StartSet, InOnePlace
<1>1. CASE Crawl
  <2>1. Range(Start) \subseteq Request
    BY RangeOfSeq
  <2> QED
    BY <1>1, <2>1 DEF Crawl, queues
<1>2. CASE ConnectHandlers
  BY <1>2 DEF ConnectHandlers, queues, spider
<1>3. CASE RunReactor
  BY <1>3 DEF RunReactor, queues, spider
<1>4. CASE NextRequest
  <2>1. starts # <<>> => Tail(starts) \in Seq(Request)
    BY HeadTaken
  <2> QED
    BY <1>4, <2>1 DEF NextRequest, TakeStart, CloseSlot, spider
<1>5. CASE Heartbeat
  BY <1>5 DEF Heartbeat, queues, spider
<1>6. CASE Shutdown
  BY <1>6 DEF Shutdown, CloseSlot, queues, spider
<1>7. CASE Abort
  BY <1>7 DEF Abort, queues, spider
<1>8. ASSUME NEW r \in Request, Downloaded(r) PROVE TypeOK'
  BY <1>8 DEF Downloaded, queues, spider
<1>9. ASSUME NEW r \in Request, Redirected(r) PROVE TypeOK'
  BY <1>9 DEF Redirected, MayRedirect, Enqueue, Remove, CloseSlot, spider
<1>10. ASSUME NEW r \in Request, YieldItem(r) PROVE TypeOK'
  BY <1>10 DEF YieldItem, queues
<1>11. ASSUME NEW r \in Request, Finish(r) PROVE TypeOK'
  BY <1>11 DEF Finish, Remove, CloseSlot, queues
<1>12. ASSUME NEW r \in Request, NEW q \in Request, YieldRequest(r, q) PROVE TypeOK'
  BY <1>12 DEF YieldRequest, Enqueue
<1> QED
  BY <1>1, <1>2, <1>3, <1>4, <1>5, <1>6, <1>7, <1>8, <1>9, <1>10, <1>11, <1>12 DEF Next
\* A start request taken is gone from the iterator.
LEMMA StartsStayKept == IInv /\ Next => StartsKept'
<1> SUFFICES ASSUME IInv, Next PROVE StartsKept'
  OBVIOUS
<1> USE EngineAssumption DEF IInv, TypeOK, Phases, StartsKept
<1>1. CASE Crawl
  BY <1>1 DEF Crawl, queues
<1>2. CASE ConnectHandlers
  BY <1>2 DEF ConnectHandlers, queues, spider
<1>3. CASE RunReactor
  BY <1>3 DEF RunReactor, queues, spider
<1>4. CASE NextRequest
  <2>1. starts # <<>> => IsInjective(Tail(starts))
    BY HeadTaken
  <2>2. CASE starts' = starts /\ (exhausted' => starts = <<>>)
    BY <2>2
  <2>3. CASE starts # <<>> /\ starts' = Tail(starts) /\ ~exhausted'
    BY <2>1, <2>3
  <2> QED
    BY <1>4, <2>2, <2>3 DEF NextRequest, TakeStart
<1>5. CASE Heartbeat
  BY <1>5 DEF Heartbeat, queues, spider
<1>6. CASE Shutdown
  BY <1>6 DEF Shutdown, CloseSlot, queues, spider
<1>7. CASE Abort
  BY <1>7 DEF Abort, queues, spider
<1>8. ASSUME NEW r \in Request, Downloaded(r) PROVE StartsKept'
  BY <1>8 DEF Downloaded, queues, spider
<1>9. ASSUME NEW r \in Request, Redirected(r) PROVE StartsKept'
  BY <1>9 DEF Redirected, MayRedirect, Enqueue, Remove, CloseSlot, spider
<1>10. ASSUME NEW r \in Request, YieldItem(r) PROVE StartsKept'
  BY <1>10 DEF YieldItem, queues
<1>11. ASSUME NEW r \in Request, Finish(r) PROVE StartsKept'
  BY <1>11 DEF Finish, Remove, CloseSlot, queues
<1>12. ASSUME NEW r \in Request, NEW q \in Request, YieldRequest(r, q) PROVE StartsKept'
  BY <1>12 DEF YieldRequest, Enqueue
<1> QED
  BY <1>1, <1>2, <1>3, <1>4, <1>5, <1>6, <1>7, <1>8, <1>9, <1>10, <1>11, <1>12 DEF Next
\* A scraper is full of what it has.
LEMMA FullKept == IInv /\ Next => FullOfSomething'
<1> SUFFICES ASSUME IInv, Next PROVE FullOfSomething'
  OBVIOUS
<1> USE DEF IInv, FullOfSomething
<1>1. CASE Crawl
  BY <1>1 DEF Crawl, queues
<1>2. CASE ConnectHandlers
  BY <1>2 DEF ConnectHandlers, queues, spider
<1>3. CASE RunReactor
  BY <1>3 DEF RunReactor, queues, spider
<1>4. CASE NextRequest
  BY <1>4 DEF NextRequest, TakeStart, CloseSlot, spider
<1>5. CASE Heartbeat
  BY <1>5 DEF Heartbeat, queues, spider
<1>6. CASE Shutdown
  BY <1>6 DEF Shutdown, CloseSlot, queues, spider
<1>7. CASE Abort
  BY <1>7 DEF Abort, queues, spider
<1>8. ASSUME NEW r \in Request, Downloaded(r) PROVE FullOfSomething'
  BY <1>8 DEF Downloaded, queues, spider
<1>9. ASSUME NEW r \in Request, Redirected(r) PROVE FullOfSomething'
  BY <1>9 DEF Redirected, MayRedirect, Enqueue, Remove, CloseSlot, spider
<1>10. ASSUME NEW r \in Request, YieldItem(r) PROVE FullOfSomething'
  BY <1>10 DEF YieldItem, queues
<1>11. ASSUME NEW r \in Request, Finish(r) PROVE FullOfSomething'
  BY <1>11 DEF Finish, Remove, CloseSlot, queues
<1>12. ASSUME NEW r \in Request, NEW q \in Request, YieldRequest(r, q) PROVE FullOfSomething'
  BY <1>12 DEF YieldRequest, Enqueue
<1> QED
  BY <1>1, <1>2, <1>3, <1>4, <1>5, <1>6, <1>7, <1>8, <1>9, <1>10, <1>11, <1>12 DEF Next
\* The handlers are connected before the first callback.
LEMMA HeardKept == IInv /\ Next => EveryItemIsHeard'
<1> SUFFICES ASSUME IInv, Next PROVE EveryItemIsHeard'
  OBVIOUS
<1> USE DEF IInv, TypeOK, Phases, EveryItemIsHeard
<1>1. CASE Crawl
  BY <1>1 DEF Crawl, queues
<1>2. CASE ConnectHandlers
  BY <1>2 DEF ConnectHandlers, queues, spider
<1>3. CASE RunReactor
  BY <1>3 DEF RunReactor, queues, spider
<1>4. CASE NextRequest
  BY <1>4 DEF NextRequest, TakeStart, CloseSlot, spider
<1>5. CASE Heartbeat
  BY <1>5 DEF Heartbeat, queues, spider
<1>6. CASE Shutdown
  BY <1>6 DEF Shutdown, CloseSlot, queues, spider
<1>7. CASE Abort
  BY <1>7 DEF Abort, queues, spider
<1>8. ASSUME NEW r \in Request, Downloaded(r) PROVE EveryItemIsHeard'
  BY <1>8 DEF Downloaded, queues, spider
<1>9. ASSUME NEW r \in Request, Redirected(r) PROVE EveryItemIsHeard'
  BY <1>9 DEF Redirected, MayRedirect, Enqueue, Remove, CloseSlot, spider
<1>10. ASSUME NEW r \in Request, YieldItem(r) PROVE EveryItemIsHeard'
  BY <1>10 DEF YieldItem, queues
<1>11. ASSUME NEW r \in Request, Finish(r) PROVE EveryItemIsHeard'
  BY <1>11 DEF Finish, Remove, CloseSlot, queues
<1>12. ASSUME NEW r \in Request, NEW q \in Request, YieldRequest(r, q) PROVE EveryItemIsHeard'
  BY <1>12 DEF YieldRequest, Enqueue
<1> QED
  BY <1>1, <1>2, <1>3, <1>4, <1>5, <1>6, <1>7, <1>8, <1>9, <1>10, <1>11, <1>12 DEF Next
\* A request goes from one part of the engine to the next.
LEMMA PlaceKept == IInv /\ Next => InOnePlace'
<1> SUFFICES ASSUME IInv, Next PROVE InOnePlace'
  OBVIOUS
<1> USE DEF IInv, TypeOK, Phases, InProgress, InOnePlace, Waiting, StartSet
<1>1. CASE Crawl
  <2>1. starts' = starts /\ starts = Start /\ made' = Range(Start)
    BY <1>1 DEF Crawl, queues
  <2>2. pending' = {} /\ active' = {} /\ scraping' = {} /\ done' = {}
    BY <1>1 DEF Crawl, queues
  <2> QED
    BY <2>1, <2>2
<1>2. CASE ConnectHandlers
  BY <1>2 DEF ConnectHandlers, queues, spider
<1>3. CASE RunReactor
  BY <1>3 DEF RunReactor, queues, spider
<1>4. CASE NextRequest
  <2>1. slot # "none" /\ UNCHANGED <<scraping, made, done>>
    BY <1>4 DEF NextRequest, spider
  <2>2. PICK taken \in SUBSET pending : active' = active \cup taken /\ TakeStart(pending \ taken)
    BY <1>4 DEF NextRequest
  <2>3. CASE starts # <<>> /\ pending' = (pending \ taken) \cup {Head(starts)} /\ starts' = Tail(starts)
    <3>1. Range(starts) = {Head(starts)} \cup Range(Tail(starts)) /\ Head(starts) \notin Range(Tail(starts))
      BY <2>3, HeadTaken DEF StartsKept
    <3> QED
      BY <2>1, <2>2, <2>3, <3>1
  <2>4. CASE pending' = pending \ taken /\ starts' = starts
    BY <2>1, <2>2, <2>4
  <2> QED
    BY <2>2, <2>3, <2>4 DEF TakeStart
<1>5. CASE Heartbeat
  BY <1>5 DEF Heartbeat, queues, spider
<1>6. CASE Shutdown
  BY <1>6 DEF Shutdown, CloseSlot, queues, spider
<1>7. CASE Abort
  BY <1>7 DEF Abort, queues, spider
<1>8. ASSUME NEW r \in Request, Downloaded(r) PROVE InOnePlace'
  BY <1>8 DEF Downloaded, queues, spider
<1>9. ASSUME NEW r \in Request, Redirected(r) PROVE InOnePlace'
  BY <1>9 DEF Redirected, MayRedirect, Enqueue, Remove, CloseSlot, spider
<1>10. ASSUME NEW r \in Request, YieldItem(r) PROVE InOnePlace'
  BY <1>10 DEF YieldItem, queues
<1>11. ASSUME NEW r \in Request, Finish(r) PROVE InOnePlace'
  BY <1>11 DEF Finish, Remove, CloseSlot, queues
<1>12. ASSUME NEW r \in Request, NEW q \in Request, YieldRequest(r, q) PROVE InOnePlace'
  BY <1>12 DEF YieldRequest, Enqueue
<1> QED
  BY <1>1, <1>2, <1>3, <1>4, <1>5, <1>6, <1>7, <1>8, <1>9, <1>10, <1>11, <1>12 DEF Next
\* The phases come in their order.
LEMMA PhasesKept == IInv /\ Next => Phases'
<1> SUFFICES ASSUME IInv, Next PROVE Phases'
  OBVIOUS
<1> USE DEF IInv, TypeOK, Phases, InProgress
<1>1. CASE Crawl
  BY <1>1 DEF Crawl, queues
<1>2. CASE ConnectHandlers
  BY <1>2 DEF ConnectHandlers, queues, spider
<1>3. CASE RunReactor
  BY <1>3 DEF RunReactor, queues, spider
<1>4. CASE NextRequest
  <2>1. reactor = "running" /\ UNCHANGED <<heard, made, done, scraping, signals>>
    BY <1>4 DEF NextRequest, spider
  <2>2. CASE IsIdle' /\ slot = "open"
    <3>1. slot' = "closed" /\ reactor' = "stopped"
      BY <1>4, <2>2 DEF NextRequest, CloseSlot
    <3>2. starts' = <<>> /\ pending' = {} /\ InProgress' = {}
      BY <2>2, StartsStayKept DEF IsIdle, StartsKept
    <3>3. Waiting' = {}
      BY <3>2, RangeOfSeq DEF Waiting
    <3>4. made' = done'
      BY <2>2, <3>1, <3>2, <3>3, PlaceKept DEF InOnePlace
    <3> QED
      BY <2>1, <2>2, <3>1, <3>2, <3>4
  <2>3. CASE ~(IsIdle' /\ slot = "open")
    <3>1. UNCHANGED <<slot, reactor>> /\ active \subseteq active'
      BY <1>4, <2>3 DEF NextRequest
    <3> QED
      BY <2>1, <3>1
  <2> QED
    BY <2>2, <2>3
<1>5. CASE Heartbeat
  BY <1>5 DEF Heartbeat, queues, spider
<1>6. CASE Shutdown
  BY <1>6 DEF Shutdown, CloseSlot, queues, spider
<1>7. CASE Abort
  BY <1>7 DEF Abort, queues, spider
<1>8. ASSUME NEW r \in Request, Downloaded(r) PROVE Phases'
  BY <1>8 DEF Downloaded, queues, spider
<1>9. ASSUME NEW r \in Request, Redirected(r) PROVE Phases'
  BY <1>9 DEF Redirected, MayRedirect, Enqueue, Remove, CloseSlot, spider
<1>10. ASSUME NEW r \in Request, YieldItem(r) PROVE Phases'
  BY <1>10 DEF YieldItem, queues
<1>11. ASSUME NEW r \in Request, Finish(r) PROVE Phases'
  BY <1>11 DEF Finish, Remove, CloseSlot, queues
<1>12. ASSUME NEW r \in Request, NEW q \in Request, YieldRequest(r, q) PROVE Phases'
  BY <1>12 DEF YieldRequest, Enqueue
<1> QED
  BY <1>1, <1>2, <1>3, <1>4, <1>5, <1>6, <1>7, <1>8, <1>9, <1>10, <1>11, <1>12 DEF Next
\* Whoever makes the engine runnable schedules nextcall.
LEMMA WakeKept == IInv /\ Next => NoLostWakeup'
<1> SUFFICES ASSUME IInv, Next PROVE NoLostWakeup'
  OBVIOUS
<1> USE DEF IInv, TypeOK, Phases, InProgress, InOnePlace, NoLostWakeup, Runnable, NeedsBackout, IsIdle, Takes
<1>1. CASE Crawl
  BY <1>1 DEF Crawl, queues
<1>2. CASE ConnectHandlers
  BY <1>2 DEF ConnectHandlers, queues, spider
<1>3. CASE RunReactor
  BY <1>3 DEF RunReactor, queues, spider
<1>4. CASE NextRequest
  <2>1. PICK taken \in SUBSET pending :
          Takes(taken) /\ active' = active \cup taken /\ TakeStart(pending \ taken)
    BY <1>4 DEF NextRequest
  <2>2. slot' = "open" => slot = "open" /\ ~IsIdle' /\ full' = full
    BY <1>4 DEF NextRequest, CloseSlot
  <2>3. CASE NeedsBackout(active')
    BY <2>2, <2>3
  <2>4. CASE ~NeedsBackout(active') /\ exhausted' /\ pending' = pending \ taken
    <3>1. taken = pending
      BY <2>1, <2>4, EngineAssumption
    <3> QED
      BY <2>2, <2>4, <3>1
  <2>5. CASE nextcall'
    BY <2>5
  <2> QED
    BY <2>1, <2>3, <2>4, <2>5 DEF TakeStart
<1>5. CASE Heartbeat
  BY <1>5 DEF Heartbeat, queues, spider
<1>6. CASE Shutdown
  BY <1>6 DEF Shutdown, CloseSlot, queues, spider
<1>7. CASE Abort
  BY <1>7 DEF Abort, queues, spider
<1>8. ASSUME NEW r \in Request, Downloaded(r) PROVE NoLostWakeup'
  BY <1>8 DEF Downloaded, queues, spider
<1>9. ASSUME NEW r \in Request, Redirected(r) PROVE NoLostWakeup'
  BY <1>9 DEF Redirected, MayRedirect, Enqueue, Remove, CloseSlot, spider
<1>10. ASSUME NEW r \in Request, YieldItem(r) PROVE NoLostWakeup'
  BY <1>10 DEF YieldItem, queues
<1>11. ASSUME NEW r \in Request, Finish(r) PROVE NoLostWakeup'
  BY <1>11 DEF Finish, Remove, CloseSlot, queues
<1>12. ASSUME NEW r \in Request, NEW q \in Request, YieldRequest(r, q) PROVE NoLostWakeup'
  BY <1>12 DEF YieldRequest, Enqueue
<1> QED
  BY <1>1, <1>2, <1>3, <1>4, <1>5, <1>6, <1>7, <1>8, <1>9, <1>10, <1>11, <1>12 DEF Next
\* Downloads are added by NextRequest alone, up to the limit.
LEMMA BoundKept == IInv /\ Next => DownloadsBounded'
<1> SUFFICES ASSUME IInv, Next PROVE DownloadsBounded'
  OBVIOUS
<1> USE EngineAssumption DEF IInv, TypeOK, Phases, DownloadsBounded, InProgress, InOnePlace, Takes
<1>1. CASE Crawl
  BY <1>1 DEF Crawl, queues
<1>2. CASE ConnectHandlers
  BY <1>2 DEF ConnectHandlers, queues, spider
<1>3. CASE RunReactor
  BY <1>3 DEF RunReactor, queues, spider
<1>4. CASE NextRequest
  <2>1. PICK taken \in SUBSET pending : Takes(taken) /\ active' = active \cup taken
    BY <1>4 DEF NextRequest
  <2>2. CASE taken = {}
    BY <2>1, <2>2
  <2>3. CASE Cardinality(active \cup taken) <= Concurrency
    BY <2>1, <2>3
  <2> QED
    BY <2>1, <2>2, <2>3
<1>5. CASE Heartbeat
  BY <1>5 DEF Heartbeat, queues, spider
<1>6. CASE Shutdown
  BY <1>6 DEF Shutdown, CloseSlot, queues, spider
<1>7. CASE Abort
  BY <1>7 DEF Abort, queues, spider
<1>8. ASSUME NEW r \in Request, Downloaded(r) PROVE DownloadsBounded'
  <2>1. active' \subseteq active /\ IsFiniteSet(active)
    BY <1>8, FS_Subset DEF Downloaded
  <2> QED
    BY <2>1, FewerFit
<1>9. ASSUME NEW r \in Request, Redirected(r) PROVE DownloadsBounded'
  <2>1. active' \subseteq active /\ IsFiniteSet(active)
    BY <1>9, FS_Subset DEF Redirected
  <2> QED
    BY <2>1, FewerFit
<1>10. ASSUME NEW r \in Request, YieldItem(r) PROVE DownloadsBounded'
  BY <1>10 DEF YieldItem, queues
<1>11. ASSUME NEW r \in Request, Finish(r) PROVE DownloadsBounded'
  BY <1>11 DEF Finish, Remove, CloseSlot, queues
<1>12. ASSUME NEW r \in Request, NEW q \in Request, YieldRequest(r, q) PROVE DownloadsBounded'
  BY <1>12 DEF YieldRequest, Enqueue
<1> QED
  BY <1>1, <1>2, <1>3, <1>4, <1>5, <1>6, <1>7, <1>8, <1>9, <1>10, <1>11, <1>12 DEF Next
-----------------------------------------------------------------------------
LEMMA Unchanged == IInv /\ UNCHANGED vars => IInv'
<1> USE DEF vars, IInv, TypeOK, Phases, StartsKept, FullOfSomething, InOnePlace,
            DownloadsBounded, NoLostWakeup, Runnable, NeedsBackout, IsIdle,
            EveryItemIsHeard, InProgress, Waiting
<1> QED
  OBVIOUS

THEOREM EngineInvariance == Spec => []IInv
<1>1. Init => IInv
  <2> SUFFICES ASSUME Init PROVE IInv
    OBVIOUS
  <2> USE DEF Init
  <2>1. TypeOK
    <3>1. Start \in Seq(Request) /\ 0 \in 0..MaxRedirects /\ 0 \in 0..2
      BY EngineAssumption
    <3> QED
      BY <3>1 DEF TypeOK
  <2>2. Phases /\ StartsKept /\ FullOfSomething /\ EveryItemIsHeard
    BY EngineAssumption DEF Phases, StartsKept, FullOfSomething, EveryItemIsHeard, InProgress
  <2>3. InOnePlace /\ NoLostWakeup
    BY DEF InOnePlace, NoLostWakeup, Runnable
  <2>4. DownloadsBounded
    BY FS_EmptySet, EngineAssumption DEF DownloadsBounded
  <2> QED
    BY <2>1, <2>2, <2>3, <2>4 DEF IInv
<1>2. IInv /\ [Next]_vars => IInv'
  BY Unchanged, TypesKept, StartsStayKept, FullKept, HeardKept, PlaceKept,
     PhasesKept, WakeKept, BoundKept DEF IInv
<1> QED
  BY <1>1, <1>2, PTL DEF Spec

\* Every variable of the engine keeps its shape.
THEOREM EngineTypeCorrect == Spec => []TypeOK
BY EngineInvariance, PTL DEF IInv

\* No request is ever lost by the engine, or in two of its parts.
THEOREM EveryRequestInOnePlace == Spec => []InOnePlace
BY EngineInvariance, PTL DEF IInv

\* No more downloads at once than the setting allows, however many requests
\* are scheduled.
THEOREM BoundedDownloads == Spec => []DownloadsBounded
BY EngineInvariance, PTL DEF IInv

\* Whenever the engine could go on, its next call is scheduled.
THEOREM WakeupsAreKept == Spec => []NoLostWakeup
BY EngineInvariance, PTL DEF IInv

\* RESULT has every item that was yielded.
THEOREM ItemsAreHeard == Spec => []EveryItemIsHeard
BY EngineInvariance, PTL DEF IInv

\* Only a second signal leaves anything in progress when the reactor stops.
THEOREM CleanStops == Spec => []StopsClean
<1>1. IInv => StopsClean
  BY DEF IInv, Phases, StopsClean, TypeOK
<1> QED
  BY <1>1, EngineInvariance, PTL

-----------------------------------------------------------------------------
\* Each step of the engine is a step of Frontier, or none.
LEMMA StepIsTaskStep == IInv /\ IInv' /\ [Next]_vars => [Tasks!Next]_(Tasks!vars)
<1> SUFFICES ASSUME IInv, IInv', [Next]_vars PROVE Tasks!Next \/ UNCHANGED Tasks!vars
  OBVIOUS
<1> USE DEF Tasks!vars, Phase
<1>1. CASE UNCHANGED <<slot, made, done, signals>>
  BY <1>1
<1>2. CASE Crawl
  <2>1. Tasks!Open
    BY <1>2 DEF Crawl, Tasks!Open, IInv, Phases
  <2> QED
    BY <2>1 DEF Tasks!Next
<1>3. CASE NextRequest
  <2>1. UNCHANGED <<made, done, signals>> /\ slot # "none"
    BY <1>3 DEF NextRequest, spider, IInv, Phases
  <2>2. CASE slot' = slot
    BY <1>1, <2>1, <2>2
  <2>3. CASE slot = "open" /\ slot' = "closed"
    <3>1. made = done /\ signals = 0
      BY <2>1, <2>3 DEF IInv, Phases
    <3>2. Tasks!Close
      BY <2>1, <2>3, <3>1 DEF Tasks!Close
    <3> QED
      BY <3>2 DEF Tasks!Next
  <2> QED
    BY <1>3, <2>2, <2>3 DEF NextRequest, CloseSlot
<1>4. CASE Shutdown
  <2>1. Tasks!Cut
    BY <1>4 DEF Shutdown, CloseSlot, spider, Tasks!Cut, IInv, Phases, TypeOK
  <2> QED
    BY <2>1 DEF Tasks!Next
<1>5. CASE Abort
  BY <1>5 DEF Abort, spider, IInv, Phases
<1>6. ASSUME NEW r \in Request, Redirected(r) PROVE UNCHANGED Tasks!vars
  BY <1>6 DEF Redirected, Remove, CloseSlot, spider, IInv, Phases
<1>7. ASSUME NEW r \in Request, NEW q \in Request, YieldRequest(r, q) PROVE Tasks!Next
  <2>1. r \in made \ done /\ Phase \in {"open", "cut"} /\ Phase' = Phase
    BY <1>7 DEF YieldRequest, IInv, Phases, InOnePlace, InProgress, TypeOK
  <2>2. made' = made \cup {q} /\ made' \ done' = (made \ done) \cup {q} /\ {q} \in SUBSET (Request \ made)
    BY <1>7 DEF YieldRequest, IInv, InOnePlace, Phases, TypeOK
  <2>3. Tasks!Work(r)
    BY <2>1, <2>2 DEF Tasks!Work
  <2> QED
    BY <2>1, <2>3 DEF Tasks!Next
<1>8. ASSUME NEW r \in Request, Finish(r) PROVE Tasks!Next
  <2>1. r \in made \ done /\ Phase \in {"open", "cut"} /\ Phase' = Phase
    BY <1>8 DEF Finish, Remove, CloseSlot, IInv, Phases, InOnePlace, InProgress, TypeOK
  <2>2. made' = made \cup {} /\ made' \ done' = ((made \ done) \ {r}) \cup {}
    BY <1>8 DEF Finish
  <2>3. Tasks!Work(r)
    BY <2>1, <2>2 DEF Tasks!Work
  <2> QED
    BY <2>1, <2>3 DEF Tasks!Next
<1>9. ASSUME NEW r \in Request, Downloaded(r) \/ YieldItem(r)
      PROVE  UNCHANGED <<slot, made, done, signals>>
  BY <1>9 DEF Downloaded, YieldItem, spider
<1>10. CASE ConnectHandlers \/ RunReactor \/ Heartbeat \/ UNCHANGED vars
  BY <1>1, <1>10 DEF ConnectHandlers, RunReactor, Heartbeat, spider, vars
<1> QED
  BY <1>1, <1>2, <1>3, <1>4, <1>5, <1>6, <1>7, <1>8, <1>9, <1>10 DEF Next

\* The engine works off a crawl's tasks: it implements Frontier.
THEOREM EngineImplements == Spec => WorksOffTasks
<1>1. Init => Tasks!Init
  BY DEF Init, Tasks!Init, Phase
<1>2. IInv /\ IInv' /\ [Next]_vars => [Tasks!Next]_(Tasks!vars)
  BY StepIsTaskStep
<1> QED
  BY <1>1, <1>2, EngineInvariance, PTL DEF Spec, Tasks!Spec, WorksOffTasks

-----------------------------------------------------------------------------
(* Requests move on.                                                       *)

\* A request that keeps its redirects passes fewer parts from a later place, one
\* that is redirected fewer from any; and never a negative number.
LEMMA LaterIsFewer ==
  ASSUME TypeOK, TypeOK', NEW k \in Request
  PROVE  LET place == IF k \in done THEN 0 ELSE IF k \in scraping THEN 1
                      ELSE IF k \in active THEN 2 ELSE IF k \in pending THEN 3
                      ELSE IF k \in Waiting THEN 4 ELSE 5
             next == IF k \in done' THEN 0 ELSE IF k \in scraping' THEN 1
                     ELSE IF k \in active' THEN 2 ELSE IF k \in pending' THEN 3
                     ELSE IF k \in Waiting' THEN 4 ELSE 5
         IN  /\ PassesLeft(k)' >= 0
             /\ redirects'[k] = redirects[k] /\ next < place
                  => PassesLeft(k)' < PassesLeft(k)
             /\ redirects'[k] = redirects[k] + 1 /\ place = 2 /\ next = 3
                  => PassesLeft(k)' < PassesLeft(k)
<1>1. redirects[k] \in 0..MaxRedirects /\ redirects'[k] \in 0..MaxRedirects
      /\ MaxRedirects \in Nat
  BY EngineAssumption DEF TypeOK
<1> QED
  BY <1>1 DEF PassesLeft

LEMMA RequestsAdvanceStep ==
  ASSUME IInv, IInv', Next, NEW k \in Request
  PROVE  \/ UNCHANGED <<Place(k), redirects[k]>>
         \/ 0 <= PassesLeft(k)' /\ PassesLeft(k)' < PassesLeft(k)
<1> USE DEF Place, Waiting
<1>0. /\ slot # "none" => InOnePlace /\ (Waiting \cup pending) \cap (active \cup scraping \cup done) = {}
      /\ slot' # "none" => InOnePlace'
      /\ TypeOK /\ TypeOK'
      /\ redirects \in [Request -> 0..MaxRedirects]
  BY DEF IInv, InOnePlace, InProgress, TypeOK
<1>1. CASE UNCHANGED <<starts, pending, active, scraping, done, redirects>>
  BY <1>1
<1>2. CASE NextRequest
  <2>1. UNCHANGED <<scraping, done, redirects>> /\ slot # "none"
    BY <1>2 DEF NextRequest, spider, IInv, Phases
  <2>2. PICK taken \in SUBSET pending : active' = active \cup taken /\ TakeStart(pending \ taken)
    BY <1>2 DEF NextRequest
  <2>3. /\ pending \cap (active \cup scraping \cup done) = {}
        /\ Range(starts) \cap (pending \cup active \cup scraping \cup done) = {}
    BY <2>1 DEF IInv, InOnePlace, InProgress
  <2>4. CASE starts # <<>> /\ pending' = (pending \ taken) \cup {Head(starts)} /\ starts' = Tail(starts)
    <3>1. /\ Range(starts) = {Head(starts)} \cup Range(Tail(starts))
          /\ Head(starts) \notin Range(Tail(starts))
      BY <2>4, HeadTaken DEF StartsKept, IInv, TypeOK
    <3>2. CASE k \in taken
      BY <1>0, <2>1, <2>2, <2>3, <2>4, <3>1, <3>2, LaterIsFewer
    <3>3. CASE k = Head(starts)
      BY <1>0, <2>1, <2>2, <2>3, <2>4, <3>1, <3>3, LaterIsFewer
    <3>4. CASE k \notin taken /\ k # Head(starts)
      BY <2>1, <2>2, <2>4, <3>1, <3>4
    <3> QED
      BY <3>2, <3>3, <3>4
  <2>5. CASE pending' = pending \ taken /\ starts' = starts
    <3>1. CASE k \in taken
      BY <1>0, <2>1, <2>2, <2>3, <2>5, <3>1, LaterIsFewer
    <3>2. CASE k \notin taken
      BY <2>1, <2>2, <2>5, <3>2
    <3> QED
      BY <3>1, <3>2
  <2> QED
    BY <2>2, <2>4, <2>5 DEF TakeStart
<1>3. ASSUME NEW r \in Request, Downloaded(r)
      PROVE  \/ UNCHANGED <<Place(k), redirects[k]>>
             \/ 0 <= PassesLeft(k)' /\ PassesLeft(k)' < PassesLeft(k)
  <2>1. /\ r \in active /\ active' = active \ {r} /\ scraping' = scraping \cup {r}
        /\ UNCHANGED <<starts, pending, done, redirects>> /\ slot # "none"
    BY <1>3 DEF Downloaded, queues, spider, IInv, Phases
  <2>2. r \notin scraping \cup done
    BY <2>1 DEF IInv, InOnePlace
  <2>3. CASE k = r
    BY <1>0, <2>1, <2>2, <2>3, LaterIsFewer
  <2>4. CASE k # r
    BY <2>1, <2>4
  <2> QED
    BY <2>3, <2>4
<1>4. ASSUME NEW r \in Request, Redirected(r)
      PROVE  \/ UNCHANGED <<Place(k), redirects[k]>>
             \/ 0 <= PassesLeft(k)' /\ PassesLeft(k)' < PassesLeft(k)
  <2>1. /\ r \in active /\ active' = active \ {r} /\ pending' = pending \cup {r}
        /\ redirects' = [redirects EXCEPT ![r] = @ + 1]
        /\ UNCHANGED <<starts, scraping, done>> /\ slot # "none"
    BY <1>4 DEF Redirected, Enqueue, spider, IInv, Phases
  <2>2. r \notin scraping \cup done
    BY <2>1 DEF IInv, InOnePlace
  <2>3. CASE k = r
    <3>1. redirects'[k] = redirects[k] + 1
      BY <1>0, <2>1, <2>3
    <3> QED
      BY <1>0, <2>1, <2>2, <2>3, <3>1, LaterIsFewer
  <2>4. CASE k # r
    BY <1>0, <2>1, <2>4
  <2> QED
    BY <2>3, <2>4
<1>5. ASSUME NEW r \in Request, NEW q \in Request, YieldRequest(r, q)
      PROVE  \/ UNCHANGED <<Place(k), redirects[k]>>
             \/ 0 <= PassesLeft(k)' /\ PassesLeft(k)' < PassesLeft(k)
  <2>1. /\ q \notin made /\ pending' = pending \cup {q}
        /\ UNCHANGED <<starts, active, scraping, done, redirects>> /\ slot # "none"
    BY <1>5 DEF YieldRequest, Enqueue, IInv, Phases, InProgress
  <2>2. q \notin Range(starts) \cup pending \cup active \cup scraping \cup done
    BY <2>1 DEF IInv, InOnePlace
  <2>3. CASE k = q
    BY <1>0, <2>1, <2>2, <2>3, LaterIsFewer
  <2>4. CASE k # q
    BY <2>1, <2>4
  <2> QED
    BY <2>3, <2>4
<1>6. ASSUME NEW r \in Request, Finish(r)
      PROVE  \/ UNCHANGED <<Place(k), redirects[k]>>
             \/ 0 <= PassesLeft(k)' /\ PassesLeft(k)' < PassesLeft(k)
  <2>1. /\ r \in scraping /\ scraping' = scraping \ {r} /\ done' = done \cup {r}
        /\ UNCHANGED <<starts, pending, active, redirects>> /\ slot # "none"
    BY <1>6 DEF Finish, queues, IInv, Phases, InProgress
  <2>2. r \notin done
    BY <2>1 DEF IInv, InOnePlace
  <2>3. CASE k = r
    BY <1>0, <2>1, <2>2, <2>3, LaterIsFewer
  <2>4. CASE k # r
    BY <2>1, <2>4
  <2> QED
    BY <2>3, <2>4
<1>7. ASSUME NEW r \in Request, YieldItem(r)
      PROVE  UNCHANGED <<starts, pending, active, scraping, done, redirects>>
  BY <1>7 DEF YieldItem, queues
<1>8. CASE Crawl \/ ConnectHandlers \/ RunReactor \/ Heartbeat \/ Shutdown \/ Abort
  BY <1>1, <1>8 DEF Crawl, ConnectHandlers, RunReactor, Heartbeat, Shutdown, Abort, queues, spider
<1> QED
  BY <1>1, <1>2, <1>3, <1>4, <1>5, <1>6, <1>7, <1>8 DEF Next

\* No request is sent back or round in circles: every step that moves it brings it
\* nearer to its answer, for any limit on redirects.
THEOREM RequestsMoveOn == Spec => RequestsAdvance
<1> DEFINE Advance == \A r \in Request : \/ UNCHANGED <<Place(r), redirects[r]>>
                                         \/ 0 <= PassesLeft(r)' /\ PassesLeft(r)' < PassesLeft(r)
<1>1. IInv /\ IInv' /\ [Next]_vars => [Advance]_vars
  BY RequestsAdvanceStep
<1> QED
  BY <1>1, EngineInvariance, PTL DEF Spec, RequestsAdvance
=============================================================================
