---------------------------- MODULE ReactorProofs ----------------------------
(***************************************************************************)
(* The safety of Reactor for every number of requests, timeout and page    *)
(* size.  A page that is in time stays in the socket until it is read, and *)
(* its timeout can only come due while a callback blocks; a pass that is   *)
(* to cancel its download follows a poll that has not read all of it.      *)
(***************************************************************************)
EXTENDS Reactor, TLAPS

USE ReactorAssumption

\* A pass runs only timed calls that are made and due, and a poll follows a
\* pass that has run them all.
ReadyIsDue ==
  /\ \A c \in ready : state[c] # "idle" /\ left[c] = 0
  /\ loop = "poll" => ready = {}

\* What a request that waits for a page in time knows of it.
PagesInTime ==
  \A c \in Conn : state[c] = "waiting" /\ inTime[c] =>
    /\ 0 < unread[c] /\ unread[c] <= reads[c]
    /\ left[c] = 0 => blocked[c]
    /\ c \in ready => reads[c] > 1

\* Only a request that is downloaded has anything in its socket.
OnlyWaitingRead == \A c \in Conn : unread[c] > 0 => state[c] = "waiting"

IInv == TypeOK /\ ReadyIsDue /\ PagesInTime /\ OnlyWaitingRead /\ OnlyBlockingLosesPages

\* A step of one request leaves the others as they are.
Others(c) ==
  \A d \in Conn \ {c} :
    /\ state'[d] = state[d] /\ left'[d] = left[d] /\ unread'[d] = unread[d]
    /\ reads'[d] = reads[d] /\ inTime'[d] = inTime[d] /\ blocked'[d] = blocked[d]
    /\ d \in ready' <=> d \in ready

LEMMA DownloadKeeps ==
  ASSUME IInv, NEW c \in Conn, Download(c)
  PROVE  IInv'
<1>1. TypeOK'
  BY DEF IInv, TypeOK, Download
<1>2. Others(c) /\ state'[c] = "waiting" /\ ~inTime'[c] /\ ready' = ready /\ loop' = "calls"
  BY DEF IInv, TypeOK, Download, Others
<1>3. c \notin ready
  BY DEF IInv, ReadyIsDue, Download
<1> QED
  BY <1>1, <1>2, <1>3
     DEF IInv, ReadyIsDue, PagesInTime, OnlyWaitingRead,
         OnlyBlockingLosesPages, Others, TypeOK

LEMMA CancelKeeps ==
  ASSUME IInv, NEW c \in Conn, CancelDownload(c)
  PROVE  IInv'
<1>1. TypeOK'
  BY DEF IInv, TypeOK, CancelDownload
<1>2. /\ Others(c) /\ state'[c] = "timedOut" /\ ready' = ready \ {c} /\ loop' = "calls"
      /\ unread'[c] = 0
      /\ UNCHANGED <<reads, inTime, blocked>>
  BY DEF IInv, TypeOK, CancelDownload, Others
<1>3. inTime[c] => reads[c] > 1 /\ blocked[c]
  BY DEF IInv, ReadyIsDue, PagesInTime, CancelDownload
<1> QED
  BY <1>1, <1>2, <1>3
     DEF IInv, ReadyIsDue, PagesInTime, OnlyWaitingRead,
         OnlyBlockingLosesPages, Others, TypeOK

LEMMA CallbackKeeps ==
  ASSUME IInv, NEW c \in Conn, RunCallback(c)
  PROVE  IInv'
<1>1. TypeOK'
  BY DEF IInv, TypeOK, RunCallback, page
<1>2. /\ Others(c) /\ state'[c] = "idle" /\ ready' = ready \ {c}
      /\ unread'[c] = unread[c] /\ state[c] # "waiting"
      /\ loop' \in {"calls", "blocks"}
  BY DEF IInv, TypeOK, RunCallback, Others, page
<1> QED
  BY <1>1, <1>2
     DEF IInv, ReadyIsDue, PagesInTime, OnlyWaitingRead,
         OnlyBlockingLosesPages, Others, TypeOK

LEMMA PollKeeps ==
  ASSUME IInv, Poll
  PROVE  IInv'
<1> USE DEF IInv, TypeOK
<1>1. \A c \in Conn : unread[c] = 1 <=> c \in {d \in Readable : unread[d] = 1}
  BY DEF Readable
<1>2. \A c \in Conn :
        /\ state'[c] = IF unread[c] = 1 THEN "answered" ELSE state[c]
        /\ left'[c] = IF unread[c] = 1 THEN Delay ELSE left[c]
        /\ unread'[c] = IF unread[c] > 0 THEN unread[c] - 1 ELSE 0
        /\ c \in ready' <=> state[c] # "idle" /\ left[c] = 0 /\ unread[c] # 1
  BY <1>1 DEF Poll, Readable, Overdue
<1>3. ready' \subseteq Conn /\ loop' = "calls" /\ UNCHANGED <<reads, inTime, blocked>>
  BY DEF Poll, Overdue
<1>4. TypeOK'
  <2>1. state' \in [Conn -> {"idle", "waiting", "answered", "timedOut"}]
    BY DEF Poll
  <2>2. left' \in [Conn -> Nat]
    BY DEF Poll
  <2>3. unread' \in [Conn -> 0..MaxReads]
    BY DEF Poll, Readable
  <2> QED
    BY <1>3, <2>1, <2>2, <2>3
<1>5. ReadyIsDue'
  BY <1>2, <1>3 DEF ReadyIsDue
<1>6. PagesInTime'
  BY <1>2, <1>3 DEF PagesInTime
<1>7. OnlyBlockingLosesPages'
  BY <1>2, <1>3 DEF OnlyBlockingLosesPages
<1>8. OnlyWaitingRead'
  BY <1>2 DEF OnlyWaitingRead
<1> QED
  BY <1>4, <1>5, <1>6, <1>7, <1>8

LEMMA ArrivalKeeps ==
  ASSUME IInv, NEW c \in Conn, NEW n \in 1..MaxReads, PageArrives(c, n)
  PROVE  IInv'
<1>1. TypeOK'
  BY DEF IInv, TypeOK, PageArrives
<1>2. /\ Others(c) /\ unread'[c] = n /\ reads'[c] = n /\ inTime'[c] = (left[c] > 0)
      /\ UNCHANGED <<loop, state, left, ready, blocked>> /\ state[c] = "waiting"
  BY DEF IInv, TypeOK, PageArrives, Others
<1>3. c \in ready => left[c] = 0
  BY DEF IInv, ReadyIsDue
<1> QED
  BY <1>1, <1>2, <1>3
     DEF IInv, ReadyIsDue, PagesInTime, OnlyWaitingRead,
         OnlyBlockingLosesPages, Others, TypeOK

\* Time passes: no page in time waits while the loop sleeps, and a callback
\* that blocks is remembered.
LEMMA TimeKeeps ==
  ASSUME IInv, Sleep \/ Block
  PROVE  IInv'
<1> USE DEF IInv, TypeOK
<1>1. /\ left' \in [Conn -> Nat]
      /\ \A c \in Conn : /\ left'[c] = 0 => left[c] \in {0, 1}
                         /\ left[c] = 0 => left'[c] = 0
  BY DEF Sleep, Block, Later
<1>2. UNCHANGED <<loop, state, ready, unread, reads, inTime>>
  BY DEF Sleep, Block, page
<1>3. \A c \in Conn : /\ blocked'[c] \in BOOLEAN
                      /\ blocked[c] => blocked'[c]
                      /\ 0 < unread[c] => loop = "blocks" /\ blocked'[c]
  <2>1. CASE Sleep
    <3>1. \A c \in Conn : ~(0 < unread[c])
      BY <2>1 DEF Sleep, Readable
    <3>2. UNCHANGED blocked
      BY <2>1 DEF Sleep, page
    <3> QED
      BY <3>1, <3>2
  <2>2. CASE Block
    BY <2>2 DEF Block
  <2> QED
    BY <2>1, <2>2
<1>4. blocked' \in [Conn -> BOOLEAN]
  BY DEF Sleep, Block, page
<1>5. ReadyIsDue'
  BY <1>1, <1>2 DEF ReadyIsDue
<1>6. PagesInTime'
  BY <1>1, <1>2, <1>3 DEF PagesInTime
<1>7. OnlyBlockingLosesPages'
  BY <1>2, <1>3 DEF OnlyBlockingLosesPages
<1>8. OnlyWaitingRead'
  BY <1>2 DEF OnlyWaitingRead
<1> QED
  BY <1>1, <1>2, <1>4, <1>5, <1>6, <1>7, <1>8

-----------------------------------------------------------------------------
(* Theorems.                                                               *)

\* The invariant holds in every state of every run of the loop.
THEOREM ReactorInvariance == Spec => []IInv
<1>1. Init => IInv
  BY DEF Init, IInv, TypeOK, ReadyIsDue, PagesInTime, OnlyWaitingRead,
               OnlyBlockingLosesPages
<1>2. IInv /\ [Next]_vars => IInv'
  <2> SUFFICES ASSUME IInv, [Next]_vars PROVE IInv'
    OBVIOUS
  <2>1. CASE EndPass
    BY <2>1 DEF EndPass, IInv, TypeOK, ReadyIsDue, PagesInTime,
                OnlyWaitingRead, OnlyBlockingLosesPages, page
  <2>2. CASE Unblock
    BY <2>2 DEF Unblock, IInv, TypeOK, ReadyIsDue, PagesInTime,
                OnlyWaitingRead, OnlyBlockingLosesPages, page
  <2>3. CASE UNCHANGED vars
    BY <2>3 DEF vars, IInv, TypeOK, ReadyIsDue, PagesInTime,
                OnlyWaitingRead, OnlyBlockingLosesPages, page
  <2> QED
    BY <2>1, <2>2, <2>3, DownloadKeeps, CancelKeeps, CallbackKeeps, PollKeeps,
       ArrivalKeeps, TimeKeeps DEF Next, Calls
<1> QED
  BY <1>1, <1>2, PTL DEF Spec

\* Every variable of the loop keeps its shape.
THEOREM ReactorTypeCorrect == Spec => []TypeOK
BY ReactorInvariance, PTL DEF IInv

\* No callback, however long it blocks, costs a page that one read can take;
\* and without one that blocks, no page that is in time is lost.
THEOREM PagesAreKept == Spec => []OnlyBlockingLosesPages
BY ReactorInvariance, PTL DEF IInv

\* However often callbacks block the loop, a timed call that is due is run by the
\* next pass: a poll comes between two passes, but no pass between the two.
THEOREM DueCallsAreRun == Spec => TimedCallsAreKept
<1> DEFINE Kept == \A c \in Conn : state[c] # "idle" /\ state'[c] = state[c] =>
                     /\ left'[c] <= left[c]
                     /\ loop = "poll" /\ loop' = "calls" /\ left[c] = 0 => c \in ready'
                     /\ c \in ready => c \in ready' /\ loop' # "poll"
<1>1. IInv /\ [Next]_vars => [Kept]_vars
  <2> SUFFICES ASSUME IInv, [Next]_vars,
                      NEW c \in Conn, state[c] # "idle", state'[c] = state[c]
               PROVE  /\ left'[c] <= left[c]
                      /\ loop = "poll" /\ loop' = "calls" /\ left[c] = 0 => c \in ready'
                      /\ c \in ready => c \in ready' /\ loop' # "poll"
    OBVIOUS
  <2>0. /\ left \in [Conn -> Nat] /\ left[c] \in Nat
        /\ state \in [Conn -> {"idle", "waiting", "answered", "timedOut"}]
        /\ c \in ready => loop # "poll"
    BY DEF IInv, TypeOK, ReadyIsDue
  <2>1. CASE EndPass \/ Unblock \/ UNCHANGED vars
    BY <2>0, <2>1 DEF EndPass, Unblock, vars
  <2>2. ASSUME NEW d \in Conn,
               Download(d) \/ CancelDownload(d) \/ RunCallback(d)
        PROVE  /\ left'[c] = left[c] /\ loop # "poll" /\ loop' # "poll"
               /\ c \in ready => c \in ready'
    <3>1. c # d
      BY <2>0, <2>2 DEF Download, CancelDownload, RunCallback
    <3> QED
      BY <2>0, <2>2, <3>1 DEF Download, CancelDownload, RunCallback
  <2>3. CASE Poll
    <3>1. c \notin {d \in Readable : unread[d] = 1}
      <4> SUFFICES ASSUME c \in {d \in Readable : unread[d] = 1} PROVE FALSE
        OBVIOUS
      <4>1. state'[c] = "answered" /\ state[c] = "answered"
        BY <2>3 DEF Poll
      <4>2. unread[c] > 0
        BY DEF Readable
      <4> QED
        BY <4>1, <4>2 DEF IInv, OnlyWaitingRead
    <3>2. left'[c] = left[c] /\ (left[c] = 0 => c \in ready') /\ loop = "poll"
      BY <2>3, <3>1 DEF Poll, Overdue
    <3> QED
      BY <2>0, <3>2
  <2>4. CASE \E d \in Conn, n \in 1..MaxReads : PageArrives(d, n)
    BY <2>0, <2>4 DEF PageArrives
  <2>5. CASE Sleep \/ Block
    BY <2>0, <2>5 DEF Sleep, Block, Later
  <2> QED
    BY <2>0, <2>1, <2>2, <2>3, <2>4, <2>5 DEF Next, Calls
<1> QED
  BY <1>1, ReactorInvariance, PTL DEF Spec, TimedCallsAreKept
=============================================================================
