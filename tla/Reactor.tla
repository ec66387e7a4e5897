------------------------------- MODULE Reactor -------------------------------
(***************************************************************************)
(* The main loop of the twisted reactor under the downloads of one crawl:  *)
(* a pass over the timed calls that are due, then one poll of the sockets, *)
(* and again.  A download has a timed call that cancels it after           *)
(* DOWNLOAD_TIMEOUT; an ended download has a timed call that runs the      *)
(* spider's callback, which may block the loop on the GraphQL client.      *)
(*                                                                         *)
(* Time passes in ticks, and only while the loop sleeps or a callback      *)
(* blocks.  A page is what the server still has to send when the last of   *)
(* it arrives: some reads of at most 64 KB, of which a poll does one.      *)
(***************************************************************************)
EXTENDS Integers

CONSTANTS
  Conn,      \* places for a request, from its download to its callback
  Timeout,   \* DOWNLOAD_TIMEOUT in ticks
  Delay,     \* of the timed call that runs a callback
  MaxReads   \* the largest page

ASSUME ReactorAssumption ==
  Timeout \in Nat \ {0} /\ Delay \in Nat \ {0} /\ MaxReads \in Nat \ {0}

VARIABLES
  loop,     \* what runs: "calls" of a pass, a callback that "blocks", or "poll"
  state,    \* of the request in each place
  left,     \* ticks until its timed call is due
  ready,    \* the requests whose timed calls this pass still has to run
  unread,   \* reads of the page left in the socket
  reads,    \* reads of the page in all, once it has arrived
  inTime,   \* it arrived before the timeout was due
  blocked   \* a callback has blocked the loop since it arrived

page == <<unread, reads, inTime, blocked>>
vars == <<loop, state, left, ready, page>>

Init ==
  /\ loop = "calls"
  /\ state = [c \in Conn |-> "idle"]
  /\ left = [c \in Conn |-> 0]
  /\ ready = {}
  /\ unread = [c \in Conn |-> 0]
  /\ reads = [c \in Conn |-> 0]
  /\ inTime = [c \in Conn |-> FALSE]
  /\ blocked = [c \in Conn |-> FALSE]

-----------------------------------------------------------------------------
(* runUntilCurrent: one pass over the timed calls.                         *)

\* The engine, run by a timed call itself, starts a download.
Download(c) ==
  /\ loop = "calls" /\ state[c] = "idle"
  /\ state' = [state EXCEPT ![c] = "waiting"]
  /\ left' = [left EXCEPT ![c] = Timeout]
  /\ reads' = [reads EXCEPT ![c] = 0]
  /\ inTime' = [inTime EXCEPT ![c] = FALSE]
  /\ blocked' = [blocked EXCEPT ![c] = FALSE]
  /\ UNCHANGED <<loop, ready, unread>>

\* d.cancel: what is in the socket is lost; the errback is a timed call to be.
CancelDownload(c) ==
  /\ loop = "calls" /\ c \in ready /\ state[c] = "waiting"
  /\ state' = [state EXCEPT ![c] = "timedOut"]
  /\ left' = [left EXCEPT ![c] = Delay]
  /\ ready' = ready \ {c}
  /\ unread' = [unread EXCEPT ![c] = 0]
  /\ UNCHANGED <<loop, reads, inTime, blocked>>

\* The callback runs, and may block on the cache; an errback does not.
RunCallback(c) ==
  /\ loop = "calls" /\ c \in ready /\ state[c] \in {"answered", "timedOut"}
  /\ loop' \in IF state[c] = "answered" THEN {"calls", "blocks"} ELSE {"calls"}
  /\ state' = [state EXCEPT ![c] = "idle"]
  /\ ready' = ready \ {c}
  /\ UNCHANGED <<left, page>>

Unblock == loop = "blocks" /\ loop' = "calls" /\ UNCHANGED <<state, left, ready, page>>

EndPass ==
  /\ loop = "calls" /\ ready = {} /\ loop' = "poll"
  /\ UNCHANGED <<state, left, ready, page>>

-----------------------------------------------------------------------------
(* doIteration: sleep until a socket is readable or a timed call is due,   *)
(* the heartbeat of the engine among them, then do one read from each      *)
(* readable socket.                                                        *)

Readable == {c \in Conn : unread[c] > 0}

\* Mutant: the timed call that cancels a download is not made.
OverdueUntimed == {c \in Conn : state[c] \in {"answered", "timedOut"} /\ left[c] = 0}

\* The requests whose timed call is due.
Overdue == {c \in Conn : state[c] # "idle" /\ left[c] = 0}

\* Mutant: timed calls that are due are run before the sockets are read.
PollLast ==
  /\ loop = "poll" /\ loop' = "calls"
  /\ LET done == {c \in Readable : unread[c] = 1}
     IN  /\ state' = [c \in Conn |-> IF c \in done \ Overdue THEN "answered" ELSE state[c]]
         /\ left' = [c \in Conn |-> IF c \in done \ Overdue THEN Delay ELSE left[c]]
  /\ unread' = [c \in Conn |-> IF c \in Readable \ Overdue THEN unread[c] - 1
                                                          ELSE unread[c]]
  /\ ready' = Overdue
  /\ UNCHANGED <<reads, inTime, blocked>>

\* A page read in full ends the download and cancels its timeout.  Then the
\* next pass begins: it takes the time once, and runs what is due by then.
Poll ==
  /\ loop = "poll" /\ loop' = "calls"
  /\ LET done == {c \in Readable : unread[c] = 1}
     IN  /\ state' = [c \in Conn |-> IF c \in done THEN "answered" ELSE state[c]]
         /\ left' = [c \in Conn |-> IF c \in done THEN Delay ELSE left[c]]
         /\ ready' = Overdue \ done
  /\ unread' = [c \in Conn |-> IF c \in Readable THEN unread[c] - 1 ELSE 0]
  /\ UNCHANGED <<reads, inTime, blocked>>

-----------------------------------------------------------------------------
(* The world outside.                                                      *)

\* The last of a page arrives in the socket, whatever the loop is doing.
PageArrives(c, n) ==
  /\ state[c] = "waiting" /\ unread[c] = 0
  /\ unread' = [unread EXCEPT ![c] = n]
  /\ reads' = [reads EXCEPT ![c] = n]
  /\ inTime' = [inTime EXCEPT ![c] = left[c] > 0]
  /\ UNCHANGED <<loop, state, left, ready, blocked>>

\* Mutant: a timed call that is overdue goes on counting.
LaterBelowZero == left' = [c \in Conn |-> left[c] - 1]

Later == left' = [c \in Conn |-> IF left[c] > 0 THEN left[c] - 1 ELSE 0]

\* Time passes while the loop sleeps in a poll.
Sleep ==
  /\ loop = "poll" /\ Readable = {} /\ Overdue = {}
  /\ Later
  /\ UNCHANGED <<loop, state, ready, page>>

\* Mutant: the time is read again for every timed call of a pass.
BlockSeen ==
  /\ loop = "blocks"
  /\ Later
  /\ blocked' = [c \in Conn |-> blocked[c] \/ unread[c] > 0]
  /\ ready' = ready \cup {c \in Conn : state[c] # "idle" /\ left[c] <= 1}
  /\ UNCHANGED <<loop, state, unread, reads, inTime>>

\* Time passes while a callback waits for the cache.
Block ==
  /\ loop = "blocks"
  /\ Later
  /\ blocked' = [c \in Conn |-> blocked[c] \/ unread[c] > 0]
  /\ UNCHANGED <<loop, state, ready, unread, reads, inTime>>

-----------------------------------------------------------------------------
Calls == EndPass \/ \E c \in Conn : CancelDownload(c) \/ RunCallback(c)

Next ==
  \/ Calls \/ Unblock \/ Poll \/ Sleep \/ Block
  \/ \E c \in Conn : Download(c) \/ \E n \in 1..MaxReads : PageArrives(c, n)

Spec == Init /\ [][Next]_vars

(***************************************************************************)
(* Fairness.  The loop goes on, and the cache answers a call some time     *)
(* (CarCrawl has the calls it never answers).  Polls may come back for a   *)
(* heartbeat for ever, but those are 5 seconds apart: time passes.         *)
(* Nothing is assumed of servers: a page may never arrive.                 *)
(***************************************************************************)
FairSpec ==
  Spec /\ WF_vars(Calls) /\ WF_vars(Poll) /\ SF_vars(Sleep) /\ WF_vars(Unblock)

-----------------------------------------------------------------------------
(* Properties.                                                             *)

TypeOK ==
  /\ loop \in {"calls", "blocks", "poll"}
  /\ state \in [Conn -> {"idle", "waiting", "answered", "timedOut"}]
  /\ left \in [Conn -> Nat]
  /\ ready \subseteq Conn
  /\ unread \in [Conn -> 0..MaxReads]
  /\ reads \in [Conn -> 0..MaxReads]
  /\ inTime \in [Conn -> BOOLEAN]
  /\ blocked \in [Conn -> BOOLEAN]

\* A page that is in the socket before its timeout is due is given up only when
\* it takes several reads and the cache has blocked the loop since: whatever
\* time a callback takes, a poll comes before the timeouts it has made due.
OnlyBlockingLosesPages ==
  \A c \in Conn : state[c] = "timedOut" /\ inTime[c] => reads[c] > 1 /\ blocked[c]

\* A timed call is never put off: nothing adds to the time that is left to it, the
\* first pass that begins when it is due takes it on, unless the poll before has
\* cancelled it, and the loop does not poll again before the pass has run it,
\* whichever callbacks block meanwhile.
TimedCallsAreKept ==
  [][\A c \in Conn : state[c] # "idle" /\ state'[c] = state[c] =>
       /\ left'[c] <= left[c]
       /\ loop = "poll" /\ loop' = "calls" /\ left[c] = 0 => c \in ready'
       /\ c \in ready => c \in ready' /\ loop' # "poll"]_vars

\* Every download comes to an end, whatever the server does and however often
\* callbacks block the loop, as long as the cache answers each of them.
DownloadsEnd ==
  \A c \in Conn : (state[c] = "waiting") ~> (state[c] # "waiting")

=============================================================================
