----------------------------- MODULE GqlClient ------------------------------
(***************************************************************************)
(* utils/prisma_gql.py over gql.Client: the blocking calls the spiders     *)
(* make to the GraphQL service that keeps the cars.                        *)
(*                                                                         *)
(* A call is sent, and sent again when the attempt ends in an exception,   *)
(* at most Retries times in all; a reply that carries errors is raised at  *)
(* once.  The transport has no timeout.  A request whose attempt has ended *)
(* in an exception may still reach the service, even after the call has    *)
(* raised: a gateway that gives up does not recall it.  The service holds  *)
(* one car per url and refuses a second createCar; it may also reply with  *)
(* errors to any request, having acted on it or not (external, as the      *)
(* spider and the tests of prisma_gql.py use it).                          *)
(***************************************************************************)
EXTENDS Integers, FiniteSets

CONSTANTS
  Client,   \* GqlClients, one per crawl
  Url,      \* urls of ads
  Value,    \* what else a car says
  Retries,  \* the retries=3 of GqlClient.__init__
  MaxCalls, \* bound on the calls of a client
  None

Call == Client \X (1..MaxCalls)

\* put has a value, get has None.
Query == [op : {"put"}, url : Url, value : Value] \cup [op : {"get"}, url : Url, value : {None}]

\* One attempt of a call, on its way to the service.
Request == [call : Call, try : 0..(Retries - 1), query : Query]

\* What the service replies: the car made or found, or errors, which the client
\* raises.  A call ends in one of these ways too; its callers do not tell one
\* exception from another.
Reply == [kind : {"created", "raised"}, value : {None}]
         \cup [kind : {"car"}, value : Value \cup {None}]

\* A car as its callers know it.
Row == [url : Url, value : Value]

ASSUME GqlClientAssumption ==
  /\ Retries \in Nat \ {0}
  /\ MaxCalls \in Nat
  /\ None \notin Value /\ None \notin Query /\ None \notin Request /\ None \notin Reply
  /\ None \notin Row

VARIABLES
  calls,    \* how many calls each client has made
  waiting,  \* the attempt each client waits for, or None
  reply,    \* the reply on its way back to each client, or None
  wire,     \* the requests the service may yet act on
  cars,     \* the service's cars
  asked,    \* the query of each call, or None
  had,      \* the car of the call's url when the call began
  outcome   \* how each call ended, or None

vars == <<calls, waiting, reply, wire, cars, asked, had, outcome>>

Init ==
  /\ calls = [c \in Client |-> 0]
  /\ waiting = [c \in Client |-> None]
  /\ reply = [c \in Client |-> None]
  /\ wire = {}
  /\ cars = [u \in Url |-> None]
  /\ asked = [k \in Call |-> None]
  /\ had = [k \in Call |-> None]
  /\ outcome = [k \in Call |-> None]

-----------------------------------------------------------------------------
(* The client.                                                             *)

Begin(c, q) ==
  LET k == <<c, calls[c] + 1>>
  IN  /\ calls[c] < MaxCalls /\ waiting[c] = None
      /\ calls' = [calls EXCEPT ![c] = @ + 1]
      /\ asked' = [asked EXCEPT ![k] = q]
      /\ had' = [had EXCEPT ![k] = cars[q.url]]
      /\ UNCHANGED <<reply, cars>>

\* execute: the document is valid against the schema and is sent.
Execute(c, q) ==
  LET r == [call |-> <<c, calls[c] + 1>>, try |-> 0, query |-> q]
  IN  /\ Begin(c, q)
      /\ waiting' = [waiting EXCEPT ![c] = r]
      /\ wire' = wire \cup {r}
      /\ UNCHANGED outcome

\* gql() cannot parse the text, for a quote in a field say, or validate raises.
Invalid(c, q) ==
  /\ Begin(c, q)
  /\ outcome' = [outcome EXCEPT ![<<c, calls[c] + 1>>] = [kind |-> "raised", value |-> None]]
  /\ UNCHANGED <<waiting, wire>>

\* Mutant: the connection is used again and the next call reads the old reply.
ReturnKeepsReply(c, out) ==
  /\ outcome' = [outcome EXCEPT ![waiting[c].call] = out]
  /\ waiting' = [waiting EXCEPT ![c] = None]
  /\ UNCHANGED reply

\* The call is over and its client can make another.
Return(c, out) ==
  /\ outcome' = [outcome EXCEPT ![waiting[c].call] = out]
  /\ waiting' = [waiting EXCEPT ![c] = None]
  /\ reply' = [reply EXCEPT ![c] = None]

\* The attempt returns a result: the data is returned, the errors are raised.
ResultArrives(c) ==
  /\ waiting[c] # None /\ reply[c] # None
  /\ Return(c, reply[c])
  /\ UNCHANGED <<calls, wire, cars, asked, had>>

\* Mutant: when the attempts are used up the last one is taken for a success.
AttemptFailsQuietly(c) ==
  LET r == waiting[c]
      next == [r EXCEPT !.try = @ + 1]
  IN  /\ r # None
      /\ IF next.try < Retries
         THEN /\ waiting' = [waiting EXCEPT ![c] = next]
              /\ reply' = [reply EXCEPT ![c] = None]
              /\ wire' \in {wire \cup {next}, (wire \ {r}) \cup {next}}
              /\ UNCHANGED outcome
         ELSE /\ Return(c, IF r.query.op = "put" THEN [kind |-> "created", value |-> None]
                                                 ELSE [kind |-> "car", value |-> None])
              /\ wire' \in {wire, wire \ {r}}
      /\ UNCHANGED <<calls, cars, asked, had>>

\* Mutant: one attempt more than retries.
AttemptFailsOnceMore(c) ==
  LET next == [waiting[c] EXCEPT !.try = @ + 1]
  IN  /\ waiting[c] # None /\ next.try <= Retries
      /\ waiting' = [waiting EXCEPT ![c] = next]
      /\ reply' = [reply EXCEPT ![c] = None]
      /\ wire' = wire \cup {next}
      /\ UNCHANGED <<calls, cars, asked, had, outcome>>

\* The attempt raises, before or after the service got the request: _get_result
\* makes another one, or raises RetryError when retries_count reaches retries.
AttemptFails(c) ==
  LET r == waiting[c]
      next == [r EXCEPT !.try = @ + 1]
  IN  /\ r # None
      /\ IF next.try < Retries
         THEN /\ waiting' = [waiting EXCEPT ![c] = next]
              /\ reply' = [reply EXCEPT ![c] = None]
              /\ wire' \in {wire \cup {next}, (wire \ {r}) \cup {next}}
              /\ UNCHANGED outcome
         ELSE /\ Return(c, [kind |-> "raised", value |-> None])
              /\ wire' \in {wire, wire \ {r}}
      /\ UNCHANGED <<calls, cars, asked, had>>

-----------------------------------------------------------------------------
(* The service.                                                            *)

\* Mutant: createCar replaces the car it finds for the url.
CreatesAgain(q) == q.op = "put"

\* createCar makes a car for a url that has none.
Creates(q) == q.op = "put" /\ cars[q.url] = None

\* What the service may reply: the car made or found, or errors.  It refuses a
\* second car of a url with errors, but a put or a get may meet with errors of
\* any other kind just as well.
Answers(q) ==
  [kind : {"raised"}, value : {None}]
  \cup (IF Creates(q) THEN [kind : {"created"}, value : {None}] ELSE {})
  \cup (IF q.op = "get" THEN [kind : {"car"}, value : {cars[q.url]}] ELSE {})

\* The service acts on a request, or fails on it before or after it has made the
\* car; only the attempt that sent it sees the reply.
Serve(r) ==
  \E answer \in Answers(r.query) :
    /\ wire' = wire \ {r}
    /\ \/ /\ Creates(r.query)
          /\ cars' = [cars EXCEPT ![r.query.url] = r.query.value]
       \/ answer.kind # "created" /\ UNCHANGED cars
    /\ reply' = IF waiting[r.call[1]] = r
                THEN [reply EXCEPT ![r.call[1]] = answer] ELSE reply
    /\ UNCHANGED <<calls, waiting, asked, had, outcome>>

-----------------------------------------------------------------------------
Next ==
  \/ \E c \in Client :
       \/ \E q \in Query : Execute(c, q) \/ Invalid(c, q)
       \/ ResultArrives(c) \/ AttemptFails(c)
  \/ \E r \in wire : Serve(r)

Spec == Init /\ [][Next]_vars

-----------------------------------------------------------------------------
(* Properties.                                                             *)

\* The shape of the calls: a client waits for an attempt of its latest call.
TypeOK ==
  /\ calls \in [Client -> 0..MaxCalls]
  /\ waiting \in [Client -> Request \cup {None}]
  /\ \A c \in Client : waiting[c] # None => waiting[c].call = <<c, calls[c]>>
  /\ reply \in [Client -> Reply \cup {None}]
  /\ wire \subseteq Request
  /\ cars \in [Url -> Value \cup {None}]
  /\ asked \in [Call -> Query \cup {None}]
  /\ had \in [Call -> Value \cup {None}]
  /\ outcome \in [Call -> Reply \cup {None}]

Ended(k, kind) == outcome[k] # None /\ outcome[k].kind = kind

\* A put that returns has made the car, as it was put, and it is still there,
\* whatever requests of this or other calls reach the service late.
AcknowledgedPutIsStored ==
  \A k \in Call : Ended(k, "created") => cars[asked[k].url] = asked[k].value

\* For a url at most one put ever returns: of two crawls that value a car at
\* the same time at least one loses it, and so may both.
OnePutReturns ==
  \A k, l \in Call :
    Ended(k, "created") /\ Ended(l, "created") /\ asked[k].url = asked[l].url => k = l

\* A get never misses a car that was there when it was called, and returns
\* what the service still holds, never the reply to an earlier attempt or call.
GetIsCurrent ==
  \A k \in Call : Ended(k, "car") =>
    LET found == outcome[k].value
    IN  IF found = None THEN had[k] = None ELSE found = cars[asked[k].url]

\* The store as Valuations has it, and what the call k has learnt of it: the car
\* it made or the car it found.
RowOf(u) == IF cars[u] = None THEN None ELSE [url |-> u, value |-> cars[u]]

Learnt(k) ==
  IF Ended(k, "created") THEN [url |-> asked[k].url, value |-> asked[k].value]
  ELSE IF Ended(k, "car") /\ outcome[k].value # None
       THEN [url |-> asked[k].url, value |-> outcome[k].value]
  ELSE None

\* A client never unlearns a car: once one of its puts has returned, or one of its
\* gets has found a car, every later get of that url returns this very car, in
\* spite of other clients' puts and of replies and requests that are late.
LearntIsFoundAgain ==
  \A k, l \in Call :
    /\ k[1] = l[1] /\ k[2] < l[2]
    /\ Learnt(k) # None /\ Ended(l, "car") /\ asked[l].url = asked[k].url
    => outcome[l].value = Learnt(k).value

Valuation == INSTANCE Valuations WITH
  Ad <- Url, Row <- Row, Reader <- Call,
  store <- [u \in Url |-> RowOf(u)], report <- [k \in Call |-> Learnt(k)]

\* Through lost replies, repeated attempts and late requests, the client and the
\* service together are the write-once store that CarCrawl takes them for: a
\* car is made once, and what a call returns is in the store when it returns.
CallsAreOfOneStore == Valuation!Spec
=============================================================================
