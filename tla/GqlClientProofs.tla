--------------------------- MODULE GqlClientProofs --------------------------
(***************************************************************************)
(* What a call to the GraphQL service may conclude from how it ended, for  *)
(* every number of clients, calls and retries.                             *)
(***************************************************************************)
EXTENDS GqlClient, TLAPS

USE GqlClientAssumption

\* What the outcome or the reply of call k says of the service's cars.
Holds(k, out) ==
  /\ out.kind = "created" => cars[asked[k].url] = asked[k].value /\ asked[k].value # None
  /\ out.kind = "car" => IF out.value = None THEN had[k] = None
                                             ELSE out.value = cars[asked[k].url]

\* A client waits for a call that has not ended, and only then has a reply.
WaitingIsOpen ==
  \A c \in Client :
    /\ waiting[c] # None => /\ asked[waiting[c].call] = waiting[c].query
                            /\ outcome[waiting[c].call] = None
    /\ reply[c] # None => waiting[c] # None

\* Calls yet to come are blank.
FutureIsBlank ==
  \A k \in Call : k[2] > calls[k[1]] => outcome[k] = None /\ had[k] = None

\* The car a call began with is still there.
HadIsThere ==
  \A k \in Call : had[k] # None => asked[k] # None /\ cars[asked[k].url] = had[k]

RepliesHold == \A c \in Client : reply[c] # None => Holds(waiting[c].call, reply[c])

OutcomesHold ==
  \A k \in Call : outcome[k] # None => asked[k] # None /\ Holds(k, outcome[k])

\* The call has made the car of its url, as far as its client can know.
Made(k) ==
  \/ Ended(k, "created")
  \/ \E c \in Client : /\ reply[c] # None /\ reply[c].kind = "created"
                       /\ waiting[c].call = k

OneMakes ==
  \A k, l \in Call : Made(k) /\ Made(l) /\ asked[k].url = asked[l].url => k = l

GInv ==
  /\ TypeOK
  /\ WaitingIsOpen
  /\ FutureIsBlank
  /\ HadIsThere
  /\ RepliesHold
  /\ OutcomesHold
  /\ OneMakes

\* The queries have urls, and the service's cars are only ever added to.
LEMMA CarsGrow ==
  ASSUME GInv, NEW r \in wire, Serve(r)
  PROVE  \A u \in Url : cars[u] # None => cars'[u] = cars[u]
<1>1. r.query \in Query /\ r.query.url \in Url
  BY DEF GInv, TypeOK, Request, Query
<1> QED
  BY <1>1 DEF Serve, Creates, GInv, TypeOK

LEMMA BeginStep ==
  ASSUME GInv, NEW c \in Client, NEW q \in Query, Begin(c, q),
         \/ /\ waiting' = [waiting EXCEPT ![c] =
                             [call |-> <<c, calls[c] + 1>>, try |-> 0, query |-> q]]
            /\ wire' = wire \cup {[call |-> <<c, calls[c] + 1>>, try |-> 0, query |-> q]}
            /\ outcome' = outcome
         \/ /\ outcome' = [outcome EXCEPT ![<<c, calls[c] + 1>>] =
                             [kind |-> "raised", value |-> None]]
            /\ UNCHANGED <<waiting, wire>>
  PROVE  GInv'
<1> PICK k : k = <<c, calls[c] + 1>>
  OBVIOUS
<1> DEFINE r == [call |-> k, try |-> 0, query |-> q]
<1>1. /\ k \in Call /\ k[1] = c /\ k[2] = calls[c] + 1 /\ calls[c] + 1 \in 0..MaxCalls
      /\ outcome[k] = None /\ had[k] = None /\ waiting[c] = None /\ reply[c] = None
  BY DEF Begin, Call, GInv, TypeOK, FutureIsBlank, WaitingIsOpen
<1>2. r \in Request /\ q.url \in Url /\ cars[q.url] \in Value \cup {None}
  BY <1>1 DEF Request, Query, GInv, TypeOK
<1>3. calls' = [calls EXCEPT ![c] = calls[c] + 1] /\ asked' = [asked EXCEPT ![k] = q]
      /\ had' = [had EXCEPT ![k] = cars[q.url]] /\ reply' = reply /\ cars' = cars
  BY DEF Begin
<1>4. \A d \in Client : d # c => waiting'[d] = waiting[d] /\ reply'[d] = reply[d]
  BY <1>3 DEF GInv, TypeOK
<1>5. \A d \in Client : waiting[d] # None => waiting[d].call # k /\ waiting[d].call \in Call
  BY <1>1 DEF GInv, TypeOK, Request
<1>6. \A l \in Call : l # k => /\ asked'[l] = asked[l] /\ had'[l] = had[l]
                               /\ outcome'[l] = outcome[l]
  BY <1>3 DEF GInv, TypeOK
<1> HIDE DEF r
<1>7. TypeOK'
  <2>1. waiting' \in [Client -> Request \cup {None}]
        /\ \A d \in Client : waiting'[d] # None => waiting'[d].call = <<d, calls'[d]>>
    <3>1. CASE waiting' = [waiting EXCEPT ![c] = r]
      BY <1>1, <1>2, <1>3, <3>1 DEF GInv, TypeOK, r
    <3>2. CASE waiting' = waiting
      BY <1>1, <1>3, <3>2 DEF GInv, TypeOK
    <3> QED
      BY <3>1, <3>2 DEF r
  <2>2. wire' \subseteq Request
    BY <1>2 DEF GInv, TypeOK, r
  <2>3. outcome' \in [Call -> Reply \cup {None}]
    <3>1. [kind |-> "raised", value |-> None] \in Reply
      BY DEF Reply
    <3> QED
      BY <1>1, <3>1 DEF GInv, TypeOK
  <2> QED
    BY <1>1, <1>2, <1>3, <2>1, <2>2, <2>3 DEF GInv, TypeOK
<1>8. WaitingIsOpen'
  <2>1. ASSUME NEW d \in Client, waiting'[d] # None
        PROVE  asked'[waiting'[d].call] = waiting'[d].query /\ outcome'[waiting'[d].call] = None
    <3>1. CASE waiting[d] # None
      BY <1>1, <1>4, <1>5, <1>6, <2>1, <3>1 DEF GInv, WaitingIsOpen
    <3>2. CASE waiting[d] = None
      <4>1. d = c /\ waiting' # waiting
        BY <1>4, <2>1, <3>2
      <4>2. waiting' = [waiting EXCEPT ![c] = r] /\ outcome' = outcome
        BY <4>1 DEF r
      <4>3. waiting'[c] = r
        BY <4>2 DEF GInv, TypeOK
      <4> QED
        BY <1>1, <1>3, <4>1, <4>2, <4>3 DEF GInv, TypeOK, r
    <3> QED
      BY <3>1, <3>2
  <2>2. ASSUME NEW d \in Client, reply'[d] # None
        PROVE  waiting'[d] # None
    BY <1>1, <1>3, <1>4, <2>2 DEF GInv, WaitingIsOpen
  <2> QED
    BY <2>1, <2>2 DEF WaitingIsOpen
<1>9. FutureIsBlank'
  <2> SUFFICES ASSUME NEW l \in Call, l[2] > calls'[l[1]]
               PROVE  outcome'[l] = None /\ had'[l] = None
    BY DEF FutureIsBlank
  <2>1. l[1] \in Client /\ l[2] \in Int
    BY DEF Call
  <2>2. l # k /\ l[2] > calls[l[1]]
    BY <1>1, <1>3, <2>1 DEF GInv, TypeOK
  <2> QED
    BY <1>6, <2>2 DEF GInv, FutureIsBlank
<1>10. HadIsThere'
  <2>1. had'[k] # None => asked'[k] # None /\ cars'[asked'[k].url] = had'[k]
    <3>1. asked'[k] = q /\ had'[k] = cars[q.url]
      BY <1>1, <1>3 DEF GInv, TypeOK
    <3>2. q # None
      OBVIOUS
    <3> QED
      BY <1>3, <3>1, <3>2
  <2> QED
    BY <1>3, <1>6, <2>1 DEF GInv, HadIsThere
<1>11. RepliesHold'
  <2> SUFFICES ASSUME NEW d \in Client, reply'[d] # None
               PROVE  Holds(waiting[d].call, reply[d])'
    BY DEF RepliesHold
  <2>1. d # c /\ reply'[d] = reply[d] /\ waiting'[d] = waiting[d]
    BY <1>1, <1>3, <1>4
  <2>2. waiting[d].call \in Call /\ waiting[d].call # k /\ Holds(waiting[d].call, reply[d])
    BY <1>5, <2>1 DEF GInv, RepliesHold, WaitingIsOpen
  <2> QED
    BY <1>3, <1>6, <2>1, <2>2 DEF Holds
<1>12. OutcomesHold'
  <2>1. asked'[k] = q /\ q # None
    BY <1>1, <1>3 DEF GInv, TypeOK
  <2>2. outcome'[k] = None \/ outcome'[k] = [kind |-> "raised", value |-> None]
    BY <1>1 DEF GInv, TypeOK
  <2>3. outcome'[k] # None => Holds(k, outcome[k])'
    BY <2>2 DEF Holds
  <2>4. \A l \in Call : l # k /\ outcome'[l] # None => asked'[l] # None /\ Holds(l, outcome[l])'
    BY <1>3, <1>6 DEF GInv, OutcomesHold, Holds
  <2> QED
    BY <2>1, <2>3, <2>4 DEF OutcomesHold
<1>13. OneMakes'
  <2>1. \A l \in Call : Made(l)' => l # k /\ Made(l)
    <3>1. \A d \in Client : reply'[d] # None => d # c
      BY <1>1, <1>3
    <3>2. \A d \in Client : reply'[d] # None => waiting'[d] = waiting[d] /\ reply'[d] = reply[d]
                                                /\ waiting[d].call # k
      BY <1>4, <1>5, <3>1 DEF GInv, WaitingIsOpen
    <3>3. outcome'[k] = None \/ outcome'[k] = [kind |-> "raised", value |-> None]
      BY <1>1 DEF GInv, TypeOK
    <3>4. outcome'[k] = None \/ outcome'[k].kind # "created"
      BY <3>3
    <3>5. ASSUME NEW l \in Call, Made(l)'
          PROVE  l # k /\ Made(l)
      <4>1. CASE Ended(l, "created")'
        BY <1>6, <3>4, <3>5, <4>1 DEF Made, Ended
      <4>2. CASE \E d \in Client : /\ reply'[d] # None /\ reply'[d].kind = "created"
                                  /\ waiting'[d].call = l
        BY <3>2, <4>2 DEF Made
      <4> QED
        BY <3>5, <4>1, <4>2 DEF Made
    <3> QED
      BY <3>5
  <2> QED
    BY <1>6, <2>1 DEF GInv, OneMakes
<1> QED
  BY <1>7, <1>8, <1>9, <1>10, <1>11, <1>12, <1>13 DEF GInv

\* A call ends with what its client may conclude.
LEMMA ReturnStep ==
  ASSUME GInv, NEW c \in Client, NEW out \in Reply, waiting[c] # None,
         Return(c, out), wire' \subseteq wire, UNCHANGED <<calls, cars, asked, had>>,
         Holds(waiting[c].call, out), out.kind = "created" => reply[c] = out
  PROVE  GInv'
<1> PICK k : k = waiting[c].call
  OBVIOUS
<1>1. k \in Call /\ asked[k] = waiting[c].query /\ asked[k] # None /\ outcome[k] = None
      /\ k = <<c, calls[c]>>
  BY DEF GInv, TypeOK, WaitingIsOpen, Request
<1>2. /\ outcome' = [outcome EXCEPT ![k] = out] /\ waiting' = [waiting EXCEPT ![c] = None]
      /\ reply' = [reply EXCEPT ![c] = None]
  BY DEF Return
<1>3. \A d \in Client : d # c => waiting'[d] = waiting[d] /\ reply'[d] = reply[d]
  BY <1>2 DEF GInv, TypeOK
<1>4. waiting'[c] = None /\ reply'[c] = None /\ outcome'[k] = out
  BY <1>1, <1>2 DEF GInv, TypeOK
<1>5. \A l \in Call : l # k => outcome'[l] = outcome[l]
  BY <1>2 DEF GInv, TypeOK
<1>6. \A d \in Client : d # c /\ waiting[d] # None => waiting[d].call \in Call /\ waiting[d].call # k
  BY <1>1 DEF GInv, TypeOK, Request
<1>7. TypeOK'
  BY <1>1, <1>2, <1>3, <1>4 DEF GInv, TypeOK
<1>8. WaitingIsOpen'
  BY <1>3, <1>4, <1>5, <1>6 DEF GInv, WaitingIsOpen
<1>9. FutureIsBlank'
  <2> SUFFICES ASSUME NEW l \in Call, l[2] > calls[l[1]]
               PROVE  outcome'[l] = None /\ had'[l] = None
    BY DEF FutureIsBlank
  <2>1. l # k
    BY <1>1 DEF GInv, TypeOK
  <2> QED
    BY <1>5, <2>1 DEF GInv, FutureIsBlank
<1>10. HadIsThere'
  BY DEF GInv, HadIsThere
<1>11. \A l \in Call : \A o : Holds(l, o) <=> Holds(l, o)'
  BY DEF Holds
<1>12. RepliesHold'
  BY <1>3, <1>4, <1>6, <1>11 DEF GInv, RepliesHold, WaitingIsOpen
<1>13. OutcomesHold'
  BY <1>1, <1>4, <1>5, <1>11 DEF GInv, OutcomesHold
<1>14. OneMakes'
  <2>1. ASSUME NEW l \in Call, Made(l)'
        PROVE  Made(l)
    <3>1. CASE l = k /\ outcome'[l] # None /\ outcome'[l].kind = "created"
      BY <1>1, <1>4, <3>1 DEF Made, GInv, TypeOK, OutcomesHold
    <3>2. CASE l # k /\ outcome'[l] # None /\ outcome'[l].kind = "created"
      BY <1>5, <3>2 DEF Made, Ended
    <3>3. CASE \E d \in Client : /\ reply'[d] # None /\ reply'[d].kind = "created"
                                /\ waiting'[d].call = l
      BY <1>3, <1>4, <3>3 DEF Made
    <3> QED
      BY <2>1, <3>1, <3>2, <3>3 DEF Made, Ended
  <2> QED
    BY <2>1 DEF GInv, OneMakes
<1> QED
  BY <1>7, <1>8, <1>9, <1>10, <1>12, <1>13, <1>14 DEF GInv

\* The same call is attempted again; what was sent before may still arrive.
LEMMA RetryStep ==
  ASSUME GInv, NEW c \in Client, NEW next \in Request, waiting[c] # None,
         next.call = waiting[c].call, next.query = waiting[c].query,
         waiting' = [waiting EXCEPT ![c] = next], reply' = [reply EXCEPT ![c] = None],
         wire' \subseteq wire \cup {next}, UNCHANGED <<calls, cars, asked, had, outcome>>
  PROVE  GInv'
<1>1. \A d \in Client : d # c => waiting'[d] = waiting[d] /\ reply'[d] = reply[d]
  BY DEF GInv, TypeOK
<1>2. waiting'[c] = next /\ reply'[c] = None
  BY DEF GInv, TypeOK
<1>3. TypeOK'
  BY <1>1, <1>2 DEF GInv, TypeOK
<1>4. WaitingIsOpen'
  BY <1>1, <1>2 DEF GInv, WaitingIsOpen
<1>5. FutureIsBlank' /\ HadIsThere' /\ OutcomesHold'
  BY DEF GInv, FutureIsBlank, HadIsThere, OutcomesHold, Holds
<1>6. RepliesHold'
  BY <1>1, <1>2 DEF GInv, RepliesHold, Holds
<1>7. OneMakes'
  <2>1. \A l \in Call : Made(l)' => Made(l)
    BY <1>1, <1>2 DEF Made, Ended
  <2> QED
    BY <2>1 DEF GInv, OneMakes
<1> QED
  BY <1>3, <1>4, <1>5, <1>6, <1>7 DEF GInv

\* The service makes, refuses or finds a car, and may be heard of it.
LEMMA ServeStep ==
  ASSUME GInv, NEW r \in wire, Serve(r)
  PROVE  GInv'
<1> DEFINE q == r.query
           c == r.call[1]
<1> PICK a \in Answers(q) :
      /\ wire' = wire \ {r}
      /\ \/ Creates(q) /\ cars' = [cars EXCEPT ![q.url] = q.value]
         \/ a.kind # "created" /\ UNCHANGED cars
      /\ reply' = IF waiting[c] = r THEN [reply EXCEPT ![c] = a] ELSE reply
      /\ UNCHANGED <<calls, waiting, asked, had, outcome>>
  BY DEF Serve
<1>1. /\ r \in Request /\ q \in Query /\ q.url \in Url /\ c \in Client
      /\ q.op = "put" => q.value \in Value
  BY DEF GInv, TypeOK, Request, Query, Call
<1>2. /\ a \in Reply /\ a # None
      /\ a.kind = "created" => Creates(q)
      /\ a.kind = "car" => q.op = "get" /\ a.value = cars[q.url]
      /\ a.kind \in {"created", "raised", "car"}
  <2>1. a \in Reply
    BY <1>1 DEF Answers, Reply, GInv, TypeOK
  <2>2. a # None
    BY <2>1 DEF Reply
  <2> QED
    BY <1>1, <2>1, <2>2 DEF Answers
<1>3. /\ \/ Creates(q) /\ cars' = [cars EXCEPT ![q.url] = q.value]
         \/ a.kind # "created" /\ cars' = cars
      /\ Creates(q) => q.op = "put" /\ cars[q.url] = None
      /\ reply' = IF waiting[c] = r THEN [reply EXCEPT ![c] = a] ELSE reply
      /\ wire' = wire \ {r}
      /\ UNCHANGED <<calls, waiting, asked, had, outcome>>
  BY DEF Creates
<1>4. \A u \in Url : cars[u] # None => cars'[u] = cars[u]
  BY CarsGrow
<1>5. \A k \in Call : asked[k] # None => asked[k].url \in Url
  BY DEF GInv, TypeOK, Query
<1>6. \A k \in Call : \A out : asked[k] # None /\ Holds(k, out) => Holds(k, out)'
  BY <1>3, <1>4, <1>5 DEF Holds
<1>7. TypeOK'
  <2>1. cars' \in [Url -> Value \cup {None}]
    BY <1>1, <1>2, <1>3 DEF GInv, TypeOK
  <2>2. reply' \in [Client -> Reply \cup {None}]
    BY <1>1, <1>2, <1>3 DEF GInv, TypeOK
  <2>3. wire' \subseteq Request
    BY <1>3 DEF GInv, TypeOK
  <2> QED
    BY <1>3, <2>1, <2>2, <2>3 DEF GInv, TypeOK
<1>8. \A d \in Client : reply'[d] = reply[d] \/ (waiting[d] = r /\ reply'[d] = a)
  BY <1>3 DEF GInv, TypeOK
<1>9. waiting[c] = r => /\ asked[r.call] = q /\ asked[r.call] # None /\ r.call \in Call
                        /\ outcome[r.call] = None
  BY <1>1 DEF GInv, WaitingIsOpen, Request
<1>10. WaitingIsOpen'
  BY <1>1, <1>3, <1>8 DEF GInv, WaitingIsOpen
<1>11. FutureIsBlank'
  BY <1>3 DEF GInv, FutureIsBlank
<1>12. HadIsThere'
  BY <1>3, <1>4, <1>5 DEF GInv, HadIsThere
<1>13. OutcomesHold'
  BY <1>3, <1>6 DEF GInv, OutcomesHold
<1>14. \A d \in Client : waiting[d] # None => waiting[d].call \in Call
                                             /\ asked[waiting[d].call] # None
                                             /\ waiting[d].call[1] = d
  BY DEF GInv, TypeOK, WaitingIsOpen, Request
<1>15. waiting[c] = r => Holds(r.call, a)'
  <2> SUFFICES ASSUME waiting[c] = r PROVE Holds(r.call, a)'
    OBVIOUS
  <2> DEFINE k == r.call
  <2>1. asked'[k] = q /\ had'[k] = had[k]
    BY <1>3, <1>9
  <2>2. CASE a.kind = "created"
    BY <1>1, <1>2, <1>3, <2>1, <2>2 DEF Holds, GInv, TypeOK
  <2>3. CASE a.kind = "raised"
    BY <2>3 DEF Holds
  <2>4. CASE a.kind = "car"
    <3>1. cars' = cars /\ (cars[q.url] = None => had[k] = None)
      BY <1>2, <1>3, <1>9, <2>4 DEF Creates, GInv, HadIsThere
    <3> QED
      BY <1>2, <2>1, <2>4, <3>1 DEF Holds
  <2> QED
    BY <1>2, <2>2, <2>3, <2>4
<1>16. RepliesHold'
  <2> SUFFICES ASSUME NEW d \in Client, reply'[d] # None
               PROVE  Holds(waiting[d].call, reply[d])'
    BY DEF RepliesHold
  <2>1. CASE waiting[d] = r /\ reply'[d] = a
    <3>1. waiting'[d].call = r.call /\ waiting[c] = r
      BY <1>1, <1>3, <1>14, <2>1
    <3>2. Holds(r.call, a)'
      BY <1>15, <3>1
    <3> QED
      BY <2>1, <3>1, <3>2 DEF Holds
  <2>2. CASE reply'[d] = reply[d]
    BY <1>3, <1>6, <1>14, <2>2 DEF GInv, RepliesHold, WaitingIsOpen, Holds
  <2> QED
    BY <1>8, <2>1, <2>2
<1>17. OneMakes'
  <2>1. \A l \in Call : Made(l) => /\ asked[l] # None /\ asked[l].url \in Url
                                   /\ cars[asked[l].url] # None
    BY <1>5, <1>14 DEF Made, Ended, Holds, GInv, OutcomesHold, RepliesHold, WaitingIsOpen
  <2>2. \A l \in Call : Made(l)' => Made(l) \/ (waiting[c] = r /\ l = r.call /\ a.kind = "created")
    BY <1>3, <1>8, <1>14 DEF Made, Ended
  <2> QED
    BY <1>2, <1>3, <1>9, <2>1, <2>2 DEF GInv, OneMakes
<1> QED
  BY <1>7, <1>10, <1>11, <1>12, <1>13, <1>16, <1>17 DEF GInv

LEMMA GInvInit ==
  ASSUME Init
  PROVE  GInv
<1>1. Init => TypeOK
  BY DEF Init, TypeOK
<1> QED
  BY <1>1 DEF Init, GInv, WaitingIsOpen, FutureIsBlank, HadIsThere, RepliesHold,
              OutcomesHold, OneMakes, Made, Ended

LEMMA GInvStep ==
  ASSUME GInv, [Next]_vars
  PROVE  GInv'
<1>1. ASSUME NEW c \in Client, NEW q \in Query, Execute(c, q)
      PROVE  GInv'
  BY <1>1, BeginStep DEF Execute
<1>2. ASSUME NEW c \in Client, NEW q \in Query, Invalid(c, q)
      PROVE  GInv'
  BY <1>2, BeginStep DEF Invalid
<1>3. ASSUME NEW c \in Client, ResultArrives(c)
      PROVE  GInv'
  <2>1. waiting[c] # None /\ reply[c] \in Reply /\ Holds(waiting[c].call, reply[c])
    BY <1>3 DEF ResultArrives, GInv, TypeOK, WaitingIsOpen, RepliesHold, Reply
  <2> QED
    BY <1>3, <2>1, ReturnStep DEF ResultArrives
<1>4. ASSUME NEW c \in Client, AttemptFails(c)
      PROVE  GInv'
  <2> DEFINE r == waiting[c]
             next == [r EXCEPT !.try = @ + 1]
  <2>1. r \in Request /\ r # None
    BY <1>4 DEF AttemptFails, GInv, TypeOK
  <2>2. CASE next.try < Retries
    <3>1. next \in Request /\ next.call = r.call /\ next.query = r.query
      BY <2>1, <2>2 DEF Request
    <3> QED
      BY <1>4, <2>1, <2>2, <3>1, RetryStep DEF AttemptFails
  <2>3. CASE ~(next.try < Retries)
    <3> DEFINE out == [kind |-> "raised", value |-> None]
    <3>1. out \in Reply /\ Holds(r.call, out) /\ out.kind # "created"
      BY DEF Reply, Holds
    <3> QED
      BY <1>4, <2>1, <2>3, <3>1, ReturnStep DEF AttemptFails
  <2> QED
    BY <2>2, <2>3
<1>5. CASE UNCHANGED vars
  BY <1>5 DEF vars, GInv, TypeOK, WaitingIsOpen, FutureIsBlank, HadIsThere, RepliesHold,
              OutcomesHold, OneMakes, Made, Ended, Holds
<1> QED
  BY <1>1, <1>2, <1>3, <1>4, <1>5, ServeStep DEF Next

\* The invariant that the properties of the calls follow from.
THEOREM GqlInvariance == Spec => []GInv
<1>1. Init => GInv
  BY GInvInit
<1>2. GInv /\ [Next]_vars => GInv'
  BY GInvStep
<1> QED
  BY <1>1, <1>2, PTL DEF Spec

\* Every call keeps to its shape, with at most Retries attempts (TypeOK).
THEOREM GqlTypeCorrect == Spec => []TypeOK
<1>1. GInv => TypeOK
  BY DEF GInv
<1> QED
  BY <1>1, GqlInvariance, PTL

\* A put that returned has made its car, which stays: nothing that reaches the
\* service late undoes it.
THEOREM AcknowledgedIsStored == Spec => []AcknowledgedPutIsStored
<1>1. GInv => AcknowledgedPutIsStored
  BY DEF GInv, OutcomesHold, AcknowledgedPutIsStored, Ended, Holds
<1> QED
  BY <1>1, GqlInvariance, PTL

\* No two puts of one url both return, in whatever crawls they are made.
THEOREM OneReturns == Spec => []OnePutReturns
<1>1. GInv => OnePutReturns
  BY DEF GInv, OneMakes, Made, OnePutReturns, Ended
<1> QED
  BY <1>1, GqlInvariance, PTL

\* What a get returned is what the service holds, and a car that was there
\* when it was called is found.
THEOREM GetCurrent == Spec => []GetIsCurrent
<1>1. GInv => GetIsCurrent
  BY DEF GInv, OutcomesHold, GetIsCurrent, Ended, Holds
<1> QED
  BY <1>1, GqlInvariance, PTL

-----------------------------------------------------------------------------
(* The refinement of Valuations.                                           *)

Store == [u \in Url |-> RowOf(u)]
Reports == [k \in Call |-> Learnt(k)]

\* A step that ends no call with a car, and changes none of the cars.
LEMMA QuietStep ==
  ASSUME GInv, cars' = cars,
         \A k \in Call : \/ outcome'[k] = outcome[k] /\ asked'[k] = asked[k]
                         \/ /\ outcome[k] = None
                            /\ outcome'[k] = None \/ outcome'[k].kind = "raised"
  PROVE  UNCHANGED <<Store, Reports>>
<1>1. ASSUME NEW k \in Call
      PROVE  Learnt(k)' = Learnt(k)
  <2>1. CASE outcome'[k] = outcome[k] /\ asked'[k] = asked[k]
    BY <2>1 DEF Learnt, Ended
  <2>2. CASE /\ outcome[k] = None
             /\ outcome'[k] = None \/ outcome'[k].kind = "raised"
    BY <2>2 DEF Learnt, Ended
  <2> QED
    BY <2>1, <2>2
<1> QED
  BY <1>1 DEF Store, Reports, RowOf

LEMMA BeginIsQuiet ==
  ASSUME GInv, NEW c \in Client, NEW q \in Query, Execute(c, q) \/ Invalid(c, q)
  PROVE  UNCHANGED <<Store, Reports>>
<1> DEFINE new == <<c, calls[c] + 1>>
<1>1. new \in Call /\ outcome[new] = None
  BY DEF Execute, Invalid, Begin, GInv, TypeOK, FutureIsBlank, Call
<1>2. /\ cars' = cars
      /\ \A k \in Call : k # new => asked'[k] = asked[k] /\ outcome'[k] = outcome[k]
      /\ outcome'[new] = None \/ outcome'[new].kind = "raised"
  BY <1>1 DEF Execute, Invalid, Begin, GInv, TypeOK
<1> QED
  BY <1>1, <1>2, QuietStep

\* An attempt that fails teaches its caller nothing.
LEMMA FailureIsQuiet ==
  ASSUME GInv, NEW c \in Client, AttemptFails(c)
  PROVE  UNCHANGED <<Store, Reports>>
<1>1. PICK k : k = waiting[c].call
  OBVIOUS
<1>2. k \in Call /\ outcome[k] = None
  BY <1>1 DEF AttemptFails, GInv, TypeOK, WaitingIsOpen, Request
<1>3. /\ cars' = cars /\ asked' = asked
      /\ \A l \in Call : l # k => outcome'[l] = outcome[l]
      /\ outcome'[k] = None \/ outcome'[k].kind = "raised"
  BY <1>1, <1>2 DEF AttemptFails, Return, GInv, TypeOK
<1> QED
  BY <1>2, <1>3, QuietStep

\* A call that returns a car, made or found, reports what is in the store.
LEMMA ResultIsReuse ==
  ASSUME GInv, GInv', NEW c \in Client, ResultArrives(c)
  PROVE  Valuation!Next \/ UNCHANGED <<Store, Reports>>
<1>1. PICK k : k = waiting[c].call
  OBVIOUS
<1>2. /\ k \in Call /\ outcome[k] = None /\ asked[k] # None
      /\ reply[c] \in Reply /\ reply[c] # None
  BY <1>1 DEF ResultArrives, GInv, TypeOK, WaitingIsOpen, Request
<1>3. /\ cars' = cars /\ asked' = asked
      /\ outcome' = [outcome EXCEPT ![k] = reply[c]]
      /\ outcome'[k] = reply[c]
  BY <1>1, <1>2 DEF ResultArrives, Return, GInv, TypeOK
<1>4. \A l \in Call : l # k => outcome'[l] = outcome[l]
  BY <1>3 DEF GInv, TypeOK
<1>5. CASE reply[c].kind = "raised"
  BY <1>2, <1>3, <1>4, <1>5, QuietStep
<1>6. CASE reply[c].kind \in {"created", "car"}
  <2>1. CASE Learnt(k)' = None
    <3>1. \A l \in Call : Learnt(l)' = Learnt(l)
      BY <1>2, <1>3, <1>4, <2>1 DEF Learnt, Ended
    <3> QED
      BY <1>3, <3>1 DEF Store, Reports, RowOf
  <2>2. CASE Learnt(k)' # None
    <3> DEFINE u == asked[k].url
    <3>1. asked[k] \in Query /\ u \in Url
      BY <1>2 DEF GInv, TypeOK, Query
    <3>2. Holds(k, outcome[k])'
      BY <1>2, <1>3 DEF GInv, OutcomesHold
    <3>3. cars[u] # None /\ Learnt(k)' = [url |-> u, value |-> cars[u]]
      BY <1>2, <1>3, <1>6, <2>2, <3>1, <3>2 DEF Holds, Learnt, Ended
    <3>4. Store[u] = Learnt(k)' /\ Store[u] # None
      BY <3>1, <3>3 DEF Store, RowOf, Row, GInv, TypeOK
    <3>5. Reports[k] = None
      BY <1>2 DEF Reports, Learnt, Ended
    <3>6. Reports' = [Reports EXCEPT ![k] = Store[u]]
      <4>1. \A l \in Call : l # k => Learnt(l)' = Learnt(l)
        BY <1>3, <1>4 DEF Learnt, Ended
      <4> QED
        BY <1>2, <3>4, <4>1 DEF Reports
    <3>7. Store' = Store
      BY <1>3 DEF Store, RowOf
    <3>8. Valuation!Reuse(k, u)
      BY <3>1, <3>4, <3>5, <3>6, <3>7 DEF Valuation!Reuse, Store, Reports
    <3> QED
      BY <1>2, <3>1, <3>8 DEF Valuation!Next
  <2> QED
    BY <2>1, <2>2
<1> QED
  BY <1>2, <1>5, <1>6 DEF Reply

\* The service makes a car for a url that has none, or changes nothing.
LEMMA ServeIsLearn ==
  ASSUME GInv, NEW r \in wire, Serve(r)
  PROVE  Valuation!Next \/ UNCHANGED <<Store, Reports>>
<1> DEFINE q == r.query
<1>1. q \in Query /\ q.url \in Url
  BY DEF GInv, TypeOK, Request, Query
<1>2. Reports' = Reports
  BY DEF Serve, Reports, Learnt, Ended
<1>3. CASE UNCHANGED cars
  BY <1>2, <1>3 DEF Store, RowOf
<1>4. CASE Creates(q) /\ cars' = [cars EXCEPT ![q.url] = q.value]
  <2> DEFINE row == [url |-> q.url, value |-> q.value]
  <2>1. cars[q.url] = None /\ q.value \in Value
    BY <1>1, <1>4 DEF Creates, Query
  <2>2. row \in Row /\ row.url = q.url
    BY <1>1, <2>1 DEF Row
  <2>3. cars' = [cars EXCEPT ![q.url] = q.value]
    BY <1>4
  <2>4. Store[row.url] = None
    BY <1>1, <2>1 DEF Store, RowOf
  <2>5. Store' = [Store EXCEPT ![row.url] = row]
    <3>1. \A u \in Url : RowOf(u)' = IF u = q.url THEN row ELSE RowOf(u)
      BY <1>1, <2>1, <2>3 DEF RowOf, GInv, TypeOK
    <3> QED
      BY <3>1 DEF Store
  <2>6. Valuation!Learn(row)
    BY <1>2, <2>4, <2>5 DEF Valuation!Learn, Store, Reports
  <2> QED
    BY <2>2, <2>6 DEF Valuation!Next
<1> QED
  BY <1>3, <1>4 DEF Serve

LEMMA StoreStep ==
  ASSUME GInv, GInv', [Next]_vars
  PROVE  Valuation!Next \/ UNCHANGED <<Store, Reports>>
<1>1. CASE UNCHANGED vars
  BY <1>1 DEF vars, Store, Reports, RowOf, Learnt, Ended
<1> QED
  BY <1>1, BeginIsQuiet, FailureIsQuiet, ResultIsReuse, ServeIsLearn DEF Next

\* The client and the service implement the write-once store of Valuations
\* (CallsAreOfOneStore): what a call returns is in the store, and what is in
\* the store stays, however often a request is repeated or however late it is.
THEOREM ClientImplementsStore == Spec => CallsAreOfOneStore
<1>1. Init => Valuation!Init
  BY DEF Init, Valuation!Init, RowOf, Learnt, Ended
<1>2. GInv /\ GInv' /\ [Next]_vars => [Valuation!Next]_(Valuation!vars)
  BY StoreStep DEF Valuation!vars, Store, Reports
<1> QED
  BY <1>1, <1>2, GqlInvariance, PTL DEF Spec, CallsAreOfOneStore, Valuation!Spec

-----------------------------------------------------------------------------
(* What a client has learnt.                                               *)

\* No query has been made of a call that is yet to come.
FutureIsUnasked == \A k \in Call : k[2] > calls[k[1]] => asked[k] = None

\* A call that comes after its client has learnt of a car began with a car there.
SessionsRemember ==
  \A k, l \in Call :
    /\ k[1] = l[1] /\ k[2] < l[2]
    /\ Learnt(k) # None /\ asked[l] # None /\ asked[l].url = asked[k].url
    => had[l] # None

\* What a call has learnt is there.
LEMMA LearntIsThere ==
  ASSUME GInv, NEW k \in Call, Learnt(k) # None
  PROVE  /\ asked[k] # None /\ asked[k].url \in Url
         /\ cars[asked[k].url] # None /\ Learnt(k).value = cars[asked[k].url]
<1>1. outcome[k] # None /\ asked[k] # None /\ Holds(k, outcome[k])
  BY DEF Learnt, Ended, GInv, OutcomesHold
<1>2. asked[k].url \in Url
  BY <1>1 DEF GInv, TypeOK, Query
<1> QED
  BY <1>1, <1>2 DEF Learnt, Ended, Holds

LEMMA SessionStep ==
  ASSUME GInv, FutureIsUnasked, SessionsRemember, [Next]_vars
  PROVE  FutureIsUnasked' /\ SessionsRemember'
<1>0. /\ calls \in [Client -> 0..MaxCalls] /\ asked \in [Call -> Query \cup {None}]
      /\ had \in [Call -> Value \cup {None}] /\ outcome \in [Call -> Reply \cup {None}]
  BY DEF GInv, TypeOK
<1>1. CASE /\ UNCHANGED <<calls, asked, had>>
           /\ \A k \in Call : Learnt(k)' # None => Learnt(k) # None
  BY <1>1 DEF FutureIsUnasked, SessionsRemember
<1>2. ASSUME NEW c \in Client, NEW q \in Query, Execute(c, q) \/ Invalid(c, q)
      PROVE  FutureIsUnasked' /\ SessionsRemember'
  <2> DEFINE new == <<c, calls[c] + 1>>
  <2>1. /\ new \in Call /\ new[1] = c /\ new[2] = calls[c] + 1
        /\ calls[c] \in Nat /\ outcome[new] = None
    BY <1>2 DEF Execute, Invalid, Begin, GInv, TypeOK, FutureIsBlank, Call
  <2>2. /\ calls' = [calls EXCEPT ![c] = @ + 1]
        /\ asked' = [asked EXCEPT ![new] = q] /\ had' = [had EXCEPT ![new] = cars[q.url]]
        /\ \A k \in Call : Learnt(k)' = Learnt(k)
    <3>1. Reports' = Reports
      BY <1>2, BeginIsQuiet
    <3>2. \A k \in Call : Reports[k] = Learnt(k) /\ Reports'[k] = Learnt(k)'
      BY DEF Reports
    <3> QED
      BY <1>2, <3>1, <3>2 DEF Execute, Invalid, Begin
  <2> HIDE DEF new
  <2>3. /\ asked'[new] = q /\ had'[new] = cars[q.url]
        /\ \A k \in Call : k # new => asked'[k] = asked[k] /\ had'[k] = had[k]
    BY <1>0, <2>1, <2>2
  <2>4. FutureIsUnasked'
    <3> SUFFICES ASSUME NEW k \in Call, k[2] > calls'[k[1]] PROVE asked'[k] = None
      BY DEF FutureIsUnasked
    <3>1. k[1] \in Client /\ k[2] \in Nat /\ calls[k[1]] \in Nat
      BY <1>0 DEF Call
    <3>2. calls'[k[1]] = IF k[1] = c THEN calls[c] + 1 ELSE calls[k[1]]
      BY <1>0, <2>2, <3>1
    <3>3. k # new /\ k[2] > calls[k[1]]
      BY <2>1, <3>1, <3>2
    <3> QED
      BY <2>3, <3>3 DEF FutureIsUnasked
  <2>5. SessionsRemember'
    <3> SUFFICES ASSUME NEW k \in Call, NEW l \in Call, k[1] = l[1], k[2] < l[2],
                        Learnt(k)' # None, asked'[l] # None, asked'[l].url = asked'[k].url
                 PROVE  had'[l] # None
      BY DEF SessionsRemember
    <3>1. Learnt(k) # None /\ k # new
      BY <2>1, <2>2 DEF Learnt, Ended
    <3>2. CASE l = new
      BY <2>3, <3>1, <3>2, LearntIsThere
    <3>3. CASE l # new
      BY <2>3, <3>1, <3>3 DEF SessionsRemember
    <3> QED
      BY <3>2, <3>3
  <2> QED
    BY <2>4, <2>5
<1>3. ASSUME NEW c \in Client, ResultArrives(c)
      PROVE  FutureIsUnasked' /\ SessionsRemember'
  <2>1. /\ waiting[c].call \in Call /\ waiting[c].call = <<c, calls[c]>>
        /\ UNCHANGED <<calls, asked, had>>
        /\ \A k \in Call : k # <<c, calls[c]>> => outcome'[k] = outcome[k]
    BY <1>3 DEF ResultArrives, Return, GInv, TypeOK, Request
  <2>2. SessionsRemember'
    <3> SUFFICES ASSUME NEW k \in Call, NEW l \in Call, k[1] = l[1], k[2] < l[2],
                        Learnt(k)' # None, asked[l] # None, asked[l].url = asked[k].url
                 PROVE  had[l] # None
      BY <2>1 DEF SessionsRemember
    <3>1. CASE k = <<c, calls[c]>>
      BY <3>1 DEF FutureIsUnasked, Call
    <3>2. CASE k # <<c, calls[c]>>
      <4>1. Learnt(k) # None
        BY <2>1, <3>2 DEF Learnt, Ended
      <4> QED
        BY <4>1 DEF SessionsRemember
    <3> QED
      BY <3>1, <3>2
  <2> QED
    BY <2>1, <2>2 DEF FutureIsUnasked
<1>4. ASSUME NEW c \in Client, AttemptFails(c)
      PROVE  /\ UNCHANGED <<calls, asked, had>>
             /\ \A k \in Call : Learnt(k)' # None => Learnt(k) # None
  <2>1. Reports' = Reports
    BY <1>4, FailureIsQuiet
  <2>2. \A k \in Call : Reports[k] = Learnt(k) /\ Reports'[k] = Learnt(k)'
    BY DEF Reports
  <2> QED
    BY <1>4, <2>1, <2>2 DEF AttemptFails
<1>5. CASE (\E r \in wire : Serve(r)) \/ UNCHANGED vars
  BY <1>1, <1>5 DEF Serve, vars, Learnt, Ended
<1> QED
  BY <1>1, <1>2, <1>3, <1>4, <1>5 DEF Next

\* What a client has put or found it finds ever after, however many clients put
\* the same url and whatever arrives late.
THEOREM LearntStays == Spec => []LearntIsFoundAgain
<1>1. Init => FutureIsUnasked /\ SessionsRemember
  BY DEF Init, FutureIsUnasked, SessionsRemember, Learnt, Ended
<1>2. GInv /\ SessionsRemember => LearntIsFoundAgain
  <2> SUFFICES ASSUME GInv, SessionsRemember,
                      NEW k \in Call, NEW l \in Call, k[1] = l[1], k[2] < l[2],
                      Learnt(k) # None, Ended(l, "car"), asked[l].url = asked[k].url
               PROVE  outcome[l].value = Learnt(k).value
    BY DEF LearntIsFoundAgain
  <2>1. asked[l] # None /\ Holds(l, outcome[l])
    BY DEF GInv, OutcomesHold, Ended
  <2>2. had[l] # None
    BY <2>1 DEF SessionsRemember
  <2>3. outcome[l].value = cars[asked[l].url]
    BY <2>1, <2>2 DEF Holds, Ended
  <2> QED
    BY <2>3, LearntIsThere
<1>3. GInv /\ FutureIsUnasked /\ SessionsRemember /\ [Next]_vars
        => FutureIsUnasked' /\ SessionsRemember'
  BY SessionStep
<1> QED
  BY <1>1, <1>2, <1>3, GqlInvariance, PTL DEF Spec

=============================================================================
