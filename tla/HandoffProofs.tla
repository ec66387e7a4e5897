---------------------------- MODULE HandoffProofs ---------------------------
(***************************************************************************)
(* The isolation of invocations in Handoff, for every number of            *)
(* invocations, size of the pipe and order of failures.                    *)
(***************************************************************************)
EXTENDS Handoff, DataInduction

\* The parent's globals never change, and a child starts from a copy of them.
ParentIsFresh == home = Fresh

\* The child runs only while it is waited for; the parent receives only from a
\* child that has exited; nothing is left in the pipe between invocations.
ProcessesInStep ==
  /\ parent \in {"idle", "joining", "receiving"}
  /\ child \in {"none", "setup", "crawling", "sending", "sent", "lost", "hung"}
  /\ child \in {"setup", "crawling", "sending", "hung"} => parent = "joining"
  /\ pipe # <<>> => parent # "idle" /\ child = "sent"
  /\ child = "none" => parent = "idle"
  /\ parent = "receiving" => child \in {"sent", "lost"}
  /\ parent # "idle" /\ child = "sent" => pipe # <<>>

\* RESULT holds what the spider yielded, and the pipe what RESULT held.
ResultIsScraped ==
  /\ child = "setup" => copy = Fresh /\ scraped = <<>>
  /\ parent = "joining" /\ child \in {"crawling", "sending", "sent"} =>
       copy = [result |-> scraped, runs |-> 1]
  /\ copy.runs \in {0, 1}
  /\ pipe # <<>> => pipe = <<scraped>>

\* An answer is this invocation's, until the next one begins.
AnswerIsOfScraped ==
  answer # None => parent = "idle" /\ answer \in Sorted(scraped)

HInv ==
  /\ TypeOK
  /\ ParentIsFresh
  /\ ProcessesInStep
  /\ ResultIsScraped
  /\ AnswerIsOfScraped

\* A sort of items is a sequence of items.
LEMMA SortedType ==
  ASSUME NEW items \in Seq(Item), NEW sorted \in Sorted(items)
  PROVE  sorted \in Seq(Item)
<1> PICK o \in Bijection(1..Len(items), 1..Len(items)) :
      sorted = [k \in 1..Len(items) |-> items[o[k]]]
  BY DEF Sorted
<1>1. \A k \in 1..Len(items) : items[o[k]] \in Item
  BY DEF Bijection, Injection
<1> QED
  BY <1>1

\* A sort has every item as often as it is in the items, in ascending order.
LEMMA SortedSorts ==
  ASSUME NEW items \in Seq(Item), NEW sorted \in Sorted(items)
  PROVE  /\ \A x \in Item : Occurrences(sorted, x) = Occurrences(items, x)
         /\ \A i, k \in 1..Len(sorted) : i < k => Percent[sorted[i]] <= Percent[sorted[k]]
<1> DEFINE n == Len(items)
<1> PICK o \in Bijection(1..n, 1..n) :
      /\ sorted = [k \in 1..n |-> items[o[k]]]
      /\ \A i, k \in 1..n : i < k => \/ Percent[items[o[i]]] < Percent[items[o[k]]]
                                     \/ Percent[items[o[i]]] = Percent[items[o[k]]]
  BY DEF Sorted
<1>1. n \in Nat /\ Len(sorted) = n /\ sorted \in Seq(Item)
  BY SortedType
<1>2. ASSUME NEW x \in Item
      PROVE  Occurrences(sorted, x) = Occurrences(items, x)
  <2> DEFINE A == {k \in 1..n : items[o[k]] = x}
             B == {k \in 1..n : items[k] = x}
             f == [k \in A |-> o[k]]
  <2>1. o \in [1..n -> 1..n] /\ (\A i, k \in 1..n : o[i] = o[k] => i = k)
        /\ \A k \in 1..n : \E i \in 1..n : o[i] = k
    BY DEF Bijection, Injection, Surjection, IsInjective
  <2>2. f \in Bijection(A, B)
    <3>1. f \in [A -> B]
      BY <2>1
    <3>2. \A i, k \in A : f[i] = f[k] => i = k
      BY <2>1
    <3>3. \A k \in B : \E i \in A : f[i] = k
      BY <2>1
    <3> HIDE DEF A, B, f
    <3> QED
      BY <3>1, <3>2, <3>3 DEF Bijection, Injection, Surjection, IsInjective
  <2>3. IsFiniteSet(A)
    <3>1. A \subseteq 1..n /\ IsFiniteSet(1..n)
      BY <1>1, FS_Interval
    <3> HIDE DEF A
    <3> QED
      BY <3>1, FS_Subset
  <2>4. Cardinality(A) = Cardinality(B)
    <3>1. ExistsBijection(A, B)
      BY <2>2 DEF ExistsBijection
    <3> HIDE DEF A, B, f
    <3> QED
      BY <2>3, <3>1, FS_Bijection
  <2>5. A = {k \in 1..Len(sorted) : sorted[k] = x}
    BY <1>1
  <2> QED
    BY <2>4, <2>5 DEF Occurrences
<1>3. ASSUME NEW i \in 1..n, NEW k \in 1..n, i < k
      PROVE  Percent[sorted[i]] <= Percent[sorted[k]]
  <2>1. items[o[i]] \in Item /\ items[o[k]] \in Item
    BY DEF Bijection, Injection
  <2>2. Percent[items[o[i]]] \in Int /\ Percent[items[o[k]]] \in Int
    BY <2>1, HandoffAssumption
  <2>3. sorted[i] = items[o[i]] /\ sorted[k] = items[o[k]]
    OBVIOUS
  <2>4. Percent[items[o[i]]] <= Percent[items[o[k]]]
    BY <1>3, <2>2
  <2> QED
    BY <2>3, <2>4
<1> QED
  BY <1>1, <1>2, <1>3

\* The orders in which a stable sort may take n items with the given keys.
SortOrders(key, n) ==
  {o \in Bijection(1..n, 1..n) :
     \A i, k \in 1..n : i < k => \/ key[o[i]] < key[o[k]]
                                 \/ key[o[i]] = key[o[k]] /\ o[i] < o[k]}

\* The item after the sorted ones goes before the first that has a greater key.
LEMMA SortInserts ==
  ASSUME NEW key \in [Nat -> Int], NEW n \in Nat, NEW o \in SortOrders(key, n)
  PROVE  SortOrders(key, n + 1) # {}
<1> DEFINE later == {k \in 1..(n + 1) : k = n + 1 \/ key[o[k]] > key[n + 1]}
<1>1. PICK x \in later : \A y \in later : x =< y
  <2>1. n + 1 \in later /\ later \subseteq Nat
    OBVIOUS
  <2> HIDE DEF later
  <2> QED
    BY <2>1, LeastNat
<1>2. /\ o \in [1..n -> 1..n]
      /\ \A i, k \in 1..n : o[i] = o[k] => i = k
      /\ \A v \in 1..n : \E i \in 1..n : o[i] = v
  BY DEF SortOrders, Bijection, Injection, Surjection, IsInjective
<1>3. \A i, k \in 1..n : i < k => \/ key[o[i]] < key[o[k]]
                                  \/ key[o[i]] = key[o[k]] /\ o[i] < o[k]
  BY DEF SortOrders
<1>4. x \in 1..(n + 1) /\ (x = n + 1 \/ key[o[x]] > key[n + 1])
  OBVIOUS
<1>4a. key[n + 1] \in Int /\ \A k \in 1..n : o[k] \in 1..n /\ key[o[k]] \in Int
  <2>1. n + 1 \in Nat
    OBVIOUS
  <2>2. ASSUME NEW k \in 1..n PROVE o[k] \in 1..n /\ o[k] \in Nat
    <3>1. o[k] \in 1..n
      BY <1>2
    <3> QED
      BY <3>1
  <2> HIDE DEF later
  <2> QED
    BY <2>1, <2>2
<1>5. ASSUME NEW k \in 1..n, k < x PROVE key[o[k]] =< key[n + 1]
  <2>1. k \notin later
    <3>1. x \in Nat /\ k \in Nat /\ ~(x =< k)
      BY <1>4, <1>5
    <3> HIDE DEF later
    <3> QED
      BY <1>1, <3>1
  <2>2. ~(key[o[k]] > key[n + 1])
    BY <2>1
  <2> QED
    BY <1>4a, <2>2
<1>6. ASSUME NEW k \in 1..n, x =< k PROVE key[o[k]] > key[n + 1]
  <2>1. x \in 1..n /\ key[o[x]] > key[n + 1]
    BY <1>4, <1>6
  <2>2. CASE k = x
    BY <2>1, <2>2
  <2>3. CASE x < k
    <3>1. key[o[x]] < key[o[k]] \/ key[o[x]] = key[o[k]]
      BY <1>3, <2>1, <2>3
    <3> QED
      BY <1>4a, <2>1, <3>1
  <2> QED
    BY <1>4, <1>6, <2>2, <2>3
<1> DEFINE N == 1..(n + 1)
           p == [k \in N |-> IF k < x THEN o[k] ELSE IF k = x THEN n + 1 ELSE o[k - 1]]
<1> HIDE DEF later
<1>7. p \in Bijection(N, N)
  <2>1. p \in [N -> N]
    <3>1. \A k \in N : /\ k < x => k \in 1..n
                       /\ k # x /\ ~(k < x) => k - 1 \in 1..n
      BY <1>4
    <3>2. \A k \in 1..n : o[k] \in N
      BY <1>2
    <3>3. n + 1 \in N
      OBVIOUS
    <3>4. \A k \in N : p[k] \in N
      BY <3>1, <3>2, <3>3
    <3> QED
      BY <3>4
  <2>2. ASSUME NEW i \in N, NEW k \in N, p[i] = p[k]
        PROVE  i = k
    <3>1. \A m \in N : /\ m < x => m \in 1..n /\ p[m] = o[m]
                       /\ m = x => p[m] = n + 1
                       /\ x < m => m - 1 \in 1..n /\ p[m] = o[m - 1]
      BY <1>4
    <3>2. \A m \in 1..n : o[m] # n + 1
      BY <1>2
    <3> HIDE DEF p
    <3>3. i \in Int /\ k \in Int /\ x \in Int
      BY <1>4
    <3>4. CASE i < x /\ k < x
      BY <1>2, <2>2, <3>1, <3>4
    <3>5. CASE x < i /\ x < k
      <4>1. i - 1 = k - 1
        BY <1>2, <2>2, <3>1, <3>5
      <4> QED
        BY <3>3, <4>1
    <3>6. CASE i < x /\ x < k
      <4>1. o[i] = o[k - 1] /\ i \in 1..n /\ k - 1 \in 1..n
        BY <2>2, <3>1, <3>6
      <4>2. i = k - 1
        BY <1>2, <4>1
      <4> QED
        BY <3>3, <3>6, <4>2
    <3>7. CASE k < x /\ x < i
      <4>1. o[k] = o[i - 1] /\ k \in 1..n /\ i - 1 \in 1..n
        BY <2>2, <3>1, <3>7
      <4>2. k = i - 1
        BY <1>2, <4>1
      <4> QED
        BY <3>3, <3>7, <4>2
    <3>8. CASE i = x \/ k = x
      BY <2>2, <3>1, <3>2, <3>3, <3>8
    <3> QED
      BY <3>3, <3>4, <3>5, <3>6, <3>7, <3>8
  <2>3. ASSUME NEW v \in N
        PROVE  \E i \in N : p[i] = v
    <3>1. CASE v = n + 1
      BY <1>4, <3>1
    <3>2. CASE v # n + 1
      <4>1. PICK i \in 1..n : o[i] = v
        BY <1>2, <3>2
      <4>2. CASE i < x
        BY <4>1, <4>2
      <4>3. CASE x =< i
        <5>1. i + 1 \in N /\ p[i + 1] = o[i]
          BY <1>4, <4>3
        <5> QED
          BY <4>1, <5>1
      <4> QED
        BY <4>2, <4>3, <1>4
    <3> QED
      BY <3>1, <3>2
  <2> HIDE DEF p, N
  <2> QED
    BY <2>1, <2>2, <2>3 DEF Bijection, Injection, Surjection, IsInjective
<1>8. ASSUME NEW i \in N, NEW k \in N, i < k
      PROVE  \/ key[p[i]] < key[p[k]]
             \/ key[p[i]] = key[p[k]] /\ p[i] < p[k]
  <2>0. \A m \in 1..n : o[m] \in 1..n /\ key[o[m]] \in Int
    BY <1>2
  <2>1. CASE k < x
    BY <1>3, <1>4, <1>8, <2>1
  <2>2. CASE k = x
    BY <1>4, <1>5, <1>8, <2>0, <2>2
  <2>3. CASE x < k /\ i < x
    <3>1. k - 1 \in 1..n /\ i \in 1..n /\ p[i] = o[i] /\ p[k] = o[k - 1]
      BY <1>4, <2>3
    <3>2. key[o[i]] =< key[n + 1] /\ key[o[k - 1]] > key[n + 1] /\ key[n + 1] \in Int
      BY <1>4, <1>5, <1>6, <2>3, <3>1
    <3> QED
      BY <2>0, <3>1, <3>2
  <2>4. CASE i = x
    <3>1. k - 1 \in 1..n /\ x =< k - 1 /\ p[i] = n + 1 /\ p[k] = o[k - 1]
      BY <1>4, <1>8, <2>4
    <3> QED
      BY <1>6, <3>1
  <2>5. CASE x < i
    <3>1. i - 1 \in 1..n /\ k - 1 \in 1..n /\ p[i] = o[i - 1] /\ p[k] = o[k - 1]
      BY <1>4, <1>8, <2>5
    <3> QED
      BY <1>3, <1>8, <3>1
  <2> QED
    BY <1>4, <2>1, <2>2, <2>3, <2>4, <2>5
<1> QED
  <2>1. p \in SortOrders(key, n + 1)
    <3> HIDE DEF p
    <3> QED
      BY <1>7, <1>8 DEF SortOrders
  <2> QED
    BY <2>1

\* There is an order to sort any number of items in.
LEMMA SortOrderExists ==
  ASSUME NEW key \in [Nat -> Int], NEW n \in Nat
  PROVE  SortOrders(key, n) # {}
<1> DEFINE S == {m \in Nat : SortOrders(key, m) # {}}
<1>1. 0 \in S
  <2>1. [k \in 1..0 |-> 0] \in Bijection(1..0, 1..0)
    BY DEF Bijection, Injection, Surjection, IsInjective
  <2>2. [k \in 1..0 |-> 0] \in SortOrders(key, 0)
    BY <2>1 DEF SortOrders
  <2> QED
    BY <2>2
<1>2. ASSUME NEW m \in Nat, m \in S PROVE m + 1 \in S
  BY <1>2, SortInserts
<1>3. Nat \subseteq S
  <2> HIDE DEF S
  <2> QED
    BY <1>1, <1>2, InductionOnNat
<1> QED
  BY <1>3

\* Two orders that agree on what comes first agree on what comes next, so there
\* is only one.
LEMMA SortOrderUnique ==
  ASSUME NEW key \in [Nat -> Int], NEW n \in Nat,
         NEW o \in SortOrders(key, n), NEW p \in SortOrders(key, n)
  PROVE  o = p
<1> DEFINE S == {m \in Nat : \A k \in 1..n : k =< m => o[k] = p[k]}
           Before(a, b) == key[a] < key[b] \/ (key[a] = key[b] /\ a < b)
<1>1. /\ o \in [1..n -> 1..n] /\ p \in [1..n -> 1..n]
      /\ \A i, k \in 1..n : p[i] = p[k] => i = k
      /\ \A i, k \in 1..n : o[i] = o[k] => i = k
      /\ \A v \in 1..n : \E i \in 1..n : o[i] = v
      /\ \A v \in 1..n : \E i \in 1..n : p[i] = v
  BY DEF SortOrders, Bijection, Injection, Surjection, IsInjective
<1>2. \A i, k \in 1..n : i < k => Before(o[i], o[k]) /\ Before(p[i], p[k])
  <2>1. ASSUME NEW q \in SortOrders(key, n), NEW i \in 1..n, NEW k \in 1..n, i < k
        PROVE  Before(q[i], q[k])
    BY <2>1 DEF SortOrders
  <2> HIDE DEF Before
  <2> QED
    BY <2>1
<1>3. \A a, b \in 1..n : ~(Before(a, b) /\ Before(b, a))
  <2> SUFFICES ASSUME NEW a \in 1..n, NEW b \in 1..n PROVE ~(Before(a, b) /\ Before(b, a))
    OBVIOUS
  <2>1. key[a] \in Int /\ key[b] \in Int /\ a \in Int /\ b \in Int
    OBVIOUS
  <2> QED
    BY <2>1
<1>4. 0 \in S
  OBVIOUS
<1>5. ASSUME NEW m \in Nat, m \in S PROVE m + 1 \in S
  <2> SUFFICES ASSUME m + 1 \in 1..n PROVE o[m + 1] = p[m + 1]
    BY <1>5
  <2>1. PICK i \in 1..n : o[i] = p[m + 1]
    BY <1>1
  <2>2. PICK k \in 1..n : p[k] = o[m + 1]
    BY <1>1
  <2>3. m + 1 =< i
    <3> SUFFICES ASSUME i =< m PROVE FALSE
      OBVIOUS
    <3>1. p[i] = p[m + 1]
      BY <1>5, <2>1
    <3> QED
      BY <1>1, <3>1
  <2>4. m + 1 =< k
    <3> SUFFICES ASSUME k =< m PROVE FALSE
      OBVIOUS
    <3>1. o[k] = o[m + 1]
      BY <1>5, <2>2
    <3> QED
      BY <1>1, <3>1
  <2>5. CASE m + 1 < i /\ m + 1 < k
    <3>1. Before(o[m + 1], p[m + 1]) /\ Before(p[m + 1], o[m + 1])
      BY <1>2, <2>1, <2>2, <2>5
    <3> HIDE DEF Before
    <3> QED
      BY <1>1, <1>3, <3>1
  <2> QED
    BY <2>1, <2>2, <2>3, <2>4, <2>5
<1>6. Nat \subseteq S
  <2> HIDE DEF S
  <2> QED
    BY <1>4, <1>5, InductionOnNat
<1>7. \A k \in 1..n : o[k] = p[k]
  <2>1. n \in S
    BY <1>6
  <2> QED
    BY <2>1
<1> QED
  BY <1>1, <1>7

\* sorted() has one result, whatever items it is given: an invocation that
\* received a RESULT answers, and its crawl determines what.
THEOREM SortIsFunctional ==
  ASSUME NEW items \in Seq(Item)
  PROVE  \E sorted \in Seq(Item) : Sorted(items) = {sorted}
<1> DEFINE n == Len(items)
           key == [k \in Nat |-> IF k \in 1..n THEN Percent[items[k]] ELSE 0]
           Take(o) == [k \in 1..n |-> items[o[k]]]
<1>1. n \in Nat /\ \A k \in 1..n : items[k] \in Item
  OBVIOUS
<1>2. key \in [Nat -> Int]
  BY <1>1, HandoffAssumption
<1>3. \A k \in 1..n : key[k] = Percent[items[k]]
  OBVIOUS
<1>4. Sorted(items) = {Take(o) : o \in SortOrders(key, n)}
  <2>1. SortOrders(key, n) =
          {o \in Bijection(1..n, 1..n) :
             \A i, k \in 1..n : i < k =>
               \/ Percent[items[o[i]]] < Percent[items[o[k]]]
               \/ Percent[items[o[i]]] = Percent[items[o[k]]] /\ o[i] < o[k]}
    <3>1. \A o \in Bijection(1..n, 1..n) : \A i \in 1..n : o[i] \in 1..n
      BY DEF Bijection, Injection
    <3>2. ASSUME NEW o \in Bijection(1..n, 1..n), NEW i \in 1..n
          PROVE  key[o[i]] = Percent[items[o[i]]]
      <4> HIDE DEF key
      <4> QED
        BY <1>3, <3>1
    <3> HIDE DEF key, n
    <3> QED
      BY <3>2 DEF SortOrders
  <2> QED
    BY <2>1 DEF Sorted
<1>5. PICK o \in SortOrders(key, n) : TRUE
  <2> HIDE DEF key, n
  <2> QED
    BY <1>1, <1>2, SortOrderExists
<1>6. \A p \in SortOrders(key, n) : p = o
  <2> HIDE DEF key, n
  <2> QED
    BY <1>1, <1>2, SortOrderUnique
<1>7. Sorted(items) = {Take(o)}
  <2> HIDE DEF key, Take
  <2> QED
    BY <1>4, <1>5, <1>6
<1> QED
  BY <1>7, SortedType

LEMMA TypeStep ==
  ASSUME HInv, [Next]_vars
  PROVE  TypeOK'
<1> USE HandoffAssumption DEF HInv, TypeOK
<1>0. Fresh \in [result : Seq(Item), runs : Nat]
  BY DEF Fresh
<1>1. CASE Call
  BY <1>1 DEF Call
<1>2. CASE RefuseArgs
  BY <1>0, <1>2 DEF RefuseArgs
<1>3. CASE JoinChild
  BY <1>3 DEF JoinChild
<1>4. CASE ReceiveResult
  <2>1. Head(pipe) \in Seq(Item) /\ Tail(pipe) = <<>>
    BY <1>4 DEF ReceiveResult
  <2>2. answer' \in Seq(Item)
    BY <1>4, <2>1, SortedType DEF ReceiveResult
  <2> QED
    BY <1>4, <2>1, <2>2 DEF ReceiveResult
<1>5. CASE TimeOut
  BY <1>0, <1>5 DEF TimeOut
<1>6. CASE RunReactor \/ SetupRaises \/ StopReactor \/ ChildKilled \/ ChildHangs
  <2>1. copy' = copy \/ copy' = [copy EXCEPT !.runs = @ + 1]
    BY <1>6 DEF RunReactor, SetupRaises, StopReactor, ChildKilled, ChildHangs
  <2>2. copy' \in [result : Seq(Item), runs : Nat]
    BY <2>1
  <2>3. child' \in {"crawling", "sending", "lost", "hung"}
        /\ UNCHANGED <<calls, parent, home, pipe, scraped, answer>>
    BY <1>6 DEF RunReactor, SetupRaises, StopReactor, ChildKilled, ChildHangs, Child
  <2> QED
    BY <2>2, <2>3
<1>7. CASE SendResult
  <2>1. pipe = <<>>
    BY <1>7 DEF SendResult, Child, ProcessesInStep
  <2>2. Append(pipe, copy.result) = <<copy.result>> /\ copy.result \in Seq(Item)
    BY <2>1
  <2>3. pipe' \in Seq(Seq(Item)) /\ Len(pipe') <= 1
    BY <1>7, <2>2 DEF SendResult
  <2> QED
    BY <1>7, <2>3 DEF SendResult, Child
<1>8. CASE \E i \in Item : ScrapeItem(i)
  <2> PICK i \in Item : ScrapeItem(i)
    BY <1>8
  <2>1. scraped' \in Seq(Item) /\ Len(scraped') <= MaxItems
    BY DEF ScrapeItem
  <2>2. copy' \in [result : Seq(Item), runs : Nat]
    <3>1. copy.result \in Seq(Item) /\ copy.runs \in Nat
      OBVIOUS
    <3>2. Append(copy.result, i) \in Seq(Item)
      BY <3>1
    <3>3. copy' = [copy EXCEPT !.result = Append(copy.result, i)]
      BY DEF ScrapeItem
    <3> QED
      BY <3>2, <3>3
  <2> QED
    BY <2>1, <2>2 DEF ScrapeItem
<1>9. CASE UNCHANGED vars
  BY <1>9 DEF vars
<1> QED
  BY <1>1, <1>2, <1>3, <1>4, <1>5, <1>6, <1>7, <1>8, <1>9 DEF Next

LEMMA HandoffInductive == HInv /\ [Next]_vars => HInv'
<1> SUFFICES ASSUME HInv, [Next]_vars PROVE HInv'
  OBVIOUS
<1>0. TypeOK'
  BY TypeStep
<1> USE <1>0 DEF HInv, ParentIsFresh, ProcessesInStep, ResultIsScraped, AnswerIsOfScraped
<1>1. CASE Call
  BY <1>1 DEF Call, Fresh
<1>2. CASE RefuseArgs
  BY <1>2 DEF RefuseArgs, Fresh
<1>3. CASE JoinChild
  BY <1>3 DEF JoinChild
<1>4. CASE ReceiveResult
  <2>1. pipe = <<scraped>>
    BY <1>4 DEF ReceiveResult
  <2>2. Head(pipe) = scraped /\ Tail(pipe) = <<>>
    BY <2>1
  <2> QED
    BY <1>4, <2>2 DEF ReceiveResult
<1>5. CASE TimeOut
  BY <1>5 DEF TimeOut, Fresh
<1>6. CASE RunReactor
  BY <1>6 DEF RunReactor, Child, Fresh
<1>7. CASE SetupRaises
  BY <1>7 DEF SetupRaises, Child
<1>8. CASE StopReactor
  BY <1>8 DEF StopReactor, Child
<1>9. CASE SendResult
  <2>1. pipe = <<>> /\ copy.result = scraped
    BY <1>9 DEF SendResult, Child
  <2>2. Append(pipe, copy.result) = <<scraped>>
    BY <2>1
  <2> QED
    BY <1>9, <2>2 DEF SendResult, Child
<1>10. CASE ChildKilled
  BY <1>10 DEF ChildKilled
<1>11. CASE \E i \in Item : ScrapeItem(i)
  <2> PICK i \in Item : ScrapeItem(i)
    BY <1>11
  <2>1. parent = "joining" /\ pipe = <<>> /\ answer = None
    BY DEF ScrapeItem
  <2>2. copy' = [result |-> scraped', runs |-> 1]
    <3>1. copy = [result |-> scraped, runs |-> 1] /\ scraped' = Append(scraped, i)
      BY <2>1 DEF ScrapeItem
    <3> QED
      BY <3>1 DEF ScrapeItem
  <2> QED
    BY <2>1, <2>2 DEF ScrapeItem
<1>12. CASE ChildHangs
  BY <1>12 DEF ChildHangs
<1>13. CASE UNCHANGED vars
  BY <1>13 DEF vars
<1> QED
  BY <1>1, <1>2, <1>3, <1>4, <1>5, <1>6, <1>7, <1>8, <1>9, <1>10, <1>11, <1>12,
     <1>13 DEF Next

THEOREM HandoffInvariance == Spec => []HInv
<1>1. Init => HInv
  BY HandoffAssumption DEF Init, HInv, TypeOK, ParentIsFresh, ProcessesInStep,
                           ResultIsScraped, AnswerIsOfScraped, Fresh
<1> QED
  BY <1>1, HandoffInductive, PTL DEF Spec

\* However many invocations a container serves, no process runs a reactor twice.
THEOREM ReactorOnce == Spec => []ReactorRunsOnce
<1>1. HInv => ReactorRunsOnce
  BY DEF HInv, ParentIsFresh, ResultIsScraped, ReactorRunsOnce, Fresh
<1> QED
  BY <1>1, HandoffInvariance, PTL

\* For every size of the pipe, number of items and moment a child dies: what an
\* invocation can wait for in vain is a child that is gone or waits for the
\* service, and room in the pipe.
THEOREM StandstillsHaveCause == Spec => []StandstillHasCause
<1>1. HInv => StandstillHasCause
  <2> SUFFICES ASSUME HInv, parent # "idle", child = "sending",
                      ~(Len(copy.result) <= Capacity)
               PROVE  Len(copy.result) > Capacity
    BY DEF HInv, ProcessesInStep, StandstillHasCause
  <2>1. Len(copy.result) \in Nat /\ Capacity \in Nat
    BY HandoffAssumption DEF HInv, TypeOK
  <2> QED
    BY <2>1
<1> QED
  BY <1>1, HandoffInvariance, PTL

\* Every variable of the two processes keeps its shape.
THEOREM HandoffTypeCorrect == Spec => []TypeOK
BY HandoffInvariance, PTL DEF HInv

\* What an invocation returns is what its own crawl scraped, sorted.
THEOREM AnswerOfThisCrawl == Spec => []AnswerIsThisCrawl
<1>1. HInv => AnswerIsThisCrawl
  BY SortedSorts DEF HInv, TypeOK, AnswerIsOfScraped, AnswerIsThisCrawl
<1> QED
  BY <1>1, HandoffInvariance, PTL
=============================================================================
