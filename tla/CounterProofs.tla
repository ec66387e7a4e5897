---------------------------- MODULE CounterProofs ----------------------------
(***************************************************************************)
(* The counters of the spider in CarCrawl: that they add up to the jobs,   *)
(* for every number of crawls, searches and ads.  Numbers of jobs are      *)
(* written as an operator of the stages, so that a step is an equation     *)
(* between two of its values.                                              *)
(***************************************************************************)
EXTENDS CarCrawlProofs, FiniteSetTheorems

JobsAt(st, c, stages) == {j \in Job : j[1] = c /\ st[j] \in stages}
Num(st, c, stages) == Cardinality(JobsAt(st, c, stages))
Moved(st, new, j, to) == new = [st EXCEPT ![j] = to]
One(x, S) == IF x \in S THEN 1 ELSE 0

\* The conjuncts of CountersAddUp, the last one made inductive: a car that
\* waits for its styles is found, and kbb_parsed has not counted it.
Adds(n, st, c) ==
  /\ n["parsed"] = n["found"] + n["dropped"] + Num(st, c, {"skipped", "adRaised"})
  /\ n["dropped"] = Num(st, c, {"dropped"})
  /\ n["found"] = Num(st, c, {"styles", "price", "unpriced", "reported",
                              "kbbFailed", "raised", "hung"})
  /\ n["failures"] = Num(st, c, {"adFailed", "kbbFailed"})
  /\ Num(st, c, {"price", "unpriced"}) <= n["kbbParsed"]
  /\ n["kbbParsed"] + Num(st, c, {"styles"}) <= n["found"]

CountersInv == \A c \in Crawl : Adds(stats[c], stage, c)

Counted(n, counters) == [k \in Counter |-> IF k \in counters THEN n[k] + 1 ELSE n[k]]

\* What a callback counts when it moves a job from one stage to another.
Counts(from, to, counters) ==
  \/ from = "ad" /\ to \in {"skipped", "adRaised"} /\ counters = {"parsed"}
  \/ from = "ad" /\ to = "dropped" /\ counters = {"parsed", "dropped"}
  \/ /\ from = "ad" /\ to \in {"raised", "reported", "styles", "hung"}
     /\ counters = {"parsed", "found"}
  \/ from = "ad" /\ to = "adFailed" /\ counters = {"failures"}
  \/ from = "styles" /\ to \in {"styles", "raised"} /\ counters = {}
  \/ from = "styles" /\ to = "price" /\ counters = {"kbbParsed"}
  \/ from = "price" /\ to \in {"unpriced", "raised", "reported", "hung"} /\ counters = {}
  \/ from \in {"styles", "price"} /\ to = "kbbFailed" /\ counters = {"failures"}

-----------------------------------------------------------------------------
(* Numbers of jobs.                                                        *)

\* A crawl has finitely many jobs.
LEMMA JobsFinite ==
  ASSUME NEW c \in Crawl, NEW st, NEW stages
  PROVE  IsFiniteSet(JobsAt(st, c, stages)) /\ Num(st, c, stages) \in Nat
<1> DEFINE place == Search \X (1..PageLimit)
           all == {j \in Job : j[1] = c}
           f == [p \in place |-> <<c, p[1], p[2]>>]
<1>1. IsFiniteSet(place)
  <2>1. IsFiniteSet(1..PageLimit)
    BY CarCrawlAssumption, FS_Interval
  <2> QED
    BY <2>1, SearchAssumption, FS_Product
<1>2. f \in Surjection(place, all)
  <2>1. f \in [place -> all]
    BY DEF Job
  <2>2. ASSUME NEW j \in all PROVE \E p \in place : f[p] = j
    <3>1. <<j[2], j[3]>> \in place /\ j = <<c, j[2], j[3]>>
      BY DEF Job
    <3> QED
      BY <3>1
  <2> QED
    BY <2>1, <2>2 DEF Surjection
<1>3. IsFiniteSet(all)
  BY <1>1, <1>2, FS_Surjection
<1>4. JobsAt(st, c, stages) \in SUBSET all
  BY DEF JobsAt
<1> QED
  BY <1>3, <1>4, FS_Subset, FS_CardinalityType DEF Num

\* A job that moves is counted where it comes to and no longer where it was.
LEMMA NumMoves ==
  ASSUME NEW st \in [Job -> Stage], NEW j \in Job, NEW to, NEW stages,
         NEW new, Moved(st, new, j, to),
         NEW c, c = j[1]
  PROVE  Num(new, c, stages) = Num(st, c, stages) + One(to, stages) - One(st[j], stages)
<1> DEFINE old == JobsAt(st, c, stages)
<1>0. c \in Crawl
  BY DEF Job
<1>1. /\ IsFiniteSet(old) /\ Cardinality(old) = Num(st, c, stages)
      /\ Num(st, c, stages) \in Nat
  BY <1>0, JobsFinite DEF Num
<1>2. JobsAt(new, c, stages) = IF to \in stages THEN old \cup {j} ELSE old \ {j}
  BY DEF JobsAt, Moved
<1>3. j \in old <=> st[j] \in stages
  BY DEF JobsAt
<1> HIDE DEF old
<1>4. CASE to \in stages
  <2>1. Cardinality(old \cup {j}) = IF j \in old THEN Cardinality(old)
                                                ELSE Cardinality(old) + 1
    BY <1>1, FS_AddElement
  <2>2. Num(new, c, stages) = Cardinality(old \cup {j})
    BY <1>2, <1>4 DEF Num
  <2> QED
    BY <1>1, <1>3, <1>4, <2>1, <2>2 DEF One
<1>5. CASE to \notin stages
  <2>1. Cardinality(old \ {j}) = IF j \in old THEN Cardinality(old) - 1
                                             ELSE Cardinality(old)
    BY <1>1, FS_RemoveElement
  <2>2. Num(new, c, stages) = Cardinality(old \ {j})
    BY <1>2, <1>5 DEF Num
  <2> QED
    BY <1>1, <1>3, <1>5, <2>1, <2>2 DEF One
<1> QED
  BY <1>4, <1>5

\* Jobs that are not counted before or after a step do not change a number.
LEMMA NumSame ==
  ASSUME NEW st, NEW new, NEW c, NEW stages,
         \A j \in Job : j[1] = c => (st[j] \in stages <=> new[j] \in stages)
  PROVE  Num(new, c, stages) = Num(st, c, stages)
<1>1. JobsAt(new, c, stages) = JobsAt(st, c, stages)
  BY DEF JobsAt
<1> QED
  BY <1>1 DEF Num

-----------------------------------------------------------------------------
(* Steps.                                                                  *)

\* A callback that moves its job and counts accordingly keeps the sums.
LEMMA AddsMoves ==
  ASSUME NEW st \in [Job -> Stage], NEW n \in [Counter -> Nat], NEW j \in Job,
         NEW to, NEW counters, Counts(st[j], to, counters),
         NEW new, Moved(st, new, j, to),
         NEW c, c = j[1], Adds(n, st, c)
  PROVE  Adds(Counted(n, counters), new, c)
<1> DEFINE Lost == {"skipped", "adRaised"}
           Drop == {"dropped"}
           Find == {"styles", "price", "unpriced", "reported", "kbbFailed", "raised", "hung"}
           Fail == {"adFailed", "kbbFailed"}
           Kbb == {"price", "unpriced"}
           Sty == {"styles"}
           m == Counted(n, counters)
<1>1. c \in Crawl
  BY DEF Job
<1>2. /\ Num(st, c, Lost) \in Nat /\ Num(st, c, Drop) \in Nat /\ Num(st, c, Find) \in Nat
      /\ Num(st, c, Fail) \in Nat /\ Num(st, c, Kbb) \in Nat /\ Num(st, c, Sty) \in Nat
  BY <1>1, JobsFinite
<1>3. ASSUME NEW S
      PROVE  Num(new, c, S) = Num(st, c, S) + One(to, S) - One(st[j], S)
  BY NumMoves
<1>4. /\ Num(new, c, Lost) = Num(st, c, Lost) + One(to, Lost) - One(st[j], Lost)
      /\ Num(new, c, Drop) = Num(st, c, Drop) + One(to, Drop) - One(st[j], Drop)
      /\ Num(new, c, Find) = Num(st, c, Find) + One(to, Find) - One(st[j], Find)
      /\ Num(new, c, Fail) = Num(st, c, Fail) + One(to, Fail) - One(st[j], Fail)
      /\ Num(new, c, Kbb) = Num(st, c, Kbb) + One(to, Kbb) - One(st[j], Kbb)
      /\ Num(new, c, Sty) = Num(st, c, Sty) + One(to, Sty) - One(st[j], Sty)
  BY <1>3
<1>5. \A k \in Counter : n[k] \in Nat /\ m[k] = n[k] + One(k, counters)
  BY DEF Counted, One
<1>6. /\ m["parsed"] = n["parsed"] + One("parsed", counters) /\ n["parsed"] \in Nat
      /\ m["found"] = n["found"] + One("found", counters) /\ n["found"] \in Nat
      /\ m["dropped"] = n["dropped"] + One("dropped", counters) /\ n["dropped"] \in Nat
      /\ m["kbbParsed"] = n["kbbParsed"] + One("kbbParsed", counters) /\ n["kbbParsed"] \in Nat
      /\ m["failures"] = n["failures"] + One("failures", counters) /\ n["failures"] \in Nat
  BY <1>5 DEF Counter
<1> HIDE DEF m
<1>7. CASE st[j] = "ad" /\ to \in {"skipped", "adRaised"} /\ counters = {"parsed"}
  BY <1>2, <1>4, <1>6, <1>7 DEF Adds, One, m
<1>8. CASE st[j] = "ad" /\ to = "dropped" /\ counters = {"parsed", "dropped"}
  BY <1>2, <1>4, <1>6, <1>8 DEF Adds, One, m
<1>9. CASE st[j] = "ad" /\ to \in {"raised", "reported", "styles", "hung"}
           /\ counters = {"parsed", "found"}
  BY <1>2, <1>4, <1>6, <1>9 DEF Adds, One, m
<1>10. CASE st[j] = "ad" /\ to = "adFailed" /\ counters = {"failures"}
  BY <1>2, <1>4, <1>6, <1>10 DEF Adds, One, m
<1>11. CASE st[j] = "styles" /\ to \in {"styles", "raised"} /\ counters = {}
  BY <1>2, <1>4, <1>6, <1>11 DEF Adds, One, m
<1>12. CASE st[j] = "styles" /\ to = "price" /\ counters = {"kbbParsed"}
  BY <1>2, <1>4, <1>6, <1>12 DEF Adds, One, m
<1>13. CASE st[j] = "price" /\ to \in {"unpriced", "raised", "reported", "hung"} /\ counters = {}
  BY <1>2, <1>4, <1>6, <1>13 DEF Adds, One, m
<1>14. CASE st[j] \in {"styles", "price"} /\ to = "kbbFailed" /\ counters = {"failures"}
  BY <1>2, <1>4, <1>6, <1>14 DEF Adds, One, m
<1> QED
  BY <1>7, <1>8, <1>9, <1>10, <1>11, <1>12, <1>13, <1>14 DEF Counts, m

\* Jobs of another crawl, and jobs a search page lists, change no sum.
LEMMA AddsSame ==
  ASSUME NEW st, NEW new, NEW n, NEW c, Adds(n, st, c),
         \A j \in Job : j[1] = c => \/ new[j] = st[j]
                                    \/ st[j] = "unused" /\ new[j] = "ad"
  PROVE  Adds(n, new, c)
<1>1. ASSUME NEW S, "unused" \notin S, "ad" \notin S
      PROVE  Num(new, c, S) = Num(st, c, S)
  BY <1>1, NumSame
<1> QED
  BY <1>1 DEF Adds

\* One job moves and its crawl counts it.
JobCounts(j) ==
  \E to, counters :
    /\ Moved(stage, stage', j, to)
    /\ Counts(stage[j], to, counters)
    /\ stats' = [stats EXCEPT ![j[1]] = Counted(stats[j[1]], counters)]

\* No job that is counted moves.
NoneCounts ==
  /\ stats' = stats
  /\ \A j \in Job : \/ stage'[j] = stage[j]
                    \/ stage[j] = "unused" /\ stage'[j] = "ad"

LEMMA CountMeansCounted ==
  ASSUME TypeOK, NEW j \in Job, NEW counters, Count(j[1], counters)
  PROVE  stats' = [stats EXCEPT ![j[1]] = Counted(stats[j[1]], counters)]
BY DEF Count, Counted, TypeOK

LEMMA NoCountMeansCounted ==
  ASSUME TypeOK, NEW j \in Job, stats' = stats
  PROVE  stats' = [stats EXCEPT ![j[1]] = Counted(stats[j[1]], {})]
<1>1. j[1] \in Crawl
  BY DEF Job
<1>2. Counted(stats[j[1]], {}) = stats[j[1]]
  BY <1>1 DEF Counted, TypeOK
<1> QED
  BY <1>1, <1>2 DEF TypeOK

LEMMA AdAnsweredCounts ==
  ASSUME TypeOK, NEW j \in Job, AdAnswered(j)
  PROVE  JobCounts(j)
<1>1. CASE NoPriceList(j) \/ AdPageRaises(j)
  <2>1. PICK to \in {"skipped", "adRaised"} : Moved(stage, stage', j, to)
    BY <1>1 DEF NoPriceList, AdPageRaises, EndWithout, End, Moved
  <2>2. stage[j] = "ad" /\ Count(j[1], {"parsed"})
    BY <1>1 DEF NoPriceList, AdPageRaises, Waits, CrawlOf
  <2> QED
    BY <2>1, <2>2, CountMeansCounted DEF JobCounts, Counts
<1>2. CASE DropCar(j)
  <2>1. /\ stage[j] = "ad" /\ Moved(stage, stage', j, "dropped")
        /\ Count(j[1], {"parsed", "dropped"})
    BY <1>2 DEF DropCar, EndWithout, End, Moved, Waits, CrawlOf
  <2> QED
    BY <2>1, CountMeansCounted DEF JobCounts, Counts
<1>3. CASE AdDownloadFails(j)
  <2>1. /\ stage[j] = "ad" /\ Moved(stage, stage', j, "adFailed")
        /\ Count(j[1], {"failures"})
    BY <1>3 DEF AdDownloadFails, EndWithout, End, Moved, Waits, CrawlOf
  <2> QED
    BY <2>1, CountMeansCounted DEF JobCounts, Counts
<1>4. CASE \E car \in Car : FindCar(j, car)
  <2>1. PICK to \in {"raised", "reported", "styles"} : Moved(stage, stage', j, to)
    BY <1>4 DEF FindCar, EndWithout, Report, Follow, End, Moved
  <2>2. stage[j] = "ad" /\ Count(j[1], {"parsed", "found"})
    BY <1>4 DEF FindCar, Waits, CrawlOf
  <2> QED
    BY <2>1, <2>2, CountMeansCounted DEF JobCounts, Counts
<1> QED
  BY <1>1, <1>2, <1>3, <1>4 DEF AdAnswered

LEMMA KbbAnsweredCounts ==
  ASSUME TypeOK, NEW j \in Job, KbbAnswered(j)
  PROVE  JobCounts(j)
<1>1. CASE FollowCategory(j) \/ StylesPageRaises(j)
  <2>1. PICK to \in {"styles", "raised"} : Moved(stage, stage', j, to)
    BY <1>1 DEF FollowCategory, StylesPageRaises, Follow, EndWithout, End, Moved
  <2>2. stage[j] = "styles" /\ stats' = stats
    BY <1>1 DEF FollowCategory, StylesPageRaises, Waits
  <2> QED
    BY <2>1, <2>2, NoCountMeansCounted DEF JobCounts, Counts
<1>2. CASE FollowStyle(j)
  <2>1. /\ stage[j] = "styles" /\ Moved(stage, stage', j, "price")
        /\ Count(j[1], {"kbbParsed"})
    BY <1>2 DEF FollowStyle, Follow, Moved, Waits, CrawlOf
  <2> QED
    BY <2>1, CountMeansCounted DEF JobCounts, Counts
<1>3. CASE NoFinalPrice(j) \/ FinalPriceRaises(j)
  <2>1. PICK to \in {"unpriced", "raised"} : Moved(stage, stage', j, to)
    BY <1>3 DEF NoFinalPrice, FinalPriceRaises, EndWithout, End, Moved
  <2>2. stage[j] = "price" /\ stats' = stats
    BY <1>3 DEF NoFinalPrice, FinalPriceRaises, Waits
  <2> QED
    BY <2>1, <2>2, NoCountMeansCounted DEF JobCounts, Counts
<1>4. CASE KbbDownloadFails(j)
  <2>1. /\ stage[j] \in {"styles", "price"} /\ Moved(stage, stage', j, "kbbFailed")
        /\ Count(j[1], {"failures"})
    BY <1>4 DEF KbbDownloadFails, EndWithout, End, Moved, Waits, CrawlOf
  <2> QED
    BY <2>1, CountMeansCounted DEF JobCounts, Counts
<1>5. CASE /\ stage[j] = "price"
           /\ \E kbb \in KbbPrice :
                \E percent \in Percents(item[j].price, kbb) : FinalParse(j, kbb, percent)
  <2>1. PICK to \in {"reported", "raised"} : Moved(stage, stage', j, to)
    BY <1>5 DEF FinalParse, PutCache, EndWithout, Report, End, Moved
  <2>2. stage[j] = "price" /\ stats' = stats
    BY <1>5 DEF FinalParse
  <2> QED
    BY <2>1, <2>2, NoCountMeansCounted DEF JobCounts, Counts
<1> QED
  BY <1>1, <1>2, <1>3, <1>4, <1>5 DEF KbbAnswered

LEMMA HangsCounts ==
  ASSUME TypeOK, NEW j \in Job, Hangs(j)
  PROVE  JobCounts(j)
<1>1. CASE LookupHangs(j)
  <2>1. /\ stage[j] = "ad" /\ Moved(stage, stage', j, "hung")
        /\ Count(j[1], {"parsed", "found"})
    BY <1>1 DEF LookupHangs, EndWithout, End, Moved, Waits, CrawlOf
  <2> QED
    BY <2>1, CountMeansCounted DEF JobCounts, Counts
<1>2. CASE /\ stage[j] = "price"
           /\ \E kbb \in KbbPrice :
                \E percent \in Percents(item[j].price, kbb) : PutHangs(j, kbb, percent)
  <2>1. stage[j] = "price" /\ Moved(stage, stage', j, "hung") /\ stats' = stats
    BY <1>2 DEF PutHangs, EndWithout, End, Moved
  <2> QED
    BY <2>1, NoCountMeansCounted DEF JobCounts, Counts
<1> QED
  BY <1>1, <1>2 DEF Hangs

LEMMA StepCounts ==
  ASSUME IInv, [Next]_vars
  PROVE  NoneCounts \/ \E j \in Job : JobCounts(j)
<1>0. TypeOK /\ UnansweredHaveNoJobs
  BY DEF IInv
<1>1. ASSUME NEW c \in Crawl, NEW s \in Search, ParseStartUrl(c, s)
      PROVE  NoneCounts
  <2>1. \A j \in Job : j[1] = c /\ j[2] = s => stage[j] = "unused"
    BY <1>0, <1>1 DEF ParseStartUrl, UnansweredHaveNoJobs
  <2>2. stats' = stats
    BY <1>1 DEF ParseStartUrl
  <2>3. ASSUME NEW j \in Job
        PROVE  \/ stage'[j] = stage[j]
               \/ j[1] = c /\ j[2] = s /\ stage'[j] = "ad"
    BY <1>1 DEF ParseStartUrl
  <2> QED
    BY <2>1, <2>2, <2>3 DEF NoneCounts
<1>2. ASSUME NEW c \in Crawl, CrawlStep(c)
      PROVE  NoneCounts
  <2>1. CASE StartCrawl(c) \/ CloseSpider(c) \/ Kill(c) \/ \E s \in Search : SearchFails(c, s)
    BY <2>1 DEF StartCrawl, CloseSpider, Kill, SearchFails, NoneCounts, jobVars
  <2>2. CASE \E s \in Search : ParseStartUrl(c, s)
    BY <1>1, <2>2
  <2> QED
    BY <1>2, <2>1, <2>2 DEF CrawlStep
<1>3. CASE UNCHANGED vars \/ \E row \in late : ServiceCreates(row)
  BY <1>3 DEF vars, ServiceCreates, jobVars, NoneCounts
<1> QED
  BY <1>0, <1>2, <1>3, AdAnsweredCounts, KbbAnsweredCounts, HangsCounts DEF Next

\* Every step keeps the sums of every crawl.
LEMMA CountersStep ==
  ASSUME IInv, [Next]_vars, CountersInv
  PROVE  CountersInv'
<1> SUFFICES ASSUME NEW c \in Crawl
             PROVE  Adds(stats'[c], stage', c)
  BY DEF CountersInv
<1>1. Adds(stats[c], stage, c) /\ TypeOK
  BY DEF CountersInv, IInv
<1>2. CASE NoneCounts
  BY <1>1, <1>2, AddsSame DEF NoneCounts
<1>3. ASSUME NEW j \in Job, JobCounts(j)
      PROVE  Adds(stats'[c], stage', c)
  <2>1. PICK to, counters :
          /\ Moved(stage, stage', j, to)
          /\ Counts(stage[j], to, counters)
          /\ stats' = [stats EXCEPT ![j[1]] = Counted(stats[j[1]], counters)]
    BY <1>3 DEF JobCounts
  <2>2. CASE j[1] = c
    <3>1. stats'[c] = Counted(stats[c], counters)
      BY <1>1, <2>1, <2>2 DEF TypeOK
    <3>2. stage \in [Job -> Stage] /\ stats[c] \in [Counter -> Nat]
      BY <1>1 DEF TypeOK
    <3> QED
      BY <1>1, <2>1, <2>2, <3>1, <3>2, AddsMoves
  <2>3. CASE j[1] # c
    <3>1. stats'[c] = stats[c]
      BY <1>1, <2>1, <2>3 DEF TypeOK
    <3>2. \A k \in Job : k[1] = c => stage'[k] = stage[k]
      BY <1>1, <2>1, <2>3 DEF Moved, TypeOK
    <3> QED
      BY <1>1, <3>1, <3>2, AddsSame
  <2> QED
    BY <2>2, <2>3
<1> QED
  BY <1>2, <1>3, StepCounts

LEMMA CountersInit == Init => CountersInv
<1> SUFFICES ASSUME Init, NEW c \in Crawl
             PROVE  Adds(stats[c], stage, c)
  BY DEF CountersInv
<1>1. ASSUME NEW S, "unused" \notin S
      PROVE  Num(stage, c, S) = 0
  <2>1. JobsAt(stage, c, S) = {}
    BY <1>1 DEF JobsAt, Init
  <2> QED
    BY <2>1, FS_EmptySet DEF Num
<1>2. \A k \in Counter : stats[c][k] = 0
  BY DEF Init
<1> QED
  BY <1>1, <1>2 DEF Adds, Counter

-----------------------------------------------------------------------------
\* CountersAddUp (every page parsed once and found, dropped, skipped or raised
\* on, every found car awaited or ended in one way, every failure counted once)
\* holds of any number of crawls, searches and ads.
THEOREM CountersAlwaysAddUp == Spec => []CountersAddUp
<1>1. Init => CountersInv
  BY CountersInit
<1>2. IInv /\ CountersInv /\ [Next]_vars => CountersInv'
  BY CountersStep
<1>3. TypeOK /\ CountersInv => CountersAddUp
  <2> SUFFICES ASSUME TypeOK, CountersInv, NEW c \in Crawl
               PROVE  LET n == stats[c]
                      IN  /\ Adds(n, stage, c)
                          /\ n["kbbParsed"] <= n["found"]
    BY DEF CountersAddUp, Adds, JobsIn, Num, JobsAt, CrawlOf
  <2>1. Num(stage, c, {"styles"}) \in Nat
    BY JobsFinite
  <2>2. stats[c]["kbbParsed"] \in Nat /\ stats[c]["found"] \in Nat
    BY DEF TypeOK, Counter
  <2>3. Adds(stats[c], stage, c)
    BY DEF CountersInv
  <2> QED
    BY <2>1, <2>2, <2>3 DEF Adds
<1> QED
  BY <1>1, <1>2, <1>3, Invariance, TypeCorrect, PTL DEF Spec

=============================================================================
