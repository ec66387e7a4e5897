----------------------------- MODULE Valuations -----------------------------
(***************************************************************************)
(* What the crawlers promise together: a store of car valuations in which  *)
(* an ad is valued at most once and a valuation never changes, and readers *)
(* that only ever report a valuation that is in the store.  CarCrawl       *)
(* implements it: the store is the GraphQL cache, the readers are the jobs *)
(* of all crawls, and what a job reports is the item it appends to RESULT. *)
(***************************************************************************)
CONSTANTS Ad,       \* the ads a valuation can be about
          Row,      \* the valuations: records with a field url in Ad
          Reader,   \* who reports valuations
          None      \* no valuation

VARIABLES store, report

vars == <<store, report>>

Init ==
  /\ store = [u \in Ad |-> None]
  /\ report = [r \in Reader |-> None]

\* A valuation enters the store; whoever made it may be lost before reporting.
Learn(row) ==
  /\ store[row.url] = None
  /\ store' = [store EXCEPT ![row.url] = row]
  /\ \/ UNCHANGED report
     \/ \E r \in Reader : /\ report[r] = None
                          /\ report' = [report EXCEPT ![r] = row]

\* A reader reports the valuation the store already has.
Reuse(r, u) ==
  /\ store[u] # None
  /\ report[r] = None
  /\ report' = [report EXCEPT ![r] = store[u]]
  /\ UNCHANGED store

Next ==
  \/ \E row \in Row : Learn(row)
  \/ \E r \in Reader, u \in Ad : Reuse(r, u)

Spec == Init /\ [][Next]_vars

=============================================================================
