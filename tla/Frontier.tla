------------------------------ MODULE Frontier ------------------------------
(***************************************************************************)
(* What a spider relies on in a crawl: a set of tasks that grows while     *)
(* tasks are worked off, each once, and that is empty when the crawl is    *)
(* closed.  Engine implements it, a task being a request; so does each     *)
(* crawl of CarCrawl, a task being a search or a job.                      *)
(***************************************************************************)
CONSTANTS Task,   \* everything a crawl may come to do
          Start   \* what it begins with

VARIABLES
  phase,  \* "new", "open", "closed" when all was done, or "cut" short
  made,   \* the tasks there have been
  due     \* those not yet done

vars == <<phase, made, due>>

Init == phase = "new" /\ made = {} /\ due = {}

Open ==
  /\ phase = "new" /\ phase' = "open"
  /\ made' = Start /\ due' = Start

\* Work on a task makes tasks that are new, and may finish the task.
Work(t) ==
  /\ phase \in {"open", "cut"} /\ t \in due
  /\ \E new \in SUBSET (Task \ made) :
       /\ made' = made \cup new
       /\ due' \in {due \cup new, (due \ {t}) \cup new}
  /\ UNCHANGED phase

Close == phase = "open" /\ due = {} /\ phase' = "closed" /\ UNCHANGED <<made, due>>

\* From outside: what is under way may go on, what waits may be lost.
Cut == phase = "open" /\ phase' = "cut" /\ UNCHANGED <<made, due>>

Next == Open \/ Close \/ Cut \/ \E t \in due : Work(t)

Spec == Init /\ [][Next]_vars

=============================================================================
