----------------------------- MODULE MCTaskPlan -----------------------------
(* Three tasks that wait for one another in every way, one of them in the  *)
(* first or in a later phase, with nothing done or with work the file      *)
(* calls done before its time; and one plan for each other fault.          *)
EXTENDS TaskPlan, FiniteSets

CONSTANTS t1, t2, t3, sol, luna

Sound(deps, phase) == [deps |-> deps, phase |-> phase, carded |-> Task,
                       owner |-> [i \in Task |-> IF i = t1 THEN sol ELSE luna],
                       start |-> [i \in Task |-> IF phase[i] = "single_spark"
                                                THEN "todo" ELSE "deferred"],
                       twice |-> FALSE]

FirstPhase == [i \in Task |-> "single_spark"]
Graphs == [Task -> SUBSET Task]
Chain == [i \in Task |-> IF i = t1 THEN {} ELSE {t1}]

MCPlans ==
  {Sound(deps, phase) : deps \in Graphs, phase \in {FirstPhase, [FirstPhase EXCEPT ![t2] = "deferred"]}}
    \cup {[Sound(deps, FirstPhase) EXCEPT !.start[t1] = "blocked", !.start[t3] = "done"] :
             deps \in {d \in Graphs : t2 \notin d[t2]}}
    \cup {[Sound(Chain, FirstPhase) EXCEPT !.deps[i] = @ \cup {Absent}] : i \in Task}
    \cup {[Sound(Chain, FirstPhase) EXCEPT !.carded = @ \ {i}] : i \in Task}
    \cup {[Sound(Chain, FirstPhase) EXCEPT !.owner[i] = Stranger] : i \in Task}
    \cup {[Sound(Chain, FirstPhase) EXCEPT !.twice = TRUE]}
=============================================================================
