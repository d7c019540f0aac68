------------------------------ MODULE TaskPlan ------------------------------
(***************************************************************************)
(* The plan of the project: tools/validate_plan.py walks the dependencies  *)
(* of planning/tasks.json depth first and accepts or rejects the plan;     *)
(* tools/next_task.py lists the tasks an agent may take.  The walk is      *)
(* modelled call by call, for every order of the tasks and dependencies.   *)
(* The agents, who edit the status of a task, are external: they take what *)
(* is listed for them and may be blocked before they finish it.            *)
(***************************************************************************)
EXTENDS Naturals, Sequences

CONSTANTS Task,      \* ids of the tasks
          Absent,    \* an id that no task has
          Agent,     \* Sol, Terra and Luna
          Stranger,  \* an owner who is none of them
          None,      \* no root is being visited
          Plans      \* contents of planning/tasks.json and planning/tasks/

Phase  == {"single_spark", "deferred"}
Status == {"todo", "ready", "in_progress", "blocked", "done", "deferred"}
Plan   == [deps   : [Task -> SUBSET (Task \cup {Absent})],
           phase  : [Task -> Phase],
           owner  : [Task -> Agent \cup {Stranger}],
           start  : [Task -> Status],
           carded : SUBSET Task,  \* tasks with a card in planning/tasks/
           twice  : BOOLEAN]      \* an id occurs twice

ASSUME NameAssumption == /\ Absent \notin Task
                         /\ None \notin Task
                         /\ Stranger \notin Agent
ASSUME PlanAssumption == Plans \subseteq Plan
\* Only deferred work has the status deferred, as in planning/tasks.json.
ASSUME StatusAssumption == \A p \in Plans : \A i \in Task :
  p.phase[i] = "single_spark" => p.start[i] # "deferred"

VARIABLES plan,     \* never changes
          verdict,  \* of validate_plan
          roots,    \* tasks the outer loop has not finished with
          root,     \* task the outer loop visits
          stack,    \* calls of visit, outermost first
          left,     \* dependencies each call has not looked at
          seen, active,
          status    \* of each task in planning/tasks.json

vars == <<plan, verdict, roots, root, stack, left, seen, active, status>>
walk == <<roots, root, stack, left, seen, active>>

Init == /\ plan \in Plans
        /\ verdict = "walking"
        /\ roots = Task
        /\ root = None
        /\ stack = <<>>
        /\ left = plan.deps
        /\ seen = {}
        /\ active = {}
        /\ status = plan.start

----------------------------------------------------------------------------
(* Defects the properties below must catch.  None of them is part of Next. *)

\* A task counts as seen when its visit begins.
EnterSeen(i) ==
  /\ stack' = Append(stack, i)
  /\ active' = active
  /\ seen' = seen \cup {i}

\* Deferred work is accepted as a dependency.
NoBadPhase(i, d) == FALSE

----------------------------------------------------------------------------
Top == stack[Len(stack)]

BadPhase(i, d) == /\ d \in Task
                  /\ plan.phase[i] = "single_spark"
                  /\ plan.phase[d] # "single_spark"

\* The exceptions of one turn of visit's loop: a dependency that no task is,
\* that is deferred work, or whose visit is still running.
Raises(i, d) == \/ d \notin Task
                \/ BadPhase(i, d)
                \/ d \in active

Unfit(i) == \/ i \notin plan.carded
            \/ plan.owner[i] \notin Agent

----------------------------------------------------------------------------
Reject == /\ verdict' = "rejected"
          /\ UNCHANGED <<plan, walk, status>>

DuplicateIds == /\ verdict = "walking"
                /\ plan.twice
                /\ Reject

Walking == /\ verdict = "walking"
           /\ ~plan.twice

Enter(i) == /\ stack' = Append(stack, i)
            /\ active' = active \cup {i}
            /\ seen' = seen

\* The outer loop visits a task; the visit returns at once when it was seen.
Root(i) ==
  /\ Walking
  /\ root = None
  /\ i \in roots
  /\ root' = i
  /\ \/ i \in seen /\ UNCHANGED <<stack, active, seen>>
     \/ i \notin seen /\ Enter(i)
  /\ UNCHANGED <<plan, verdict, roots, left, status>>

\* The running visit looks at its next dependency.
Depend(d) ==
  /\ Walking
  /\ stack # <<>>
  /\ d \in left[Top]
  /\ \/ Raises(Top, d) /\ Reject
     \/ /\ ~Raises(Top, d)
        /\ left' = [left EXCEPT ![Top] = @ \ {d}]
        /\ \/ d \in seen /\ UNCHANGED <<stack, active, seen>>
           \/ d \notin seen /\ Enter(d)
        /\ UNCHANGED <<plan, verdict, roots, root, status>>

Return ==
  /\ Walking
  /\ stack # <<>>
  /\ left[Top] = {}
  /\ active' = active \ {Top}
  /\ seen' = seen \cup {Top}
  /\ stack' = SubSeq(stack, 1, Len(stack) - 1)
  /\ UNCHANGED <<plan, verdict, roots, root, left, status>>

\* What the outer loop asks once the visit of its task has returned.
CheckTask ==
  /\ Walking
  /\ root # None
  /\ stack = <<>>
  /\ \/ Unfit(root) /\ Reject
     \/ /\ ~Unfit(root)
        /\ roots' = roots \ {root}
        /\ root' = None
        /\ UNCHANGED <<plan, verdict, stack, left, seen, active, status>>

Accept == /\ Walking
          /\ root = None
          /\ roots = {}
          /\ verdict' = "accepted"
          /\ UNCHANGED <<plan, walk, status>>

----------------------------------------------------------------------------
Done == {i \in Task : status[i] = "done"}

\* set(t['depends_on']) < done
ListedStrict(a) ==
  {i \in Task : /\ plan.phase[i] = "single_spark"
                /\ status[i] \in {"todo", "ready"}
                /\ plan.deps[i] \subseteq Done /\ plan.deps[i] # Done
                /\ plan.owner[i] = a}

\* next_task.py --agent a
Listed(a) == {i \in Task : /\ plan.phase[i] = "single_spark"
                           /\ status[i] \in {"todo", "ready"}
                           /\ plan.deps[i] \subseteq Done
                           /\ plan.owner[i] = a}

Mark(i, from, to) == /\ verdict = "accepted"
                     /\ status[i] \in from
                     /\ status' = [status EXCEPT ![i] = to]
                     /\ UNCHANGED <<plan, verdict, walk>>

Take(a, i) == i \in Listed(a) /\ Mark(i, {"todo", "ready"}, "in_progress")
Finish(i)  == Mark(i, {"in_progress"}, "done")
Block(i)   == Mark(i, {"in_progress"}, "blocked")
Unblock(i) == Mark(i, {"blocked"}, "ready")

Walk == \/ DuplicateIds
        \/ \E i \in Task : Root(i)
        \/ \E d \in Task \cup {Absent} : Depend(d)
        \/ Return
        \/ CheckTask
        \/ Accept

Next == \/ Walk
        \/ \E i \in Task : \/ \E a \in Agent : Take(a, i)
                           \/ Finish(i)
                           \/ Block(i)
                           \/ Unblock(i)

Spec == Init /\ [][Next]_vars

\* The validator runs to its end; agents take what stays listed for them, a
\* blocked task is unblocked, and no task is blocked forever anew.
FairSpec == /\ Spec
            /\ WF_vars(Walk)
            /\ \A i \in Task : /\ \A a \in Agent : SF_vars(Take(a, i))
                               /\ WF_vars(Unblock(i))
                               /\ SF_vars(Finish(i))

----------------------------------------------------------------------------
\* A set of tasks each of which waits for another of the set.
Deadlocked(C) == C # {} /\ \A i \in C : plan.deps[i] \cap C # {}

Faulty == \/ plan.twice
          \/ \E i \in Task : \/ Unfit(i)
                             \/ \E d \in plan.deps[i] : \/ d \notin Task
                                                        \/ BadPhase(i, d)
          \/ \E C \in SUBSET Task : Deadlocked(C)

\* The walk accepts exactly the plans without fault: whatever the order of the
\* tasks, no cycle escapes the two sets of visit, and no plan with a diamond
\* or a task reached twice is taken for one with a cycle.
VerdictSound == /\ verdict = "accepted" => ~Faulty
                /\ verdict = "rejected" => Faulty

\* validate_plan and next_task together: of an accepted plan with open work in
\* the first phase, a task is under way or some agent has one listed.
NeverStuck ==
  (verdict = "accepted" /\ \E i \in Task : /\ plan.phase[i] = "single_spark"
                                           /\ status[i] # "done")
    => \/ \E i \in Task : status[i] \in {"in_progress", "blocked"}
       \/ \E a \in Agent : Listed(a) # {}

\* Every plan is rejected, or the first phase is done in the end by agents who
\* look at nothing but the list next_task prints for them.
PlanFinishes ==
  <>(\/ verdict = "rejected"
     \/ \A i \in Task : plan.phase[i] = "single_spark" => status[i] = "done")
=============================================================================
