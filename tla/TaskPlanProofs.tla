--------------------------- MODULE TaskPlanProofs ---------------------------
(***************************************************************************)
(* Proofs about TaskPlan, for every set of tasks, finite or not, every set *)
(* of plans and every order in which the walk may look at them.            *)
(*                                                                         *)
(* The walk keeps the tasks it has left (seen) closed under dependencies   *)
(* and well founded, and its stack is a path of dependencies.  So a plan   *)
(* it accepts has no set of tasks that wait for one another, and the stack *)
(* at a rejection for a cycle is one.                                      *)
(***************************************************************************)
EXTENDS TaskPlan, SequenceTheorems, TLAPS

TypeOK ==
  /\ plan \in Plans
  /\ verdict \in {"walking", "accepted", "rejected"}
  /\ roots \subseteq Task
  /\ root \in Task \cup {None}
  /\ stack \in Seq(Task)
  /\ left \in [Task -> SUBSET (Task \cup {Absent})]
  /\ seen \subseteq Task
  /\ active \subseteq Task
  /\ status \in [Task -> Status]

\* The active set holds the calls on the stack, each task once.
Stacked == /\ \A i \in Task : i \in active <=> \E k \in 1..Len(stack) : stack[k] = i
           /\ \A j, k \in 1..Len(stack) : stack[j] = stack[k] => j = k
           /\ active \cap seen = {}

Path == \A k \in 1..(Len(stack) - 1) : stack[k + 1] \in plan.deps[stack[k]]

\* What is left of the dependencies: all of them before a task is entered.
Leftover == \A i \in Task : /\ left[i] \subseteq plan.deps[i]
                            /\ i \notin active \cup seen => left[i] = plan.deps[i]

\* A dependency a running visit has looked at was seen or is being visited.
Looked == \A k \in 1..Len(stack) : \A d \in plan.deps[stack[k]] \ left[stack[k]] :
  /\ ~BadPhase(stack[k], d)
  /\ d \in seen \/ (k < Len(stack) /\ d = stack[k + 1])

Closed == \A i \in seen : \A d \in plan.deps[i] : d \in seen /\ ~BadPhase(i, d)

\* Of any seen tasks, one waits for none of the others.
Founded == \A C \in SUBSET seen : C # {} => \E i \in C : plan.deps[i] \cap C = {}

Rooted == /\ \A i \in Task \ roots : i \in seen /\ ~Unfit(i)
          /\ root # None => root \in seen \/ (stack # <<>> /\ stack[1] = root)
          /\ root = None => stack = <<>>

Judged == /\ verdict = "rejected" => Faulty
          /\ verdict = "accepted" => roots = {} /\ ~plan.twice

Scheduled == \A i \in Task : plan.phase[i] = "single_spark" => status[i] # "deferred"

WalkInv == Stacked /\ Path /\ Leftover /\ Looked /\ Closed /\ Founded /\ Rooted

IInv == TypeOK /\ WalkInv /\ Judged /\ Scheduled

----------------------------------------------------------------------------
\* What the assumptions say of the plan in hand.
LEMMA PlanTypes ==
  ASSUME TypeOK
  PROVE  /\ plan \in Plan
         /\ plan.deps \in [Task -> SUBSET (Task \cup {Absent})]
         /\ plan.owner \in [Task -> Agent \cup {Stranger}]
         /\ plan.start \in [Task -> Status]
  BY PlanAssumption DEF TypeOK, Plan

\* The initial states satisfy the invariant: nothing was visited.
LEMMA InitIInv == ASSUME Init PROVE IInv
<1>1. plan \in Plan /\ plan \in Plans
  BY PlanAssumption DEF Init
<1>2. TypeOK
  BY <1>1 DEF Init, TypeOK, Plan
<1>3. WalkInv
  BY <1>1, <1>2 DEF Init, TypeOK, WalkInv, Stacked, Path, Leftover, Looked, Closed, Founded, Rooted
<1>4. Judged /\ Scheduled
  BY <1>1, StatusAssumption DEF Init, Judged, Scheduled
<1> QED
  BY <1>2, <1>3, <1>4 DEF IInv

\* Steps that leave the walk alone.
LEMMA WalkUnchanged ==
  ASSUME WalkInv, UNCHANGED <<plan, walk>>
  PROVE  WalkInv'
  BY DEF walk, WalkInv, Stacked, Path, Leftover, Looked, Closed, Founded, Rooted, BadPhase, Unfit

\* Entering a task that is neither active nor seen puts it on top of a path.
LEMMA EnterInv ==
  ASSUME TypeOK, Stacked, NEW i \in Task, i \notin active, Enter(i)
  PROVE  /\ stack' \in Seq(Task)
         /\ Len(stack') = Len(stack) + 1
         /\ Len(stack) \in Nat
         /\ stack'[Len(stack) + 1] = i
         /\ \A k \in 1..Len(stack) : stack'[k] = stack[k]
         /\ \A j, k \in 1..Len(stack') : stack'[j] = stack'[k] => j = k
         /\ \A x \in Task : x \in active' <=> \E k \in 1..Len(stack') : stack'[k] = x
<1>1. /\ stack' \in Seq(Task)
      /\ Len(stack') = Len(stack) + 1
      /\ Len(stack) \in Nat
      /\ stack'[Len(stack) + 1] = i
      /\ \A k \in 1..Len(stack) : stack'[k] = stack[k]
  BY DEF Enter, TypeOK
<1>2. \A k \in 1..Len(stack) : stack[k] # i
  BY DEF Stacked
<1>3. \A j, k \in 1..Len(stack') : stack'[j] = stack'[k] => j = k
  BY <1>1, <1>2 DEF Stacked
<1>4. ASSUME NEW x \in Task
      PROVE  x \in active' <=> \E k \in 1..Len(stack') : stack'[k] = x
  <2>1. x \in active' <=> x \in active \/ x = i
    BY DEF Enter
  <2>2. x \in active <=> \E k \in 1..Len(stack) : stack[k] = x
    BY DEF Stacked
  <2> QED
    BY <1>1, <2>1, <2>2
<1> QED
  BY <1>1, <1>3, <1>4

\* The outer loop's step.
LEMMA RootInv == ASSUME IInv, NEW i \in Task, Root(i) PROVE TypeOK' /\ WalkInv'
<1> USE DEF IInv, WalkInv
<1>0. stack = <<>> /\ Len(stack) = 0 /\ i # None
  BY NameAssumption DEF Root, Rooted
<1>1. CASE i \in seen /\ UNCHANGED <<stack, active, seen>>
  <2>1. TypeOK'
    BY <1>1 DEF Root, TypeOK
  <2> QED
    BY <1>0, <1>1, <2>1 DEF Root, Stacked, Path, Leftover, Looked, Closed, Founded, Rooted, BadPhase, Unfit
<1>2. CASE i \notin seen /\ Enter(i)
  <2>0. i \notin active
    BY <1>0 DEF Stacked
  <2>1. /\ stack' \in Seq(Task) /\ Len(stack') = 1 /\ stack'[1] = i
        /\ \A j, k \in 1..Len(stack') : stack'[j] = stack'[k] => j = k
        /\ \A x \in Task : x \in active' <=> \E k \in 1..Len(stack') : stack'[k] = x
    BY <1>0, <1>2, <2>0, EnterInv
  <2>2. TypeOK'
    BY <1>2, <2>1 DEF Root, TypeOK, Enter
  <2>3. Stacked' /\ Path'
    BY <1>2, <2>1, <1>0 DEF Stacked, Path, Enter, TypeOK
  <2>4. Leftover' /\ Closed' /\ Founded'
    BY <1>2 DEF Root, Enter, Leftover, Closed, Founded, BadPhase
  <2>5. Looked'
    <3>1. left'[i] = plan'.deps[i]
      BY <1>2, <2>0 DEF Root, Leftover
    <3> QED
      BY <2>1, <3>1 DEF Looked
  <2>6. Rooted'
    BY <1>0, <1>2, <2>1 DEF Root, Rooted, Enter, Unfit
  <2> QED
    BY <2>2, <2>3, <2>4, <2>5, <2>6
<1> QED
  BY <1>1, <1>2 DEF Root

\* A turn of visit's loop that does not raise.
LEMMA DependInv ==
  ASSUME IInv, NEW d \in Task \cup {Absent}, Depend(d), ~Raises(Top, d)
  PROVE  TypeOK' /\ WalkInv'
<1> USE DEF IInv, WalkInv
<1> DEFINE n == Len(stack)
<1>0. /\ n \in Nat \ {0} /\ stack \in Seq(Task)
      /\ Top = stack[n] /\ Top \in Task
      /\ d \in Task /\ d \notin active /\ ~BadPhase(Top, d)
      /\ left' = [left EXCEPT ![Top] = @ \ {d}]
      /\ d \in plan.deps[Top]
      /\ UNCHANGED <<plan, verdict, roots, root, status>>
  BY DEF Depend, TypeOK, Top, Raises, Leftover
<1>1. /\ left' \in [Task -> SUBSET (Task \cup {Absent})]
      /\ left'[Top] = left[Top] \ {d}
      /\ \A i \in Task \ {Top} : left'[i] = left[i]
  BY <1>0 DEF TypeOK
<1>2. Top \in active
  BY <1>0 DEF Stacked
<1>a. \A k \in 1..n : stack[k] \in Task /\ (k # n => stack[k] # Top)
  BY <1>0 DEF Stacked
<1>4. CASE d \in seen /\ UNCHANGED <<stack, active, seen>>
  <2>1. TypeOK'
    BY <1>0, <1>1, <1>4 DEF TypeOK
  <2>2. Stacked' /\ Path' /\ Closed' /\ Founded' /\ Rooted' /\ Leftover'
    BY <1>0, <1>1, <1>2, <1>4 DEF Stacked, Path, Closed, Founded, Rooted, Leftover, BadPhase, Unfit
  <2>3. Looked'
    <3> SUFFICES ASSUME NEW k \in 1..n, NEW e \in plan.deps[stack[k]] \ left'[stack[k]]
                 PROVE  /\ ~BadPhase(stack[k], e)
                        /\ e \in seen \/ (k < n /\ e = stack[k + 1])
      BY <1>0, <1>4 DEF Looked, BadPhase
    <3>1. CASE e \notin left[stack[k]]
      BY <3>1 DEF Looked
    <3>2. CASE e \in left[stack[k]]
      <4>1. stack[k] = Top /\ e = d
        BY <1>1, <1>a, <3>2
      <4> QED
        BY <1>0, <1>4, <4>1
    <3> QED
      BY <3>1, <3>2
  <2> QED
    BY <2>1, <2>2, <2>3
<1>5. CASE d \notin seen /\ Enter(d)
  <2>1. /\ stack' \in Seq(Task) /\ Len(stack') = n + 1 /\ stack'[n + 1] = d
        /\ \A k \in 1..n : stack'[k] = stack[k]
        /\ \A j, k \in 1..Len(stack') : stack'[j] = stack'[k] => j = k
        /\ \A x \in Task : x \in active' <=> \E k \in 1..Len(stack') : stack'[k] = x
    BY <1>0, <1>5, EnterInv
  <2>2. TypeOK'
    BY <1>0, <1>1, <1>5, <2>1 DEF TypeOK, Enter
  <2>3. Stacked'
    BY <1>0, <1>5, <2>1 DEF Stacked, Enter
  <2>4. Path'
    <3> SUFFICES ASSUME NEW k \in 1..n PROVE stack'[k + 1] \in plan.deps[stack'[k]]
      BY <1>0, <2>1 DEF Path
    <3>1. CASE k = n
      BY <1>0, <2>1, <3>1
    <3>2. CASE k # n
      <4>1. k \in 1..(n - 1) /\ k + 1 \in 1..n
        BY <1>0, <3>2
      <4> QED
        BY <2>1, <4>1 DEF Path
    <3> QED
      BY <3>1, <3>2
  <2>5. Leftover'
    BY <1>0, <1>1, <1>2, <1>5 DEF Leftover, Enter
  <2>6. Looked'
    <3> SUFFICES ASSUME NEW k \in 1..(n + 1), NEW e \in plan.deps[stack'[k]] \ left'[stack'[k]]
                 PROVE  /\ ~BadPhase(stack'[k], e)
                        /\ e \in seen \/ (k < n + 1 /\ e = stack'[k + 1])
      BY <1>0, <1>5, <2>1 DEF Looked, BadPhase, Enter
    <3>1. CASE k = n + 1
      <4>1. stack'[k] = d /\ left[d] = plan.deps[d] /\ d # Top
        BY <1>0, <1>2, <1>5, <2>1, <3>1 DEF Leftover
      <4> QED
        BY <1>0, <1>1, <4>1
    <3>2. CASE k \in 1..n /\ e \notin left[stack[k]]
      <4>1. stack'[k] = stack[k] /\ e \in plan.deps[stack[k]] \ left[stack[k]]
        BY <2>1, <3>2
      <4>2. ~BadPhase(stack[k], e) /\ (e \in seen \/ (k < n /\ e = stack[k + 1]))
        BY <3>2, <4>1 DEF Looked
      <4>3. k < n => stack'[k + 1] = stack[k + 1] /\ k < n + 1
        BY <1>0, <2>1, <3>2
      <4> QED
        BY <4>1, <4>2, <4>3
    <3>3. CASE k \in 1..n /\ e \in left[stack[k]]
      <4>1. stack'[k] = Top /\ e = d /\ k = n
        BY <1>0, <1>1, <1>a, <2>1, <3>3
      <4> QED
        BY <1>0, <2>1, <4>1
    <3> QED
      BY <1>0, <3>1, <3>2, <3>3
  <2>7. Closed' /\ Founded'
    BY <1>0, <1>5 DEF Closed, Founded, Enter, BadPhase
  <2>8. Rooted'
    BY <1>0, <1>5, <2>1 DEF Rooted, Enter, Unfit
  <2> QED
    BY <2>2, <2>3, <2>4, <2>5, <2>6, <2>7, <2>8
<1> QED
  BY <1>4, <1>5 DEF Depend

\* What popping a stack leaves.
LEMMA ShorterStack ==
  ASSUME NEW S, NEW s \in Seq(S), s # <<>>
  PROVE  /\ SubSeq(s, 1, Len(s) - 1) \in Seq(S)
         /\ Len(SubSeq(s, 1, Len(s) - 1)) = Len(s) - 1
         /\ \A k \in 1..(Len(s) - 1) : SubSeq(s, 1, Len(s) - 1)[k] = s[k]
<1> DEFINE m == Len(s) - 1
<1>1. m \in Nat /\ 1 \in Int /\ m \in Int /\ \A i \in 1..m : s[i] \in S
  OBVIOUS
<1> HIDE DEF m
<1>2. /\ SubSeq(s, 1, m) \in Seq(S)
      /\ Len(SubSeq(s, 1, m)) = IF 1 <= m THEN m - 1 + 1 ELSE 0
      /\ \A i \in 1..(m - 1 + 1) : SubSeq(s, 1, m)[i] = s[1 + i - 1]
  BY <1>1, SubSeqProperties
<1>3. \A i \in 1..m : i + 1 - 1 = i /\ 1 + i - 1 = i
  BY <1>1
<1>4. /\ SubSeq(s, 1, m) \in Seq(S)
      /\ Len(SubSeq(s, 1, m)) = m
      /\ \A i \in 1..m : SubSeq(s, 1, m)[i] = s[i]
  BY <1>1, <1>2, <1>3
<1> QED
  BY <1>4 DEF m

\* A visit that has looked at all its dependencies returns: its task joins the
\* seen ones, which already hold everything it depends on.
LEMMA ReturnInv == ASSUME IInv, Return PROVE TypeOK' /\ WalkInv'
<1> USE DEF IInv, WalkInv
<1> DEFINE n == Len(stack)
<1>0. /\ n \in Nat \ {0} /\ stack \in Seq(Task)
      /\ Top = stack[n] /\ Top \in Task /\ left[Top] = {}
      /\ active' = active \ {Top} /\ seen' = seen \cup {Top}
      /\ UNCHANGED <<plan, verdict, roots, root, left, status>>
  BY DEF Return, TypeOK, Top
<1>1. /\ stack' \in Seq(Task) /\ Len(stack') = n - 1
      /\ \A k \in 1..(n - 1) : stack'[k] = stack[k]
  BY <1>0, ShorterStack DEF Return
<1>2. \A k \in 1..(n - 1) : stack[k] # Top
  BY <1>0 DEF Stacked
<1>3. Top \in active /\ Top \notin seen
  BY <1>0 DEF Stacked
<1>4. \A d \in plan.deps[Top] : d \in seen /\ ~BadPhase(Top, d)
  BY <1>0 DEF Looked
<1>5. TypeOK'
  BY <1>0, <1>1 DEF TypeOK
<1>6. Stacked'
  <2>1. ASSUME NEW i \in Task
        PROVE  i \in active' <=> \E k \in 1..Len(stack') : stack'[k] = i
    <3>1. i \in active <=> \E k \in 1..n : stack[k] = i
      BY DEF Stacked
    <3> QED
      BY <1>0, <1>1, <1>2, <3>1
  <2>2. \A j, k \in 1..Len(stack') : stack'[j] = stack'[k] => j = k
    BY <1>0, <1>1 DEF Stacked
  <2> QED
    BY <1>0, <2>1, <2>2 DEF Stacked
<1>7. Path'
  BY <1>0, <1>1 DEF Path
<1>8. Leftover'
  BY <1>0 DEF Leftover
<1>9. Looked'
  <2> SUFFICES ASSUME NEW k \in 1..(n - 1), NEW e \in plan.deps[stack[k]] \ left[stack[k]]
               PROVE  /\ ~BadPhase(stack[k], e)
                      /\ e \in seen' \/ (k < n - 1 /\ e = stack'[k + 1])
    BY <1>0, <1>1 DEF Looked, BadPhase
  <2>1. ~BadPhase(stack[k], e) /\ (e \in seen \/ e = stack[k + 1])
    BY <1>0 DEF Looked
  <2>2. CASE k + 1 = n
    BY <1>0, <2>1, <2>2
  <2>3. CASE k + 1 # n
    <3>1. k < n - 1 /\ stack'[k + 1] = stack[k + 1]
      BY <1>0, <1>1, <2>3
    <3> QED
      BY <1>0, <2>1, <3>1
  <2> QED
    BY <2>2, <2>3
<1>10. Closed'
  BY <1>0, <1>4 DEF Closed, BadPhase
<1>11. Founded'
  <2> SUFFICES ASSUME NEW C \in SUBSET (seen \cup {Top}), C # {}
               PROVE  \E i \in C : plan.deps[i] \cap C = {}
    BY <1>0 DEF Founded
  <2>1. CASE C \cap seen = {}
    BY <1>3, <1>4, <2>1
  <2>2. CASE C \cap seen # {}
    <3>1. PICK i \in C \cap seen : plan.deps[i] \cap (C \cap seen) = {}
      BY <2>2 DEF Founded
    <3>2. plan.deps[i] \subseteq seen
      BY <3>1 DEF Closed
    <3> QED
      BY <3>1, <3>2
  <2> QED
    BY <2>1, <2>2
<1>12. Rooted'
  <2>1. \A i \in Task \ roots : i \in seen' /\ ~Unfit(i)
    BY <1>0 DEF Rooted
  <2>2. root # None => root \in seen' \/ (stack' # <<>> /\ stack'[1] = root)
    <3>1. CASE n = 1
      BY <1>0, <3>1 DEF Rooted
    <3>2. CASE n # 1
      BY <1>0, <1>1, <3>2 DEF Rooted
    <3> QED
      BY <3>1, <3>2
  <2>3. root # None
    BY DEF Return, Rooted
  <2> QED
    BY <1>0, <2>1, <2>2, <2>3 DEF Rooted, Unfit
<1> QED
  BY <1>5, <1>6, <1>7, <1>8, <1>9, <1>10, <1>11, <1>12

\* A task that passes the outer loop's questions was seen and is fit.
LEMMA CheckTaskInv ==
  ASSUME IInv, CheckTask, ~Unfit(root)
  PROVE  TypeOK' /\ WalkInv'
<1> USE DEF IInv, WalkInv
<1>1. TypeOK'
  BY DEF CheckTask, TypeOK
<1>2. root \in seen
  BY DEF CheckTask, Rooted
<1> QED
  BY <1>1, <1>2 DEF CheckTask, Stacked, Path, Leftover, Looked, Closed, Founded, Rooted, BadPhase, Unfit

\* The stack from a task that is still being visited up to its top is a set of
\* tasks that wait for one another.
LEMMA CycleIsFault ==
  ASSUME TypeOK, Stacked, Path, stack # <<>>, NEW d \in active, d \in plan.deps[Top]
  PROVE  Faulty
<1> DEFINE n == Len(stack)
<1>0. n \in Nat \ {0} /\ \A k \in 1..n : stack[k] \in Task
  BY DEF TypeOK
<1>1. PICK j \in 1..n : stack[j] = d
  BY DEF Stacked, TypeOK
<1> DEFINE C == {stack[k] : k \in j..n}
<1>2. C \in SUBSET Task /\ d \in C
  BY <1>0, <1>1
<1>3. ASSUME NEW i \in C PROVE plan.deps[i] \cap C # {}
  <2>1. PICK k \in j..n : stack[k] = i
    OBVIOUS
  <2>2. CASE k = n
    BY <1>2, <2>1, <2>2 DEF Top
  <2>3. CASE k # n
    <3>1. k \in 1..(n - 1) /\ k + 1 \in j..n
      BY <1>0, <2>3
    <3>2. stack[k + 1] \in plan.deps[i] /\ stack[k + 1] \in C
      BY <2>1, <3>1 DEF Path
    <3> QED
      BY <3>2
  <2> QED
    BY <2>2, <2>3
<1>4. Deadlocked(C)
  BY <1>2, <1>3 DEF Deadlocked
<1> QED
  BY <1>2, <1>4 DEF Faulty

\* Whatever the walk rejects has a fault.
LEMMA RaisesIsFault ==
  ASSUME IInv, NEW d \in Task \cup {Absent}, Depend(d), Raises(Top, d)
  PROVE  Faulty
<1>1. Top \in Task /\ d \in plan.deps[Top] /\ stack # <<>>
  BY DEF IInv, WalkInv, TypeOK, Leftover, Depend, Top
<1>2. CASE d \in active
  BY <1>1, <1>2, CycleIsFault DEF IInv, WalkInv
<1>3. CASE d \notin Task \/ BadPhase(Top, d)
  BY <1>1, <1>3 DEF Faulty
<1> QED
  BY <1>2, <1>3 DEF Raises

\* A fault is one of the plan, which no step changes.
LEMMA FaultStays == ASSUME UNCHANGED plan PROVE Faulty' <=> Faulty
  BY DEF Faulty, Unfit, BadPhase, Deadlocked

\* A step that rejects leaves the rest of the invariant as it is.
LEMMA RejectInv == ASSUME IInv, Faulty, Reject PROVE IInv'
<1>1. TypeOK'
  BY DEF IInv, TypeOK, Reject, walk
<1>2. WalkInv'
  BY WalkUnchanged DEF IInv, Reject
<1>3. Judged'
  BY FaultStays DEF Reject, Judged
<1>4. Scheduled'
  BY DEF IInv, Scheduled, Reject
<1> QED
  BY <1>1, <1>2, <1>3, <1>4 DEF IInv

\* While the walk goes on, the verdict and the statuses stay.
LEMMA WalkingInv ==
  ASSUME IInv, TypeOK', WalkInv', verdict = "walking", UNCHANGED <<plan, verdict, status>>
  PROVE  IInv'
  BY DEF IInv, Judged, Scheduled

\* Agents change the status of a task and nothing else.
LEMMA MarkInv ==
  ASSUME IInv, NEW i \in Task, NEW from, NEW to \in Status \ {"deferred"}, Mark(i, from, to)
  PROVE  IInv'
<1>1. TypeOK'
  BY DEF IInv, TypeOK, Mark, walk
<1>2. WalkInv'
  BY WalkUnchanged DEF IInv, Mark
<1>3. Judged'
  BY FaultStays DEF IInv, Judged, Mark, walk
<1>4. Scheduled'
  BY DEF IInv, TypeOK, Scheduled, Mark
<1> QED
  BY <1>1, <1>2, <1>3, <1>4 DEF IInv

\* Every step keeps the invariant.
LEMMA NextIInv == ASSUME IInv, [Next]_vars PROVE IInv'
<1>1. CASE DuplicateIds
  BY <1>1, RejectInv DEF DuplicateIds, Faulty
<1>2. ASSUME NEW i \in Task, Root(i) PROVE IInv'
  BY <1>2, RootInv, WalkingInv DEF Root, Walking
<1>3. ASSUME NEW d \in Task \cup {Absent}, Depend(d) PROVE IInv'
  <2>1. CASE Raises(Top, d)
    BY <1>3, <2>1, RaisesIsFault, RejectInv DEF Depend
  <2>2. CASE ~Raises(Top, d)
    BY <1>3, <2>2, DependInv, WalkingInv DEF Depend, Walking
  <2> QED
    BY <2>1, <2>2
<1>4. CASE Return
  BY <1>4, ReturnInv, WalkingInv DEF Return, Walking
<1>5. CASE CheckTask
  <2>1. CASE Unfit(root)
    <3>1. Faulty
      BY <1>5, <2>1 DEF CheckTask, IInv, TypeOK, Faulty
    <3> QED
      BY <1>5, <2>1, <3>1, RejectInv DEF CheckTask
  <2>2. CASE ~Unfit(root)
    BY <1>5, <2>2, CheckTaskInv, WalkingInv DEF CheckTask, Walking
  <2> QED
    BY <2>1, <2>2
<1>6. CASE Accept
  <2>1. TypeOK' /\ Scheduled'
    BY <1>6 DEF Accept, IInv, TypeOK, Scheduled, walk
  <2>2. WalkInv'
    BY <1>6, WalkUnchanged DEF Accept, IInv
  <2>3. Judged'
    BY <1>6 DEF Accept, Walking, Judged, walk
  <2> QED
    BY <2>1, <2>2, <2>3 DEF IInv
<1>7. ASSUME NEW i \in Task,
             (\E a \in Agent : Take(a, i)) \/ Finish(i) \/ Block(i) \/ Unblock(i)
      PROVE  IInv'
  BY <1>7, MarkInv DEF Take, Finish, Block, Unblock, Status
<1>8. CASE UNCHANGED vars
  BY <1>8, WalkUnchanged, FaultStays DEF vars, walk, IInv, TypeOK, Judged, Scheduled
<1> QED
  BY <1>1, <1>2, <1>3, <1>4, <1>5, <1>6, <1>7, <1>8 DEF Next, Walk

----------------------------------------------------------------------------
\* The invariant holds in every behaviour of the walk and of the agents.
THEOREM IInvariant == Spec => []IInv
<1>1. Init => IInv
  BY InitIInv
<1>2. IInv /\ [Next]_vars => IInv'
  BY NextIInv
<1> QED
  BY <1>1, <1>2, PTL DEF Spec

\* In an accepted plan every task was seen and is fit.
LEMMA AcceptedSeen ==
  ASSUME IInv, verdict = "accepted"
  PROVE  ~plan.twice /\ seen = Task /\ \A i \in Task : ~Unfit(i)
  BY DEF IInv, TypeOK, WalkInv, Judged, Rooted

\* validate_plan accepts a plan only when no tasks wait for one another and
\* nothing else is wrong with it, and rejects it only when something is.
THEOREM VerdictIsSound == Spec => []VerdictSound
<1>1. IInv => VerdictSound
  <2> SUFFICES ASSUME IInv, verdict = "accepted", Faulty PROVE FALSE
    BY DEF VerdictSound, IInv, Judged
  <2>1. ~plan.twice /\ seen = Task /\ \A i \in Task : ~Unfit(i)
    BY AcceptedSeen
  <2>2. \A i \in Task : \A d \in plan.deps[i] : d \in Task /\ ~BadPhase(i, d)
    BY <2>1 DEF IInv, WalkInv, Closed
  <2>3. \A C \in SUBSET Task : ~Deadlocked(C)
    BY <2>1 DEF IInv, WalkInv, Founded, Deadlocked
  <2> QED
    BY <2>1, <2>2, <2>3 DEF Faulty
<1> QED
  BY <1>1, IInvariant, PTL

\* Of an accepted plan whose first phase is not done, a task is under way or
\* next_task lists one to the agent who owns it.
THEOREM PlanNeverStuck == Spec => []NeverStuck
<1>1. IInv => NeverStuck
  <2> DEFINE C == {i \in Task : plan.phase[i] = "single_spark" /\ status[i] # "done"}
  <2> SUFFICES ASSUME IInv, verdict = "accepted", C # {},
                      \A i \in Task : status[i] \notin {"in_progress", "blocked"}
               PROVE  \E a \in Agent : Listed(a) # {}
    BY DEF NeverStuck
  <2>1. seen = Task /\ \A i \in Task : ~Unfit(i)
    BY AcceptedSeen
  <2>2. PICK i \in C : plan.deps[i] \cap C = {}
    BY <2>1 DEF IInv, WalkInv, Founded
  <2>3. plan.deps[i] \subseteq Done
    BY <2>1, <2>2 DEF IInv, WalkInv, Closed, BadPhase, Done
  <2>4. status[i] \in {"todo", "ready"}
    BY <2>2 DEF IInv, TypeOK, Scheduled, Status
  <2>5. plan.owner[i] \in Agent
    BY <2>1, <2>2 DEF Unfit
  <2>6. i \in Listed(plan.owner[i])
    BY <2>2, <2>3, <2>4 DEF Listed
  <2> QED
    BY <2>5, <2>6
<1> QED
  BY <1>1, IInvariant, PTL
=============================================================================
