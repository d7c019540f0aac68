-------------------------- MODULE CheckpointStore --------------------------
(***************************************************************************)
(* What src/mlx_spark/reference/training.py promises of a checkpoint path: *)
(* a save replaces the checkpoint at once by the step the trainer is at,   *)
(* and a trainer that resumes is at the step that was saved.  As the       *)
(* fixture is deterministic, a step stands for its weights.                *)
(***************************************************************************)
EXTENDS Naturals

CONSTANTS Trainer,  \* processes that train the fixture
          Foreign,  \* a file that is no recognized checkpoint
          NoFile    \* the path does not exist

VARIABLES value,    \* what the path holds
          settled,  \* what it holds after a power loss that keeps nothing new
          step      \* the step each trainer is at

vars == <<value, settled, step>>

Init == /\ value \in {Foreign, NoFile}
        /\ settled = value
        /\ step = [s \in Trainer |-> 0]

Train(s) == /\ step' = [step EXCEPT ![s] = @ + 1]
            /\ UNCHANGED <<value, settled>>

Save(s) == /\ value' = step[s]
           /\ UNCHANGED <<settled, step>>

Resume(s) == /\ value \in Nat
             /\ step' = [step EXCEPT ![s] = value]
             /\ UNCHANGED <<value, settled>>

\* The trainer's memory goes; its next process begins at zero.
Crash(s) == /\ step' = [step EXCEPT ![s] = 0]
            /\ UNCHANGED <<value, settled>>

Settle == /\ settled' = value
          /\ UNCHANGED <<value, step>>

PowerLoss == /\ value' \in {value, settled}
             /\ settled' = value'
             /\ step' = [s \in Trainer |-> 0]

Next == \/ \E s \in Trainer : Train(s) \/ Save(s) \/ Resume(s) \/ Crash(s)
        \/ Settle \/ PowerLoss

Spec == Init /\ [][Next]_vars
=============================================================================
