------------------------- MODULE MCAtomicWriteNew -------------------------
(* Three runs race for one output with as many temporary names, so that a  *)
(* freed name is drawn again while its former owner is still running, and  *)
(* one power loss.  Runs are interchangeable, and so are names.            *)
EXTENDS AtomicWriteNew, TLC

Symmetry == Permutations(Process) \cup Permutations(TempName)
=============================================================================
