----------------------- MODULE MCReferenceCheckpoint -----------------------
(* Two trainers that save the same path, with a kill anywhere and power    *)
(* losses; and with names that mkstemp draws again.                        *)
EXTENDS ReferenceCheckpoint, TLC

Symmetry == Permutations(Trainer) \cup Permutations(TempName)
=============================================================================
