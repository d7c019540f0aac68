------------------------ MODULE MCSourceResolution ------------------------
(* A git source that declares one pin, then a model repository; two        *)
(* revisions of each, and hosts that hold sound and unsound ones.          *)
EXTENDS SourceResolution

CONSTANTS mlx, qwen, cutlass, r1, r2

MCAgenda == <<mlx, cutlass, qwen>>

\* The second revision may be missing, unaudited, without the declaration, or
\* of an index that only the siblings of its own or of the other cover.
MCWorld ==
  {[known    |-> [i \in Item |-> IF i = mlx THEN known ELSE Revision],
    audited  |-> [s \in Source |-> audited],
    declares |-> declares \X Pin,
    covers   |-> covers] :
      known    \in {{r1}, Revision},
      audited  \in {{r1}, Revision},
      declares \in {{r1}, Revision},
      covers   \in {{<<r1, r1>>, <<r2, r2>>}, {<<r1, r1>>, <<r1, r2>>}}}
=============================================================================
