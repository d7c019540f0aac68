-------------------------- MODULE MCCgroupHeadroom --------------------------
(***************************************************************************)
(* Placements of a process: pure v2, a container with and without a cgroup *)
(* namespace, hybrid hosts with the v1 mount before, after or missing, and *)
(* a namespace root with a mount of a group below before its own.          *)
(***************************************************************************)
EXTENDS CgroupHeadroom

A == <<"a">>
AB == <<"a", "b">>
B == <<"b">>
MCGroup == {<<>>, A, AB, B}
M(v, d) == [version |-> v, dir |-> d]
Placed(att, h1, h2, r, ms) ==
  [attached |-> att, home |-> <<h1, h2>>, root |-> <<r, r>>, mounts |-> ms]
MCHosts == {
  Placed(2, None, AB, <<>>, <<M(2, <<>>)>>),                  \* plain v2
  Placed(2, None, AB, A, <<M(2, B), M(2, A)>>),               \* namespaced, a mount outside first
  Placed(2, None, AB, AB, <<M(2, AB)>>),                      \* container at its namespace root
  Placed(2, None, A, A, <<M(2, AB), M(2, A)>>),               \* the same, a group below mounted first
  Placed(1, AB, None, <<>>, <<M(1, B), M(1, A)>>),            \* v1 container without namespace
  Placed(1, AB, B, <<>>, <<M(2, <<>>), M(1, <<>>)>>),         \* hybrid
  Placed(1, AB, B, <<>>, <<M(2, <<>>)>>),                     \* hybrid, v1 not mounted here
  Placed(1, AB, <<>>, B, <<M(1, <<>>), M(2, B)>>)}            \* hybrid, outside the namespace
=============================================================================
