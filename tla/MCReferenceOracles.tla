------------------------- MODULE MCReferenceOracles -------------------------
(* Four tokens under every mask, two key heads of two value heads each,    *)
(* and elements between -2 and 2 spread by two different multipliers.      *)
EXTENDS ReferenceOracles

Element(seed, i, j, h, c) == ((seed * (7 * i + 3 * j + 5 * h + 2 * c) + i + c) % 5) - 2

Tensor(seed, mask) ==
  [q |-> [n \in Tokens |-> [h \in KHeads |-> [c \in Cols |-> Element(seed, 1, n, h, c)]]],
   k |-> [n \in Tokens |-> [h \in KHeads |-> [c \in Cols |-> Element(seed, 2, n, h, c)]]],
   v |-> [n \in Tokens |-> [h \in Heads |-> [c \in Rows |-> Element(seed, 3, n, h, c)]]],
   g |-> [n \in Tokens |-> [h \in Heads |-> Element(seed, 4, n, h, 1)]],
   beta |-> [n \in Tokens |-> [h \in Heads |-> Element(seed, 5, n, h, 2)]],
   state |-> [h \in Heads |-> [i \in Rows |-> [c \in Cols |-> Element(seed, 6, i, h, c)]]],
   mask |-> mask,
   dy |-> [n \in Tokens |-> [h \in Heads |-> [c \in Rows |-> Element(seed, 7, n, h, c)]]],
   ds |-> [h \in Heads |-> [i \in Rows |-> [c \in Cols |-> Element(seed, 8, i, h, c)]]]]

MCInputs == {Tensor(seed, mask) : seed \in {2, 3}, mask \in [Tokens -> BOOLEAN]}
=============================================================================
