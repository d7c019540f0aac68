------------------------- MODULE MCGdnDecodeKernel -------------------------
(* Blocks of two, four and eight threads, for every cell of grids with one *)
(* and with two value heads to a key head, and launches the checks must    *)
(* refuse.  The contents of the arrays differ from index to index.         *)
EXTENDS GdnDecodeKernel

Shape(B, Hk, Hv, n, Dv) == [B |-> B, Hk |-> Hk, Hv |-> Hv, Dk |-> n, Dv |-> Dv]

MCDims == {Shape(2, 2, 2, 4, 2), Shape(1, 2, 4, 4, 1), Shape(2, 1, 2, 2, 2),
           Shape(1, 1, 2, 8, 1)}
          \cup {Shape(1, 2, 3, 4, 1), Shape(1, 1, 1, 3, 1), Shape(5, 1, 1, 4, 1),
                Shape(3, 1, 3, 4, 1), Shape(0, 1, 1, 4, 1), Shape(1, 1, 1, 4, 0)}

Values(n, m) == [i \in 0..63 |-> ((i * n) % m) - 1]

MCq == Values(3, 7)
MCk == Values(5, 7)
MCv == Values(2, 5)
MCg == Values(1, 4)
MCbeta == Values(3, 4)
MCstate == Values(7, 11)
=============================================================================
