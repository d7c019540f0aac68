----------------------------- MODULE GdnProofs -----------------------------
(***************************************************************************)
(* What GdnDecodeKernel and ReferenceOracles state, proved for every size  *)
(* and every content of the arrays: first facts about sums; then of the    *)
(* kernel the control of a block, its indices and types, and that the tree *)
(* of partial sums the threads build is the sum it stands for; then of the *)
(* oracles that calls cut at any tokens agree with one pass over all and   *)
(* that no key is seen too early, and that the gradients are derivatives of*)
(* a loss; at last that the kernel computes what the oracle does.          *)
(***************************************************************************)
EXTENDS GdnDecodeKernel, ReferenceOracles, FiniteSetTheorems,
        WellFoundedInduction, TLAPS

(* Sums.                                                                   *)

(* Induction over the naturals, for a set rather than a predicate.         *)
LEMMA Induction ==
  ASSUME NEW S \in SUBSET Nat, 0 \in S, \A n \in S : n + 1 \in S
  PROVE  S = Nat
<1> SUFFICES ASSUME Nat \ S # {} PROVE FALSE
  OBVIOUS
<1> DEFINE Less == OpToRel(<, Nat)
<1>1. IsWellFoundedOn(Less, Nat)
  BY NatLessThanWellFounded, Zenon
<1>2. \A m, n \in Nat : m < n => <<m, n>> \in Less
  BY DEF OpToRel
<1> HIDE DEF Less
<1>3. PICK n \in Nat \ S : \A m \in Nat \ S : <<m, n>> \notin Less
  BY <1>1, WFMin
<1>4. n # 0 /\ n \in Nat
  BY <1>3
<1>5. n - 1 \in Nat /\ n - 1 < n
  BY <1>4
<1>6. n - 1 \in S
  BY <1>2, <1>3, <1>4, <1>5
<1>7. (n - 1) + 1 \in S
  BY <1>6
<1> QED
  BY <1>3, <1>4, <1>7

(* A sum of f over the indices in S, and the index its definition takes out*)
(* first.                                                                  *)
Taken(S) == CHOOSE x \in S : TRUE
Sum(f, S) == FoldFunctionOnSet(LAMBDA x, z : x + z, 0, f, S)

LEMMA TakenOut == ASSUME NEW S, S # {} PROVE Taken(S) \in S
BY DEF Taken

IsSum(h, f, D) == h = [S \in D |-> IF S = {} THEN 0 ELSE f[Taken(S)] + h[S \ {Taken(S)}]]

LEMMA SumIs ==
  ASSUME NEW f, NEW S
  PROVE  Sum(f, S) = (CHOOSE h : IsSum(h, f, SUBSET S))[S]
BY Zenon DEF Sum, FoldFunctionOnSet, MapThenFoldSet, IsSum, Taken

(* The recursive function in the definition of a fold exists.              *)
LEMMA SumExists ==
  ASSUME NEW f, NEW S, IsFiniteSet(S)
  PROVE  \E h : IsSum(h, f, SUBSET S)
<1> DEFINE Small(n) == {U \in SUBSET S : Cardinality(U) <= n}
           Good == {n \in Nat : \E h : IsSum(h, f, Small(n))}
<1>0. \A U \in SUBSET S : /\ IsFiniteSet(U) /\ Cardinality(U) \in Nat
                          /\ Cardinality(U) <= Cardinality(S)
                          /\ Cardinality(U) = 0 => U = {}
  BY FS_Subset, FS_CardinalityType, FS_EmptySet
<1>1. 0 \in Good
  <2> DEFINE h == [U \in Small(0) |-> 0]
  <2>1. \A U \in Small(0) : U = {}
    BY <1>0
  <2>2. IsSum(h, f, Small(0))
    BY <2>1 DEF IsSum
  <2> QED
    BY <2>2
<1>2. ASSUME NEW n \in Good PROVE n + 1 \in Good
  <2>1. PICK h : IsSum(h, f, Small(n))
    OBVIOUS
  <2> DEFINE h2 == [U \in Small(n + 1) |-> IF U = {} THEN 0 ELSE f[Taken(U)] + h[U \ {Taken(U)}]]
  <2>2. \A U \in Small(n) : h[U] = h2[U]
    <3>1. \A U \in Small(n) : U \in Small(n + 1)
      BY <1>0
    <3>2. \A U \in Small(n) : h[U] = IF U = {} THEN 0 ELSE f[Taken(U)] + h[U \ {Taken(U)}]
      BY <2>1 DEF IsSum
    <3> QED
      BY <3>1, <3>2
  <2>3. \A U \in Small(n + 1) : U # {} => U \ {Taken(U)} \in Small(n)
    <3> SUFFICES ASSUME NEW U \in Small(n + 1), U # {} PROVE U \ {Taken(U)} \in Small(n)
      OBVIOUS
    <3>1. Taken(U) \in U
      BY TakenOut
    <3>2. Cardinality(U \ {Taken(U)}) = Cardinality(U) - 1
      BY <1>0, <3>1, FS_RemoveElement
    <3> QED
      BY <1>0, <3>2
  <2>4. IsSum(h2, f, Small(n + 1))
    <3>1. \A U \in Small(n + 1) : (IF U = {} THEN 0 ELSE f[Taken(U)] + h[U \ {Taken(U)}])
                               = (IF U = {} THEN 0 ELSE f[Taken(U)] + h2[U \ {Taken(U)}])
      BY <2>2, <2>3
    <3> QED
      BY <3>1 DEF IsSum
  <2> HIDE DEF h2
  <2>5. \E e : IsSum(e, f, Small(n + 1))
    BY <2>4, Zenon
  <2>6. n + 1 \in Nat
    OBVIOUS
  <2> HIDE DEF Small
  <2> QED
    BY <2>5, <2>6, Zenon
<1>3. Good = Nat
  <2> HIDE DEF Good
  <2>1. Good \in SUBSET Nat
    BY DEF Good
  <2> QED
    BY <1>1, <1>2, <2>1, Induction
<1>4. Cardinality(S) \in Good /\ Small(Cardinality(S)) = SUBSET S
  BY <1>0, <1>3
<1> QED
  BY <1>4

(* Two functions that satisfy the equation agree wherever both are defined.*)
LEMMA SumUnique ==
  ASSUME NEW f, NEW S, NEW R, NEW h1, NEW h2, IsSum(h1, f, SUBSET S), IsSum(h2, f, SUBSET R),
         NEW W, W \subseteq S, W \subseteq R, IsFiniteSet(W)
  PROVE  h1[W] = h2[W]
<1> DEFINE Good == {n \in Nat : \A U \in SUBSET W : Cardinality(U) = n => h1[U] = h2[U]}
<1>0. \A U \in SUBSET W : IsFiniteSet(U) /\ Cardinality(U) \in Nat /\ (Cardinality(U) = 0 => U = {})
  BY FS_Subset, FS_CardinalityType, FS_EmptySet
<1>1. \A U \in SUBSET W : /\ h1[U] = IF U = {} THEN 0 ELSE f[Taken(U)] + h1[U \ {Taken(U)}]
                          /\ h2[U] = IF U = {} THEN 0 ELSE f[Taken(U)] + h2[U \ {Taken(U)}]
  BY DEF IsSum
<1>2. 0 \in Good
  BY <1>0, <1>1
<1>3. ASSUME NEW n \in Good PROVE n + 1 \in Good
  <2> SUFFICES ASSUME NEW U \in SUBSET W, Cardinality(U) = n + 1 PROVE h1[U] = h2[U]
    OBVIOUS
  <2>0. Cardinality(U) # 0
    OBVIOUS
  <2>1. U # {}
    BY <2>0, FS_EmptySet
  <2>2. Taken(U) \in U
    BY <2>1, TakenOut
  <2>3. Cardinality(U \ {Taken(U)}) = n
    <3>1. IsFiniteSet(U)
      BY <1>0
    <3>2. Cardinality(U \ {Taken(U)}) = Cardinality(U) - 1
      BY <2>2, <3>1, FS_RemoveElement
    <3> QED
      BY <3>2
  <2>4. h1[U \ {Taken(U)}] = h2[U \ {Taken(U)}]
    BY <2>3
  <2> QED
    BY <1>1, <2>1, <2>4
<1>4. Good = Nat
  <2> HIDE DEF Good
  <2>1. Good \in SUBSET Nat
    BY DEF Good
  <2> QED
    BY <1>2, <1>3, <2>1, Induction
<1> QED
  BY <1>0, <1>4

(* The equation of a sum.                                                  *)
LEMMA SumEquation ==
  ASSUME NEW f, NEW S, IsFiniteSet(S)
  PROVE  Sum(f, S) = IF S = {} THEN 0 ELSE f[Taken(S)] + Sum(f, S \ {Taken(S)})
<1> DEFINE h == CHOOSE h : IsSum(h, f, SUBSET S)
<1>1. IsSum(h, f, SUBSET S) /\ Sum(f, S) = h[S]
  BY SumExists, SumIs
<1> HIDE DEF h
<1>2. h[S] = IF S = {} THEN 0 ELSE f[Taken(S)] + h[S \ {Taken(S)}]
  BY <1>1 DEF IsSum
<1>3. CASE S # {}
  <2> DEFINE R == S \ {Taken(S)}
             e == CHOOSE e : IsSum(e, f, SUBSET R)
  <2>1. IsFiniteSet(R)
    BY FS_RemoveElement
  <2>2. IsSum(e, f, SUBSET R) /\ Sum(f, R) = e[R]
    BY <2>1, SumExists, SumIs
  <2>3. R \subseteq S /\ R \subseteq R
    OBVIOUS
  <2> HIDE DEF e, R
  <2>4. IsSum(e, f, SUBSET R)
    BY <2>2
  <2>5. IsSum(h, f, SUBSET S)
    BY <1>1
  <2>6. h[R] = e[R]
    BY <2>1, <2>3, <2>4, <2>5, SumUnique
  <2> QED
    BY <1>1, <1>2, <1>3, <2>2, <2>6 DEF R
<1> QED
  BY <1>1, <1>2, <1>3


(* A sum of integers is one.                                               *)
LEMMA SumType ==
  ASSUME NEW S, IsFiniteSet(S), NEW f, \A i \in S : f[i] \in Int
  PROVE  Sum(f, S) \in Int
<1> DEFINE Good == {n \in Nat : \A U \in SUBSET S : Cardinality(U) = n => Sum(f, U) \in Int}
<1>0. \A U \in SUBSET S : IsFiniteSet(U) /\ Cardinality(U) \in Nat /\ (Cardinality(U) = 0 => U = {})
  BY FS_Subset, FS_CardinalityType, FS_EmptySet
<1>1. 0 \in Good
  <2>1. Sum(f, {}) = 0
    BY FS_EmptySet, SumEquation
  <2> QED
    BY <1>0, <2>1
<1>2. ASSUME NEW n \in Good PROVE n + 1 \in Good
  <2> SUFFICES ASSUME NEW U \in SUBSET S, Cardinality(U) = n + 1 PROVE Sum(f, U) \in Int
    OBVIOUS
  <2>1. U # {} /\ IsFiniteSet(U)
    BY <1>0, FS_EmptySet
  <2>2. Taken(U) \in U /\ Sum(f, U) = f[Taken(U)] + Sum(f, U \ {Taken(U)})
    BY <2>1, TakenOut, SumEquation
  <2>3. Cardinality(U \ {Taken(U)}) = Cardinality(U) - 1
    BY <2>1, <2>2, FS_RemoveElement
  <2> QED
    BY <2>2, <2>3
<1>3. Good = Nat
  <2> HIDE DEF Good
  <2>1. Good \in SUBSET Nat
    BY DEF Good
  <2> QED
    BY <1>1, <1>2, <2>1, Induction
<1> QED
  BY <1>0, <1>3

(* Any index may be taken out, not only the one the definition chooses.    *)
LEMMA SumOneOut ==
  ASSUME NEW S, IsFiniteSet(S), NEW f, \A i \in S : f[i] \in Int
  PROVE  \A i \in S : Sum(f, S) = f[i] + Sum(f, S \ {i})
<1> DEFINE Fine(U) == \A i \in U : Sum(f, U) = f[i] + Sum(f, U \ {i})
           Good == {n \in Nat : \A U \in SUBSET S : Cardinality(U) = n => Fine(U)}
<1>0. \A U \in SUBSET S : IsFiniteSet(U) /\ Cardinality(U) \in Nat /\ (Cardinality(U) = 0 => U = {})
  BY FS_Subset, FS_CardinalityType, FS_EmptySet
<1>1. 0 \in Good
  BY <1>0
<1>2. ASSUME NEW n \in Good PROVE n + 1 \in Good
  <2> SUFFICES ASSUME NEW U \in SUBSET S, Cardinality(U) = n + 1 PROVE Fine(U)
    OBVIOUS
  <2> DEFINE a == Taken(U)
  <2>1. U # {} /\ a \in U /\ Sum(f, U) = f[a] + Sum(f, U \ {a})
    <3>1. U # {}
      BY FS_EmptySet
    <3> QED
      BY <1>0, <3>1, TakenOut, SumEquation
  <2> HIDE DEF a
  <2>2. \A i \in U : /\ U \ {i} \in SUBSET S
                     /\ Cardinality(U \ {i}) = n
    <3> SUFFICES ASSUME NEW i \in U PROVE Cardinality(U \ {i}) = n
      OBVIOUS
    <3>1. IsFiniteSet(U)
      BY <1>0
    <3>2. Cardinality(U \ {i}) = Cardinality(U) - 1
      BY <3>1, FS_RemoveElement
    <3> QED
      BY <3>2
  <2>3. \A i \in U : Fine(U \ {i})
    BY <2>2
  <2>5. ASSUME NEW i \in U PROVE Sum(f, U) = f[i] + Sum(f, U \ {i})
    <3>1. CASE i = a
      BY <2>1, <3>1
    <3>2. CASE i # a
      <4>1. Sum(f, U \ {a}) = f[i] + Sum(f, (U \ {a}) \ {i})
        BY <2>1, <2>3, <3>2
      <4>2. Sum(f, U \ {i}) = f[a] + Sum(f, (U \ {i}) \ {a})
        BY <2>1, <2>3, <3>2
      <4>3. (U \ {a}) \ {i} = (U \ {i}) \ {a}
        OBVIOUS
      <4>4. Sum(f, (U \ {a}) \ {i}) \in Int /\ f[a] \in Int /\ f[i] \in Int
        <5>1. IsFiniteSet((U \ {a}) \ {i})
          BY <1>0
        <5> QED
          BY <2>1, <5>1, SumType
      <4>5. Sum(f, (U \ {a}) \ {i}) = Sum(f, (U \ {i}) \ {a})
        BY <4>3
      <4> QED
        BY <2>1, <4>1, <4>2, <4>4, <4>5
    <3> QED
      BY <3>1, <3>2
  <2> QED
    BY <2>5
<1>3. Good = Nat
  <2> HIDE DEF Good
  <2>1. Good \in SUBSET Nat
    BY DEF Good
  <2> QED
    BY <1>1, <1>2, <2>1, Induction
<1>4. Cardinality(S) \in Good /\ S \in SUBSET S
  BY <1>0, <1>3
<1> QED
  BY <1>4

(* The sum of the first n terms.                                           *)
SumTo(f, n) == Sum(f, 0..(n - 1))

LEMMA SumToNone == ASSUME NEW f PROVE SumTo(f, 0) = 0
<1>1. 0..(0 - 1) = {}
  OBVIOUS
<1> QED
  BY <1>1, FS_EmptySet, SumEquation DEF SumTo

LEMMA SumToMore ==
  ASSUME NEW n \in Nat, NEW f, \A i \in 0..n : f[i] \in Int
  PROVE  SumTo(f, n) \in Int /\ f[n] \in Int /\ SumTo(f, n + 1) = SumTo(f, n) + f[n]
<1>1. n \in 0..n /\ (0..n) \ {n} = 0..(n - 1) /\ 0..((n + 1) - 1) = 0..n
  OBVIOUS
<1>2. IsFiniteSet(0..n)
  BY FS_Interval
<1>3. IsFiniteSet(0..(n - 1))
  BY FS_Interval
<1>4. Sum(f, 0..n) = f[n] + Sum(f, 0..(n - 1))
  <2>1. n \in 0..n /\ \A i \in 0..n : Sum(f, 0..n) = f[i] + Sum(f, (0..n) \ {i})
    BY <1>1, <1>2, SumOneOut
  <2>2. Sum(f, 0..n) = f[n] + Sum(f, (0..n) \ {n})
    BY <2>1
  <2> QED
    BY <1>1, <2>2
<1>5. Sum(f, 0..(n - 1)) \in Int /\ f[n] \in Int
  BY <1>1, <1>3, SumType
<1> QED
  BY <1>1, <1>4, <1>5 DEF SumTo

LEMMA SumToType ==
  ASSUME NEW n \in Nat, NEW f, \A i \in 0..(n - 1) : f[i] \in Int
  PROVE  SumTo(f, n) \in Int
<1>1. IsFiniteSet(0..(n - 1))
  BY FS_Interval
<1> QED
  BY <1>1, SumType DEF SumTo

(* Only the terms of a sum matter.                                         *)
LEMMA SumToSame ==
  ASSUME NEW n \in Nat, NEW f, NEW e, \A i \in 0..(n - 1) : f[i] \in Int /\ e[i] = f[i]
  PROVE  SumTo(f, n) = SumTo(e, n)
<1> DEFINE Good == {m \in Nat : m <= n => SumTo(f, m) = SumTo(e, m)}
<1>1. 0 \in Good
  BY SumToNone
<1>2. ASSUME NEW m \in Good PROVE m + 1 \in Good
  <2> SUFFICES ASSUME m + 1 <= n PROVE SumTo(f, m + 1) = SumTo(e, m + 1)
    OBVIOUS
  <2>1. m \in Nat /\ SumTo(f, m) = SumTo(e, m)
    OBVIOUS
  <2>2. \A i \in 0..m : f[i] \in Int /\ e[i] \in Int /\ e[i] = f[i]
    OBVIOUS
  <2>3. SumTo(f, m + 1) = SumTo(f, m) + f[m] /\ SumTo(e, m + 1) = SumTo(e, m) + e[m]
    BY <2>1, <2>2, SumToMore
  <2> QED
    BY <2>1, <2>2, <2>3
<1>3. Good = Nat
  <2> HIDE DEF Good
  <2>1. Good \in SUBSET Nat
    BY DEF Good
  <2> QED
    BY <1>1, <1>2, <2>1, Induction
<1>4. n \in Good
  BY <1>3, Zenon
<1> QED
  BY <1>4

(* A round of the tree: adding the upper half to the lower keeps the sum.  *)
LEMMA SumHalves ==
  ASSUME NEW n \in Nat, NEW f, NEW e,
         \A i \in 0..(n + n - 1) : f[i] \in Int,
         \A i \in 0..(n - 1) : e[i] = f[i] + f[i + n]
  PROVE  SumTo(e, n) = SumTo(f, n + n)
<1> DEFINE Good == {m \in Nat : m <= n => SumTo(f, n) + SumTo(e, m) = SumTo(f, m) + SumTo(f, n + m)}
<1>0. SumTo(f, n) \in Int
  BY SumToType
<1>1. 0 \in Good
  <2>1. n + 0 = n
    OBVIOUS
  <2> QED
    BY <1>0, <2>1, SumToNone
<1>2. ASSUME NEW m \in Good PROVE m + 1 \in Good
  <2> SUFFICES ASSUME m + 1 <= n
               PROVE  SumTo(f, n) + SumTo(e, m + 1) = SumTo(f, m + 1) + SumTo(f, (n + m) + 1)
    <3>1. m + 1 \in Nat /\ n + (m + 1) = (n + m) + 1
      OBVIOUS
    <3> QED
      BY <3>1
  <2>1. m \in Nat /\ m < n /\ n + m \in Nat
    OBVIOUS
  <2>2. SumTo(f, n) + SumTo(e, m) = SumTo(f, m) + SumTo(f, n + m)
    BY <2>1
  <2> HIDE DEF Good
  <2>3. SumTo(f, m) \in Int /\ f[m] \in Int /\ SumTo(f, m + 1) = SumTo(f, m) + f[m]
    BY <2>1, SumToMore
  <2>4. /\ SumTo(f, n + m) \in Int /\ f[n + m] \in Int
        /\ SumTo(f, (n + m) + 1) = SumTo(f, n + m) + f[n + m]
    <3>1. \A i \in 0..(n + m) : f[i] \in Int
      BY <2>1
    <3> QED
      BY <2>1, <3>1, SumToMore
  <2>5. e[m] = f[m] + f[n + m]
    <3>1. e[m] = f[m] + f[m + n] /\ m + n = n + m
      BY <2>1
    <3> QED
      BY <3>1
  <2>6. SumTo(e, m) \in Int /\ SumTo(e, m + 1) = SumTo(e, m) + e[m]
    <3>1. ASSUME NEW i \in 0..m PROVE e[i] \in Int
      <4>1. e[i] = f[i] + f[i + n] /\ f[i] \in Int /\ f[i + n] \in Int
        BY <2>1
      <4> QED
        BY <4>1
    <3> QED
      BY <2>1, <3>1, SumToMore
  <2> QED
    BY <1>0, <2>2, <2>3, <2>4, <2>5, <2>6
<1>3. Good = Nat
  <2> HIDE DEF Good
  <2>1. Good \in SUBSET Nat
    BY DEF Good
  <2> QED
    BY <1>1, <1>2, <2>1, Induction
<1>4. n \in Good
  BY <1>3, Zenon
<1>5. SumTo(f, n) + SumTo(e, n) = SumTo(f, n) + SumTo(f, n + n)
  BY <1>4
<1>6. SumTo(e, n) \in Int
  <2>1. ASSUME NEW i \in 0..(n - 1) PROVE e[i] \in Int
    <3>1. e[i] = f[i] + f[i + n] /\ f[i] \in Int /\ f[i + n] \in Int
      OBVIOUS
    <3> QED
      BY <3>1
  <2> QED
    BY <2>1, SumToType
<1>7. SumTo(f, n + n) \in Int
  BY SumToType
<1> QED
  BY <1>0, <1>5, <1>6, <1>7

----------------------------------------------------------------------------
(* The control of a block.                                                 *)

Label == {"mask", "zero", "store", "load", "add", "delta", "update", "result",
          "done"} \cup Waiting

\* The part of the state that decides which thread may touch what.
ControlType == /\ dims \in Dims /\ masked \in BOOLEAN
               /\ launched \in {"no", "refused", "yes"}
               /\ cell \in [b : Nat, h : Nat, dv : Nat]
               /\ pc \in [Thread -> Label]
               /\ round \in [Thread -> {1, 2}]
               /\ offset \in [Thread -> Nat]

\* A block is in one stage of the kernel at a time, all its threads together.
Returning  == \A d \in Thread : pc[d] \in {"mask", "zero", "done"} /\ (pc[d] = "zero" => d = 0)
Filling    == \A d \in Thread : /\ pc[d] \in {"mask", "store", "sync_store"}
                                /\ round[d] = 1 /\ offset[d] = 0
Adding(n, which) == \A d \in Thread : /\ pc[d] \in {"load", "add", "sync_reduce"}
                                      /\ pc[d] \in {"load", "add"} => d < n
                                      /\ offset[d] = n /\ round[d] = which
Reducing   == \E n \in Nat \ {0}, which \in {1, 2} : n + n <= Width /\ Adding(n, which)
Correcting == \A d \in Thread : /\ pc[d] \in {"delta", "sync_delta"}
                                /\ round[d] = 1 /\ offset[d] = 0
Updating   == \A d \in Thread : /\ \/ pc[d] = "update" /\ round[d] = 1
                                   \/ pc[d] = "sync_store" /\ round[d] = 2
                                /\ offset[d] = 0
Finishing  == \A d \in Thread : pc[d] = "done" \/ (pc[d] = "result" /\ d = 0)

OneStage ==
  /\ launched # "yes" => \A d \in Thread : pc[d] = "mask" /\ round[d] = 1 /\ offset[d] = 0
  /\ launched = "yes" /\ masked => Returning
  /\ launched = "yes" /\ ~masked =>
       Filling \/ Reducing \/ Correcting \/ Updating \/ Finishing

\* The block is one of the grid of an accepted launch.
InGrid ==
  launched = "yes" => /\ Accepts
                      /\ cell \in [b : 0..(dims.B - 1), h : 0..(dims.Hv - 1),
                                   dv : 0..(dims.Dv - 1)]

(* The inductive invariant.  RaceFree and BarrierUniform are not inductive:*)
(* that two threads never touch one cell rests on all of them being in the *)
(* same round of the same loop, which the barriers bring about.            *)
IInv == ControlType /\ OneStage /\ InGrid

LEMMA DkPositive == ASSUME dims \in Dims PROVE Width \in 1..256 /\ 0 \in Thread /\ Thread \subseteq Nat
BY DimsAssumption DEF Width, Thread

LEMMA InitIInv == Init => IInv
<1> SUFFICES ASSUME Init PROVE IInv
  OBVIOUS
<1>1. ControlType /\ InGrid
  BY DEF Init, ControlType, InGrid, Label, Waiting
<1>2. OneStage
  BY DEF Init, OneStage
<1> QED
  BY <1>1, <1>2 DEF IInv

LEMMA StepIInv == IInv /\ [Next]_vars => IInv'
<1> SUFFICES ASSUME IInv, [Next]_vars PROVE IInv'
  OBVIOUS
<1>0. Width \in 1..256 /\ 0 \in Thread /\ Thread \subseteq Nat
  BY DkPositive DEF IInv, ControlType
<1>1. dims' = dims /\ pointersOk' = pointersOk /\ Thread' = Thread /\ Width' = Width
  BY DEF Next, Launch, Refuse, Sync, Execute, Mask, Zero, Store, Load, Add, Delta,
         Update, Result, arguments, vars, Thread, Width
<1> USE <1>0, <1>1 DEF IInv, ControlType, Goto, arguments, registers, memory
<1>2. CASE Launch
  <2>1. OneStage'
    BY <1>2 DEF Launch, OneStage, Returning, Filling
  <2>2. ControlType'
    BY <1>2 DEF Launch, Accepts
  <2>3. InGrid'
    BY <1>2 DEF Launch, InGrid, Accepts
  <2> QED
    BY <2>1, <2>2, <2>3
<1>3. CASE Refuse
  BY <1>3 DEF Refuse, OneStage, InGrid
<1>4. CASE UNCHANGED vars
  BY <1>4 DEF vars, OneStage, InGrid, Accepts, Returning, Filling, Reducing, Adding,
              Correcting, Updating, Finishing
<1>5. CASE Sync
  <2>1. launched = "yes" /\ ~masked
    BY <1>5 DEF Sync, OneStage, Returning, Waiting
  <2>2. ControlType' /\ InGrid'
    BY <1>5 DEF Sync, Halve, LoopHead, Label, Waiting, InGrid, Accepts
  <2>3. ASSUME NEW m \in Nat, m + m <= Width, NEW which \in {1, 2},
               \A d \in Thread : offset'[d] = m /\ round'[d] = which /\ pc'[d] = LoopHead(d, m, which)
        PROVE  Reducing' \/ Correcting' \/ Finishing'
    <3>1. CASE m > 0
      <4>1. Adding(m, which)'
        BY <2>3, <3>1 DEF LoopHead, Adding
      <4> QED
        BY <2>3, <3>1, <4>1 DEF Reducing
    <3>2. CASE m = 0 /\ which = 1
      BY <2>3, <3>2 DEF LoopHead, Correcting
    <3>3. CASE m = 0 /\ which = 2
      BY <2>3, <3>3 DEF LoopHead, Finishing
    <3> QED
      BY <2>3, <3>1, <3>2, <3>3
  <2>4. CASE Filling \/ Updating
    <3>1. PICK which \in {1, 2} : \A d \in Thread : pc[d] = "sync_store" /\ round[d] = which
      BY <1>5, <2>4 DEF Sync, Filling, Updating, Waiting
    <3>2. Halve(Width) \in Nat /\ Halve(Width) + Halve(Width) <= Width
      BY DEF Halve
    <3>3. \A d \in Thread : /\ offset'[d] = Halve(Width) /\ round'[d] = which
                            /\ pc'[d] = LoopHead(d, Halve(Width), which)
      BY <1>5, <3>1 DEF Sync
    <3> QED
      BY <2>1, <2>2, <2>3, <3>2, <3>3, <1>5 DEF OneStage, Sync
  <2>5. CASE Reducing
    <3>1. PICK n \in Nat \ {0}, which \in {1, 2} : n + n <= Width /\ Adding(n, which)
      BY <2>5 DEF Reducing
    <3>2. \A d \in Thread : pc[d] = "sync_reduce" /\ offset[d] = n /\ round[d] = which
      BY <1>5, <3>1 DEF Sync, Adding, Waiting
    <3>3. Halve(n) \in Nat /\ Halve(n) + Halve(n) <= Width
      BY <3>1 DEF Halve
    <3>4. \A d \in Thread : /\ offset'[d] = Halve(n) /\ round'[d] = which
                            /\ pc'[d] = LoopHead(d, Halve(n), which)
      BY <1>5, <3>2 DEF Sync
    <3> QED
      BY <2>1, <2>2, <2>3, <3>3, <3>4, <1>5 DEF OneStage, Sync
  <2>6. CASE Correcting
    <3>1. \A d \in Thread : pc[d] = "sync_delta" /\ offset[d] = 0 /\ round[d] = 1
      BY <1>5, <2>6 DEF Sync, Correcting, Waiting
    <3>2. Updating'
      BY <1>5, <3>1 DEF Sync, Updating
    <3> QED
      BY <2>1, <2>2, <3>2, <1>5 DEF OneStage, Sync
  <2>7. CASE Finishing
    BY <1>5, <2>7 DEF Sync, Finishing, Waiting
  <2> QED
    BY <2>1, <2>4, <2>5, <2>6, <2>7 DEF OneStage
<1>6. ASSUME NEW d \in Thread, Execute(d) PROVE IInv'
  <2>1. launched = "yes" /\ launched' = launched /\ masked' = masked /\ cell' = cell
    BY <1>6 DEF Execute, Mask, Zero, Store, Load, Add, Delta, Update, Result
  <2>2. InGrid'
    BY <2>1 DEF InGrid, Accepts
  <2>3. ControlType'
    BY <1>6, <2>1 DEF Execute, Mask, Zero, Store, Load, Add, Delta, Update, Result,
                      Label, Waiting
  <2> SUFFICES OneStage'
    BY <2>2, <2>3
  <2>4. CASE Mask(d)
    <3>1. CASE masked
      BY <2>1, <2>4, <3>1 DEF Mask, OneStage, Returning
    <3>2. CASE ~masked
      <4>1. Filling
        BY <2>1, <2>4, <3>2 DEF Mask, OneStage, Filling, Reducing, Adding, Correcting,
                                Updating, Finishing
      <4>2. Filling'
        BY <2>4, <3>2, <4>1 DEF Mask, Filling
      <4> QED
        BY <2>1, <3>2, <4>2 DEF OneStage
    <3> QED
      BY <3>1, <3>2
  <2>5. CASE Zero(d)
    BY <2>1, <2>5 DEF Zero, OneStage, Returning, Filling, Reducing, Adding, Correcting,
                      Updating, Finishing
  <2>6. CASE Store(d)
    <3>1. Filling /\ ~masked
      BY <2>1, <2>6 DEF Store, OneStage, Returning, Filling, Reducing, Adding, Correcting,
                        Updating, Finishing
    <3>2. Filling'
      BY <2>6, <3>1 DEF Store, Filling
    <3> QED
      BY <2>1, <3>1, <3>2 DEF OneStage
  <2>7. CASE Load(d) \/ Add(d)
    <3>1. Reducing /\ ~masked
      BY <2>1, <2>7 DEF Load, Add, OneStage, Returning, Filling, Correcting, Updating,
                        Finishing
    <3>2. PICK n \in Nat \ {0}, which \in {1, 2} : n + n <= Width /\ Adding(n, which)
      BY <3>1 DEF Reducing
    <3>3. Adding(n, which)'
      BY <2>7, <3>2 DEF Load, Add, Adding
    <3>4. Reducing'
      BY <3>2, <3>3 DEF Reducing
    <3> QED
      BY <2>1, <3>1, <3>4 DEF OneStage
  <2>8. CASE Delta(d)
    <3>1. Correcting /\ ~masked
      BY <2>1, <2>8 DEF Delta, OneStage, Returning, Filling, Reducing, Adding, Correcting,
                        Updating, Finishing
    <3>2. Correcting'
      BY <2>8, <3>1 DEF Delta, Correcting
    <3> QED
      BY <2>1, <3>1, <3>2 DEF OneStage
  <2>9. CASE Update(d)
    <3>1. Updating /\ ~masked
      BY <2>1, <2>9 DEF Update, OneStage, Returning, Filling, Reducing, Adding, Correcting,
                        Updating, Finishing
    <3>2. Updating'
      BY <2>9, <3>1 DEF Update, Updating
    <3> QED
      BY <2>1, <3>1, <3>2 DEF OneStage
  <2>10. CASE Result(d)
    <3>1. Finishing /\ ~masked
      BY <2>1, <2>10 DEF Result, OneStage, Returning, Filling, Reducing, Adding, Correcting,
                         Updating, Finishing
    <3>2. Finishing'
      BY <2>10, <3>1 DEF Result, Finishing
    <3> QED
      BY <2>1, <3>1, <3>2 DEF OneStage
  <2> QED
    BY <1>6, <2>4, <2>5, <2>6, <2>7, <2>8, <2>9, <2>10 DEF Execute
<1> QED
  BY <1>2, <1>3, <1>4, <1>5, <1>6 DEF Next

THEOREM IInvariant == Spec => []IInv
BY InitIInv, StepIInv, PTL DEF Spec

----------------------------------------------------------------------------
(* No two threads of a block race on the shared array.                     *)
THEOREM KernelIsRaceFree == Spec => []RaceFree
<1>1. IInv => RaceFree
  <2> SUFFICES ASSUME IInv, launched = "yes", NEW d \in Thread, NEW e \in Thread, d # e
               PROVE  Writes(d) \cap (Reads(e) \cup Writes(e)) = {}
    BY DEF RaceFree
  <2> USE DEF IInv, ControlType, Reads, Writes
  <2>0. Thread \subseteq Nat
    BY DkPositive
  <2>1. CASE masked
    BY <2>1 DEF OneStage, Returning
  <2>2. CASE Filling
    BY <2>2 DEF Filling
  <2>3. CASE Reducing
    <3>1. PICK n \in Nat \ {0}, which \in {1, 2} : n + n <= Width /\ Adding(n, which)
      BY <2>3 DEF Reducing
    <3>2. Writes(d) # {} => Writes(d) = {d} /\ d < n
      BY <3>1 DEF Adding
    <3>3. Reads(e) \cup Writes(e) \subseteq {e, e + n}
      BY <3>1 DEF Adding
    <3> QED
      BY <2>0, <3>1, <3>2, <3>3
  <2>4. CASE Correcting
    BY <2>4 DEF Correcting
  <2>5. CASE Updating
    BY <2>5 DEF Updating
  <2>6. CASE Finishing
    BY <2>6 DEF Finishing
  <2> QED
    BY <2>1, <2>2, <2>3, <2>4, <2>5, <2>6 DEF OneStage
<1> QED
  BY <1>1, IInvariant, PTL

(* No two threads of a block wait at different barriers or rounds, and no  *)
(* thread waits at one that another has left by returning.                 *)
THEOREM BarriersAreUniform == Spec => []BarrierUniform
<1>1. IInv => BarrierUniform
  <2> SUFFICES ASSUME IInv, NEW d \in Thread, NEW e \in Thread,
                      pc[d] \in Waiting, pc[e] \in Waiting \cup {"done"}
               PROVE  pc[d] = pc[e] /\ offset[d] = offset[e]
    BY DEF BarrierUniform
  <2> USE DEF IInv, ControlType, Waiting
  <2>1. CASE launched # "yes" \/ masked
    BY <2>1 DEF OneStage, Returning
  <2>2. CASE Reducing
    BY <2>2 DEF Reducing, Adding
  <2>3. CASE Filling \/ Correcting \/ Updating \/ Finishing
    BY <2>3 DEF Filling, Correcting, Updating, Finishing
  <2> QED
    BY <2>1, <2>2, <2>3 DEF OneStage
<1> QED
  BY <1>1, IInvariant, PTL

----------------------------------------------------------------------------
(* Arithmetic of flat indices.                                             *)
LEMMA TimesMonotone ==
  ASSUME NEW a \in Int, NEW c \in Int, NEW n \in Nat, a <= c PROVE a * n <= c * n
OBVIOUS

LEMMA Arithmetic ==
  \A x, z \in Int : x * z \in Int /\ x + z \in Int /\ x - z \in Int
OBVIOUS

LEMMA QuotientRemainder ==
  ASSUME NEW x \in Int, NEW n \in Nat \ {0}
  PROVE  x \div n \in Int /\ x % n \in 0..(n - 1) /\ x = (x \div n) * n + (x % n)
OBVIOUS

LEMMA NotBelow ==
  ASSUME NEW a \in Int, NEW c \in Int, NEW n \in Nat \ {0},
         NEW low \in 0..(n - 1), NEW rem \in 0..(n - 1), a * n + low = c * n + rem
  PROVE  ~(a < c)
<1> SUFFICES ASSUME a < c PROVE FALSE
  OBVIOUS
<1>1. (a + 1) * n <= c * n
  BY TimesMonotone
<1>2. (a + 1) * n = a * n + n
  OBVIOUS
<1> QED
  BY <1>1, <1>2

(* Quotient and remainder recover what a flat index was made of.           *)
LEMMA Decode ==
  ASSUME NEW a \in Nat, NEW n \in Nat \ {0}, NEW low \in 0..(n - 1)
  PROVE  (a * n + low) \div n = a /\ (a * n + low) % n = low
<1> DEFINE x == a * n + low
<1>1. x \in Int
  OBVIOUS
<1>2. x \div n \in Int /\ x % n \in 0..(n - 1) /\ x = (x \div n) * n + (x % n)
  BY <1>1, QuotientRemainder
<1>3. x = a * n + low
  OBVIOUS
<1> HIDE DEF x
<1>4. ~(x \div n < a) /\ ~(a < x \div n)
  BY <1>1, <1>2, <1>3, NotBelow
<1>5. x \div n = a /\ x % n = low
  BY <1>1, <1>2, <1>3, <1>4
<1> QED
  BY <1>5 DEF x

(* A flat index lies in an array of the product of the dimensions.         *)
LEMMA Flat ==
  ASSUME NEW m \in Nat, NEW n \in Nat \ {0}, NEW a \in 0..(m - 1), NEW low \in 0..(n - 1)
  PROVE  a * n + low \in 0..(m * n - 1)
<1>1. (a + 1) * n <= m * n /\ 0 * n <= a * n
  BY TimesMonotone
<1>2. (a + 1) * n = a * n + n
  OBVIOUS
<1> QED
  BY <1>1, <1>2

(* The head a value head belongs to is one of the key heads.               *)
LEMMA HeadOfGroup ==
  ASSUME NEW m \in Nat \ {0}, NEW n \in Nat \ {0}, n % m = 0, NEW h \in 0..(n - 1)
  PROVE  h \div (n \div m) \in 0..(m - 1)
<1> DEFINE G == n \div m
           x == h \div G
<1>1. G \in Int /\ n = G * m
  BY QuotientRemainder
<1>2. G > 0
  <2>1. ~(G <= 0)
    <3> SUFFICES ASSUME G <= 0 PROVE FALSE
      OBVIOUS
    <3>1. G * m <= 0 * m
      BY <1>1, TimesMonotone
    <3> QED
      BY <1>1, <3>1
  <2> QED
    BY <1>1, <2>1
<1> HIDE DEF G
<1>3. x \in Int /\ h % G \in 0..(G - 1) /\ h = x * G + (h % G)
  BY <1>1, <1>2, QuotientRemainder
<1> HIDE DEF x
<1>4. x < m
  <2> SUFFICES ASSUME m <= x PROVE FALSE
    BY <1>3
  <2>1. m * G <= x * G
    BY <1>1, <1>2, <1>3, TimesMonotone
  <2>2. m * G = G * m
    BY <1>1
  <2> QED
    BY <1>1, <1>2, <1>3, <2>1, <2>2
<1>5. 0 <= x
  <2> SUFFICES ASSUME x < 0 PROVE FALSE
    BY <1>3
  <2>1. (x + 1) * G <= 0 * G
    BY <1>1, <1>2, <1>3, TimesMonotone
  <2>2. (x + 1) * G = x * G + G
    BY <1>1, <1>3
  <2> QED
    BY <1>1, <1>2, <1>3, <2>1, <2>2
<1>6. x \in 0..(m - 1)
  BY <1>3, <1>4, <1>5
<1> QED
  BY <1>6 DEF x, G

(* The kernel's decoding of blockIdx.x gives back the cell, and its indices*)
(* lie in the arrays of the shapes the header names.                       *)
LEMMA Indices ==
  ASSUME IInv, launched = "yes"
  PROVE  /\ b = cell.b /\ hv = cell.h /\ row % dims.Dv = cell.dv
         /\ hk \in 0..(dims.Hk - 1)
         /\ row \in 0..(dims.B * dims.Hv * dims.Dv - 1)
         /\ gi \in 0..(dims.B * dims.Hv - 1)
         /\ \A d \in Thread : /\ si(d) \in 0..(dims.B * dims.Hv * dims.Dv * Width - 1)
                              /\ qi(d) \in 0..(dims.B * dims.Hk * Width - 1)
<1> DEFINE B == dims.B
           keys == dims.Hk
           heads == dims.Hv
           rows == dims.Dv
           cb == cell.b
           ch == cell.h
           cd == cell.dv
<1>1. /\ B \in Nat \ {0} /\ keys \in Nat \ {0} /\ heads \in Nat \ {0} /\ rows \in Nat \ {0}
      /\ heads % keys = 0 /\ cb \in 0..(B - 1) /\ ch \in 0..(heads - 1) /\ cd \in 0..(rows - 1)
      /\ Width \in Nat \ {0} /\ Thread = 0..(Width - 1)
  <2>1. Accepts /\ dims \in Dims
    BY DEF IInv, ControlType, InGrid
  <2>2. B \in Int /\ keys \in Int /\ heads \in Int /\ rows \in Int
    BY <2>1, DimsAssumption
  <2>3. B > 0 /\ keys > 0 /\ heads > 0 /\ rows > 0 /\ heads % keys = 0
    BY <2>1 DEF Accepts
  <2>4. cb \in 0..(B - 1) /\ ch \in 0..(heads - 1) /\ cd \in 0..(rows - 1)
    BY DEF IInv, InGrid
  <2>5. Width \in Nat \ {0} /\ Thread = 0..(Width - 1)
    BY <2>1, DkPositive DEF Thread
  <2> HIDE DEF B, keys, heads, rows, cb, ch, cd
  <2> QED
    BY <2>2, <2>3, <2>4, <2>5
<1>2. row = (cb * heads + ch) * rows + cd
  BY DEF row
<1> HIDE DEF B, keys, heads, rows, cb, ch, cd
<1>3. B * heads \in Nat \ {0} /\ heads * rows \in Nat \ {0} /\ B * keys \in Nat /\ B * heads * rows \in Nat
  <2>1. 1 * heads <= B * heads /\ 1 * rows <= heads * rows /\ 0 * keys <= B * keys
    BY <1>1, TimesMonotone
  <2>2. B * heads \in Nat
    BY <1>1, <2>1
  <2>3. 0 * rows <= (B * heads) * rows
    BY <1>1, <2>2, TimesMonotone
  <2> QED
    BY <1>1, <2>1, <2>2, <2>3
<1>4. cb * heads + ch \in 0..(B * heads - 1)
  BY <1>1, Flat
<1>5. row \in 0..((B * heads) * rows - 1)
  BY <1>1, <1>2, <1>3, <1>4, Flat
<1>6. row \div rows = cb * heads + ch /\ row % rows = cd
  <2> DEFINE a == cb * heads + ch
  <2>1. a \in Nat /\ row = a * rows + cd
    BY <1>2, <1>3, <1>4
  <2> HIDE DEF a
  <2>2. row \div rows = a /\ row % rows = cd
    BY <1>1, <2>1, Decode
  <2> QED
    BY <2>2 DEF a
<1>7. hv = ch
  <2>1. (cb * heads + ch) % heads = ch
    BY <1>1, Decode
  <2> QED
    BY <1>6, <2>1 DEF hv, heads, rows
<1>8. b = cb
  <2>1. ch * rows + cd \in 0..(heads * rows - 1)
    BY <1>1, Flat
  <2>2. row = cb * (heads * rows) + (ch * rows + cd)
    BY <1>1, <1>2
  <2>3. row \div (heads * rows) = cb
    BY <1>1, <1>3, <2>1, <2>2, Decode
  <2> QED
    BY <2>3 DEF b, heads, rows
<1>9. hk \in 0..(keys - 1)
  BY <1>1, <1>7, HeadOfGroup DEF hk, keys, heads
<1>10. gi \in 0..(B * heads - 1)
  BY <1>4, <1>7, <1>8 DEF gi, heads
<1>11. b * keys + hk \in 0..(B * keys - 1)
  BY <1>1, <1>8, <1>9, Flat
<1>12. ASSUME NEW d \in Thread
       PROVE  si(d) \in 0..((B * heads * rows) * Width - 1) /\ qi(d) \in 0..((B * keys) * Width - 1)
  <2>1. row * Width + d \in 0..((B * heads * rows) * Width - 1)
    BY <1>1, <1>3, <1>5, Flat
  <2>2. (b * keys + hk) * Width + d \in 0..((B * keys) * Width - 1)
    BY <1>1, <1>3, <1>11, Flat
  <2> QED
    BY <2>1, <2>2 DEF si, qi, keys
<1> QED
  BY <1>5, <1>6, <1>7, <1>8, <1>9, <1>10, <1>12 DEF B, keys, heads, rows, cb, ch, cd

(* Every access to the shared array lies in it.                            *)
LEMMA SharedAccesses ==
  ASSUME IInv, launched = "yes", NEW d \in Thread
  PROVE  Reads(d) \cup Writes(d) \subseteq Thread
<1> USE DEF IInv, ControlType, Reads, Writes
<1>0. 0 \in Thread /\ Thread \subseteq Nat
  BY DkPositive
<1>1. CASE pc[d] = "load"
  <2>1. Reducing
    BY <1>1 DEF OneStage, Returning, Filling, Correcting, Updating, Finishing
  <2>2. offset[d] + offset[d] <= Width /\ d < offset[d] /\ offset[d] \in Nat
    BY <1>1, <2>1 DEF Reducing, Adding
  <2>3. Width \in Nat
    BY DkPositive
  <2> QED
    BY <1>0, <1>1, <2>2, <2>3 DEF Thread
<1>2. CASE pc[d] # "load"
  BY <1>0, <1>2
<1> QED
  BY <1>1, <1>2

(* Every index of an accepted launch lies in its array.                    *)
THEOREM IndicesAreInRange == Spec => []IndicesInRange
<1>1. IInv => IndicesInRange
  <2> SUFFICES ASSUME IInv, launched = "yes" PROVE IndicesInRange
    BY DEF IndicesInRange
  <2>1. row < IntMax
    <3>1. dims.B * dims.Hv * dims.Dv <= IntMax /\ dims.B * dims.Hv * dims.Dv \in Int
      BY DimsAssumption, Arithmetic DEF IInv, ControlType, InGrid, Accepts
    <3>2. row \in 0..(dims.B * dims.Hv * dims.Dv - 1)
      BY Indices
    <3> QED
      BY <3>1, <3>2, BoundAssumption
  <2> QED
    BY <2>1, Indices, SharedAccesses DEF IndicesInRange
<1> QED
  BY <1>1, IInvariant, PTL

----------------------------------------------------------------------------
(* What a thread of the block loads from the arrays are numbers.           *)
LEMMA Loads ==
  ASSUME IInv, launched = "yes", NEW d \in Thread
  PROVE  /\ state[si(d)] \in Int /\ q[qi(d)] \in Int /\ k[qi(d)] \in Int
         /\ g[gi] \in Int /\ beta[gi] \in Int /\ v[row] \in Int
<1>1. dims \in Dims /\ dims.Dk = Width
  BY DEF IInv, ControlType, Width
<1>2. /\ Holds(q, dims.B * dims.Hk * Width) /\ Holds(k, dims.B * dims.Hk * Width)
      /\ Holds(v, dims.B * dims.Hv * dims.Dv) /\ Holds(g, dims.B * dims.Hv)
      /\ Holds(beta, dims.B * dims.Hv) /\ Holds(state, dims.B * dims.Hv * dims.Dv * Width)
  BY <1>1, ArrayAssumption
<1> QED
  BY <1>2, Indices DEF Holds

LEMMA HalvedOffset ==
  /\ \A n \in Widths : Halve(n) \in Offsets
  /\ \A n \in Offsets : Halve(n) \in Offsets
BY WidthAssumption DEF Halve, Offsets

(* Every variable keeps its type: registers and arrays hold numbers, and   *)
(* the loop variable is a power of two or zero.                            *)
LEMMA TypeStep == IInv /\ TypeOK /\ [Next]_vars => TypeOK'
<1> SUFFICES ASSUME IInv, TypeOK, [Next]_vars PROVE TypeOK'
  OBVIOUS
<1>0. Width \in 1..256 /\ 0 \in Thread /\ Thread \subseteq Nat
  BY DkPositive DEF TypeOK
<1>1. dims' = dims /\ pointersOk' = pointersOk /\ Thread' = Thread /\ Width' = Width
  BY DEF Next, Launch, Refuse, Sync, Execute, Mask, Zero, Store, Load, Add, Delta,
         Update, Result, arguments, vars, Thread, Width
<1> USE <1>0, <1>1 DEF TypeOK, Goto, arguments, registers, memory, Waiting
<1>2. CASE Launch
  <2>1. cell' \in [b : Nat, h : Nat, dv : Nat]
    BY <1>2 DEF Launch, Accepts
  <2> QED
    BY <1>2, <2>1 DEF Launch
<1>3. CASE Refuse
  BY <1>3 DEF Refuse
<1>4. CASE UNCHANGED vars
  BY <1>4 DEF vars
<1>5. CASE Sync
  <2>1. launched = "yes"
    BY <1>5 DEF Sync, IInv, OneStage
  <2>2. Width \in Widths
    BY <2>1 DEF IInv, InGrid, Accepts
  <2>3. offset' \in [Thread -> Offsets]
    BY <1>5, <2>2, HalvedOffset DEF Sync
  <2>4. pc' \in [Thread -> {"mask", "zero", "store", "load", "add", "delta", "update",
                            "result", "done"} \cup Waiting]
    BY <1>5 DEF Sync, LoopHead
  <2> QED
    BY <1>5, <2>3, <2>4 DEF Sync
<1>6. ASSUME NEW d \in Thread, launched = "yes", Mask(d) \/ Zero(d) PROVE TypeOK'
  BY <1>6, Loads DEF Mask, Zero
<1>7. ASSUME NEW d \in Thread, launched = "yes", Store(d) PROVE TypeOK'
  <2>0. state[si(d)] \in Int /\ g[gi] \in Int /\ k[qi(d)] \in Int
    BY <1>7, Loads
  <2>1. state[si(d)] * g[gi] \in Int /\ k[qi(d)] \in Int
    BY <2>0, Arithmetic
  <2>2. s' \in [Thread -> Int]
    BY <1>7, <2>1 DEF Store
  <2>3. s'[d] * k[qi(d)] \in Int
    BY <2>1, <2>2, Arithmetic
  <2> QED
    BY <1>7, <2>2, <2>3 DEF Store
<1>8. ASSUME NEW d \in Thread, launched = "yes", Load(d) PROVE TypeOK'
  <2>1. d + offset[d] \in Thread
    BY <1>8, SharedAccesses DEF Load, Reads
  <2>2. tmp[d] + tmp[d + offset[d]] \in Int
    <3>1. tmp[d] \in Int /\ tmp[d + offset[d]] \in Int
      BY <2>1
    <3> QED
      BY <3>1, Arithmetic
  <2> QED
    BY <1>8, <2>2 DEF Load
<1>9. ASSUME NEW d \in Thread, launched = "yes", Add(d) PROVE TypeOK'
  BY <1>9 DEF Add
<1>10. ASSUME NEW d \in Thread, launched = "yes", Delta(d) PROVE TypeOK'
  <2>0. v[row] \in Int /\ tmp[0] \in Int /\ beta[gi] \in Int
    BY <1>10, Loads
  <2>1. (v[row] - tmp[0]) * beta[gi] \in Int
    BY <2>0, Arithmetic
  <2> QED
    BY <1>10, <2>1 DEF Delta
<1>11. ASSUME NEW d \in Thread, launched = "yes", Update(d) PROVE TypeOK'
  <2>0. s[d] \in Int /\ delta[d] \in Int /\ k[qi(d)] \in Int /\ q[qi(d)] \in Int
    BY <1>11, Loads
  <2>1. s[d] + delta[d] * k[qi(d)] \in Int
    BY <2>0, Arithmetic
  <2>2. s' \in [Thread -> Int]
    BY <1>11, <2>1 DEF Update
  <2>3. s'[d] * q[qi(d)] \in Int
    <3>1. s'[d] \in Int
      BY <2>2
    <3> QED
      BY <2>0, <3>1, Arithmetic
  <2> QED
    BY <1>11, <2>2, <2>3 DEF Update
<1>12. ASSUME NEW d \in Thread, launched = "yes", Result(d) PROVE TypeOK'
  BY <1>12 DEF Result
<1> QED
  BY <1>2, <1>3, <1>4, <1>5, <1>6, <1>7, <1>8, <1>9, <1>10, <1>11, <1>12
  DEF Next, Execute

THEOREM TypeCorrect == Spec => []TypeOK
<1>1. Init => TypeOK
  <2> SUFFICES ASSUME Init PROVE TypeOK
    OBVIOUS
  <2>1. /\ dims \in Dims /\ pointersOk \in BOOLEAN /\ masked \in BOOLEAN
        /\ cell \in [b : Nat, h : Nat, dv : Nat] /\ launched = "no"
    BY DEF Init
  <2>2. /\ pc \in [Thread -> {"mask"}] /\ round \in [Thread -> {1}]
        /\ offset \in [Thread -> {0}]
    BY DEF Init
  <2>3. /\ s \in [Thread -> Int] /\ sum \in [Thread -> Int] /\ delta \in [Thread -> Int]
        /\ tmp \in [Thread -> Int] /\ out \in [Thread -> Int] /\ y \in Int
    BY GarbageAssumption DEF Init
  <2> QED
    BY <2>1, <2>2, <2>3 DEF TypeOK, Offsets
<1> QED
  BY <1>1, TypeStep, IInvariant, PTL DEF Spec

----------------------------------------------------------------------------
(* The result of the block.                                                *)

\* The sum of the first reduction and that of the second.
Retrieved == Total([d \in Thread |-> Decayed(d) * k[keyAt(d)]])
Answer    == Total([d \in Thread |-> NewState(d) * q[keyAt(d)]])

\* What the cells below 2n held when the round with offset n began, from the
\* labels p and the cells a: a thread past its store has added its partner.
AtStart(p, a, n) ==
  [i \in 0..(n + n - 1) |-> IF i < n /\ p[i] = "sync_reduce" THEN a[i] - a[i + n] ELSE a[i]]

\* The round under way adds up to the sum it is for.
Adds(which, total) ==
  LET n == offset[0] IN
  /\ n \in Offsets \ {0} /\ n + n <= Width /\ Adding(n, which)
  /\ SumTo(AtStart(pc, tmp, n), n + n) = total
  /\ \A d \in Thread : pc[d] = "add" => sum[d] = tmp[d] + tmp[d + n]

FillsRight == Filling /\ \A d \in Thread :
  pc[d] = "sync_store" => s[d] = Decayed(d) /\ tmp[d] = Decayed(d) * k[keyAt(d)]
FirstSum == Adds(1, Retrieved) /\ \A d \in Thread : s[d] = Decayed(d)
CorrectsRight == Correcting /\ tmp[0] = Retrieved /\ \A d \in Thread :
  s[d] = Decayed(d) /\ (pc[d] = "sync_delta" => delta[d] = Correction)
UpdatesRight == Updating /\ \A d \in Thread :
  /\ delta[d] = Correction
  /\ IF pc[d] = "update" THEN s[d] = Decayed(d)
     ELSE out[d] = NewState(d) /\ tmp[d] = NewState(d) * q[keyAt(d)]
SecondSum == Adds(2, Answer) /\ \A d \in Thread : out[d] = NewState(d)
FinishesRight == /\ Finishing /\ \A d \in Thread : out[d] = NewState(d)
                 /\ IF pc[0] = "result" THEN tmp[0] = Answer ELSE y = Answer

(* The inductive invariant for the result: in every stage, the shared array*)
(* and the registers hold that stage's part of the recurrence.             *)
Computes ==
  /\ launched = "yes" /\ ~masked => \/ FillsRight \/ FirstSum \/ CorrectsRight
                                     \/ UpdatesRight \/ SecondSum \/ FinishesRight
  /\ launched = "yes" /\ masked => /\ \A d \in Thread : pc[d] # "mask" => out[d] = state[si(d)]
                                   /\ pc[0] = "done" => y = 0

LEMMA TotalIs ==
  ASSUME NEW f, DOMAIN f = Thread
  PROVE  Total(f) = SumTo(f, Width)
BY DEF Total, FoldFunction, SumTo, Sum, Thread

LEMMA Commutes == \A x, z \in Int : x * z = z * x
OBVIOUS

(* The kernel's indices are those of the recurrence, and all its terms are *)
(* numbers.                                                                *)
LEMMA Terms ==
  ASSUME IInv, launched = "yes"
  PROVE  /\ gi = gate /\ Retrieved \in Int /\ Correction \in Int
         /\ Correction = (v[row] - Retrieved) * beta[gi]
         /\ \A d \in Thread : /\ qi(d) = keyAt(d) /\ k[keyAt(d)] \in Int /\ q[keyAt(d)] \in Int
                              /\ Decayed(d) = state[si(d)] * g[gi]
                              /\ Decayed(d) \in Int /\ NewState(d) \in Int
                              /\ Decayed(d) * k[keyAt(d)] \in Int
                              /\ NewState(d) * q[keyAt(d)] \in Int
<1>1. b = cell.b /\ hv = cell.h
  BY Indices
<1>2. gi = gate /\ hk = headOf
  BY <1>1 DEF gi, gate, hk, headOf
<1>3. \A d \in Thread : qi(d) = keyAt(d)
  BY <1>1, <1>2 DEF qi, keyAt
<1>4. ASSUME NEW d \in Thread
      PROVE  /\ k[keyAt(d)] \in Int /\ q[keyAt(d)] \in Int
             /\ Decayed(d) = state[si(d)] * g[gi] /\ Decayed(d) \in Int
             /\ Decayed(d) * k[keyAt(d)] \in Int
  <2>1. state[si(d)] \in Int /\ g[gi] \in Int /\ k[keyAt(d)] \in Int /\ q[keyAt(d)] \in Int
    BY <1>3, Loads
  <2>2. Decayed(d) = state[si(d)] * g[gi]
    BY <1>2 DEF Decayed
  <2>3. Decayed(d) \in Int
    BY <2>1, <2>2, Arithmetic
  <2> QED
    BY <2>1, <2>2, <2>3, Arithmetic
<1>5. Retrieved \in Int
  <2> DEFINE f == [d \in Thread |-> Decayed(d) * k[keyAt(d)]]
  <2>1. DOMAIN f = Thread /\ \A i \in 0..(Width - 1) : f[i] \in Int
    BY <1>4 DEF Thread
  <2>2. Width \in Nat
    BY DkPositive DEF IInv, ControlType
  <2> HIDE DEF f
  <2>3. Total(f) = SumTo(f, Width) /\ SumTo(f, Width) \in Int
    BY <2>1, <2>2, TotalIs, SumToType
  <2> QED
    BY <2>3 DEF f, Retrieved
<1>6. Correction \in Int /\ Correction = (v[row] - Retrieved) * beta[gi]
  <2>1. v[row] \in Int /\ beta[gi] \in Int
    <3>1. 0 \in Thread
      BY DkPositive DEF IInv, ControlType
    <3> QED
      BY <3>1, Loads
  <2>2. v[row] - Retrieved \in Int
    BY <1>5, <2>1, Arithmetic
  <2>3. Correction = beta[gi] * (v[row] - Retrieved)
    BY <1>2 DEF Correction, Retrieved
  <2>4. Correction = (v[row] - Retrieved) * beta[gi]
    BY <2>1, <2>2, <2>3, Commutes
  <2> QED
    BY <2>1, <2>2, <2>4, Arithmetic
<1>7. ASSUME NEW d \in Thread
      PROVE  NewState(d) \in Int /\ NewState(d) * q[keyAt(d)] \in Int
  <2>1. Correction * k[keyAt(d)] \in Int
    BY <1>4, <1>6, Arithmetic
  <2>2. NewState(d) \in Int
    BY <1>4, <2>1, Arithmetic DEF NewState
  <2> QED
    BY <1>4, <2>2, Arithmetic
<1> QED
  BY <1>2, <1>3, <1>4, <1>5, <1>6, <1>7

(* What is to be computed is settled by the launch.                        *)
LEMMA TermsStay ==
  ASSUME dims' = dims, cell' = cell
  PROVE  /\ Retrieved' = Retrieved /\ Answer' = Answer /\ Correction' = Correction
         /\ \A d : /\ si(d)' = si(d) /\ keyAt(d)' = keyAt(d)
                  /\ Decayed(d)' = Decayed(d) /\ NewState(d)' = NewState(d)
<1>1. Thread' = Thread /\ row' = row /\ gate' = gate /\ Width' = Width
  BY DEF Thread, row, gate, Width
<1>2. \A d : si(d)' = si(d) /\ keyAt(d)' = keyAt(d)
  BY <1>1 DEF si, keyAt, headOf
<1>3. \A d : Decayed(d)' = Decayed(d)
  BY <1>1, <1>2 DEF Decayed
<1>4. Retrieved' = Retrieved
  <2>1. [d \in Thread |-> Decayed(d) * k[keyAt(d)]]' = [d \in Thread |-> Decayed(d) * k[keyAt(d)]]
    BY <1>1, <1>2, <1>3
  <2> QED
    BY <2>1 DEF Retrieved
<1>5. Correction' = Correction
  BY <1>1, <1>4 DEF Correction, Retrieved
<1>6. \A d : NewState(d)' = NewState(d)
  BY <1>2, <1>3, <1>5 DEF NewState
<1>7. Answer' = Answer
  <2>1. [d \in Thread |-> NewState(d) * q[keyAt(d)]]' = [d \in Thread |-> NewState(d) * q[keyAt(d)]]
    BY <1>1, <1>2, <1>6
  <2> QED
    BY <2>1 DEF Answer
<1> QED
  BY <1>2, <1>3, <1>4, <1>5, <1>6, <1>7

(* The loop variable halves exactly, down to one.                          *)
LEMMA HalvesExactly ==
  /\ \A n \in Widths : Halve(n) \in Offsets \ {0} /\ Halve(n) + Halve(n) = n
  /\ \A n \in Offsets \ {0} :
       \/ n = 1 /\ Halve(n) = 0
       \/ Halve(n) \in Offsets \ {0} /\ Halve(n) + Halve(n) = n
BY WidthAssumption DEF Halve, Offsets

(* A round that begins adds up to the sum of the cells it adds.            *)
LEMMA RoundBegins ==
  ASSUME IInv, TypeOK, dims' = dims, tmp' = tmp,
         NEW n \in Offsets \ {0}, n + n <= Width, NEW which \in {1, 2},
         \A d \in Thread : offset'[d] = n /\ round'[d] = which /\ pc'[d] = LoopHead(d, n, which)
  PROVE  /\ offset'[0] = n /\ Adding(n, which)'
         /\ \A d \in Thread : pc'[d] # "add"
         /\ SumTo(AtStart(pc', tmp', n), n + n) = SumTo(tmp, n + n)
<1>0. Width \in 1..256 /\ 0 \in Thread /\ Thread = 0..(Width - 1) /\ Thread' = Thread
  BY DkPositive DEF TypeOK, Thread, Width
<1>1. n \in Nat /\ n > 0
  BY DEF Offsets
<1>2. \A d \in Thread : pc'[d] = IF d < n THEN "load" ELSE "sync_reduce"
  BY <1>0, <1>1 DEF LoopHead
<1>3. Adding(n, which)'
  BY <1>0, <1>1, <1>2 DEF Adding
<1>4. \A i \in 0..(n + n - 1) : i \in Thread /\ tmp[i] \in Int
  <2>1. \A i \in 0..(n + n - 1) : i \in Thread
    BY <1>0, <1>1
  <2>2. \A i \in Thread : tmp[i] \in Int
    BY DEF TypeOK
  <2> QED
    BY <2>1, <2>2
<1>5. \A i \in 0..(n + n - 1) : AtStart(pc', tmp', n)[i] = tmp[i]
  BY <1>2, <1>4 DEF AtStart
<1>6. SumTo(AtStart(pc', tmp', n), n + n) = SumTo(tmp, n + n)
  <2> DEFINE e == AtStart(pc', tmp', n)
  <2>1. \A i \in 0..(n + n - 1) : tmp[i] \in Int /\ e[i] = tmp[i]
    BY <1>4, <1>5
  <2> HIDE DEF e
  <2>2. SumTo(tmp, n + n) = SumTo(e, n + n)
    BY <1>1, <2>1, SumToSame
  <2> QED
    BY <2>2 DEF e
<1> QED
  BY <1>0, <1>2, <1>3, <1>6

(* A round that ends leaves that sum in the lower half of what it added.   *)
LEMMA RoundEnds ==
  ASSUME IInv, TypeOK, NEW n \in Offsets \ {0}, n + n <= Width,
         \A d \in Thread : pc[d] = "sync_reduce"
  PROVE  SumTo(tmp, n) = SumTo(AtStart(pc, tmp, n), n + n)
<1> DEFINE f == AtStart(pc, tmp, n)
<1>0. Width \in 1..256 /\ Thread = 0..(Width - 1) /\ n \in Nat
  BY DkPositive DEF TypeOK, Thread, Offsets
<1>1. \A i \in 0..(n + n - 1) : i \in Thread /\ tmp[i] \in Int
  BY <1>0 DEF TypeOK
<1>2. \A i \in 0..(n + n - 1) : f[i] = IF i < n THEN tmp[i] - tmp[i + n] ELSE tmp[i]
  BY <1>1 DEF AtStart
<1>3. \A i \in 0..(n - 1) : i + n \in 0..(n + n - 1) /\ i \in 0..(n + n - 1)
  BY <1>0
<1>4. \A i \in 0..(n + n - 1) : f[i] \in Int
  BY <1>0, <1>1, <1>2, <1>3
<1>5. ASSUME NEW i \in 0..(n - 1) PROVE tmp[i] = f[i] + f[i + n]
  <2>1. f[i] = tmp[i] - tmp[i + n] /\ f[i + n] = tmp[i + n]
    BY <1>0, <1>2, <1>3
  <2>2. tmp[i] \in Int /\ tmp[i + n] \in Int
    BY <1>1, <1>3
  <2> QED
    BY <2>1, <2>2
<1> HIDE DEF f
<1>6. SumTo(tmp, n) = SumTo(f, n + n)
  BY <1>0, <1>4, <1>5, SumHalves
<1> QED
  BY <1>6 DEF f

(* A load or a store within a round adds up to the same.                   *)
LEMMA RoundGoesOn ==
  ASSUME IInv, TypeOK, NEW d \in Thread, Load(d) \/ Add(d),
         NEW which \in {1, 2}, NEW total, Adds(which, total), NEW n, n = offset[0]
  PROVE  /\ n \in Offsets \ {0} /\ n + n <= Width /\ offset'[0] = n /\ Adding(n, which)'
         /\ SumTo(AtStart(pc', tmp', n), n + n) = total
         /\ \A e \in Thread : pc'[e] = "add" => sum'[e] = tmp'[e] + tmp'[e + n]
<1>a. n \in Offsets \ {0} /\ n + n <= Width
  BY DEF Adds
<1>0. Width \in 1..256 /\ 0 \in Thread /\ Thread = 0..(Width - 1) /\ n \in Nat \ {0} /\ n + n <= Width
  BY <1>a, DkPositive DEF TypeOK, Thread, Offsets
<1>1. /\ pc[d] \in {"load", "add"} /\ d < n /\ offset[d] = n
      /\ pc' = [pc EXCEPT ![d] = IF pc[d] = "load" THEN "add" ELSE "sync_reduce"]
      /\ sum' = IF pc[d] = "load" THEN [sum EXCEPT ![d] = tmp[d] + tmp[d + n]] ELSE sum
      /\ tmp' = IF pc[d] = "load" THEN tmp ELSE [tmp EXCEPT ![d] = sum[d]]
      /\ offset' = offset /\ round' = round /\ dims' = dims
  BY DEF Load, Add, Adds, Adding, Goto, registers, memory, arguments
<1>2. /\ Adding(n, which) /\ SumTo(AtStart(pc, tmp, n), n + n) = total
      /\ \A e \in Thread : pc[e] = "add" => sum[e] = tmp[e] + tmp[e + n]
  BY DEF Adds
<1>3. /\ Thread' = Thread /\ pc \in [Thread -> Label]
      /\ tmp \in [Thread -> Int] /\ sum \in [Thread -> Int]
  BY <1>1 DEF Thread, Width, TypeOK, IInv, ControlType
<1>4. Adding(n, which)'
  <2> SUFFICES ASSUME NEW e \in Thread
               PROVE  /\ pc'[e] \in {"load", "add", "sync_reduce"}
                      /\ pc'[e] \in {"load", "add"} => e < n
                      /\ offset'[e] = n /\ round'[e] = which
    BY <1>3, Zenon DEF Adding
  <2>1. /\ pc[e] \in {"load", "add", "sync_reduce"} /\ (pc[e] \in {"load", "add"} => e < n)
        /\ offset[e] = n /\ round[e] = which
    BY <1>2 DEF Adding
  <2>2. pc'[e] = IF e = d THEN IF pc[d] = "load" THEN "add" ELSE "sync_reduce" ELSE pc[e]
    BY <1>1, <1>3
  <2> QED
    BY <1>1, <2>1, <2>2
<1>5. \A i \in 0..(n + n - 1) : i \in Thread /\ (i < n => i + n \in Thread /\ i + n # d) /\ (i >= n => i # d)
  <2>1. n \in Nat /\ d \in Nat /\ d < n /\ n + n - 1 \in Nat
    BY <1>0, <1>1
  <2>2. \A i \in 0..(n + n - 1) : i \in Thread
    BY <1>0
  <2>3. \A i \in 0..(n + n - 1) : i < n => i + n \in 0..(n + n - 1)
    BY <2>1
  <2> QED
    BY <2>1, <2>2, <2>3
<1>6. ASSUME NEW i \in 0..(n + n - 1)
      PROVE  AtStart(pc', tmp', n)[i] = AtStart(pc, tmp, n)[i]
  <2>1. CASE i # d
    <3>1. pc'[i] = pc[i] /\ tmp'[i] = tmp[i] /\ (i < n => tmp'[i + n] = tmp[i + n])
      BY <1>1, <1>3, <1>5, <2>1
    <3> QED
      BY <3>1 DEF AtStart
  <2>2. CASE i = d /\ pc[d] = "load"
    <3>1. pc'[i] = "add" /\ tmp'[i] = tmp[i]
      BY <1>1, <1>3, <1>5, <2>2
    <3> QED
      BY <2>2, <3>1 DEF AtStart
  <2>3. CASE i = d /\ pc[d] = "add"
    <3>1. /\ pc'[i] = "sync_reduce" /\ tmp'[i] = tmp[i] + tmp[i + n] /\ tmp'[i + n] = tmp[i + n]
          /\ i < n /\ tmp[i] \in Int /\ tmp[i + n] \in Int
      BY <1>1, <1>2, <1>3, <1>5, <2>3
    <3> QED
      BY <2>3, <3>1 DEF AtStart
  <2> QED
    BY <1>1, <2>1, <2>2, <2>3
<1>7. AtStart(pc', tmp', n) = AtStart(pc, tmp, n)
  <2> DEFINE e == AtStart(pc, tmp, n)
             f == AtStart(pc', tmp', n)
  <2>1. e = [i \in 0..(n + n - 1) |-> e[i]]
    BY DEF AtStart
  <2>2. f = [i \in 0..(n + n - 1) |-> f[i]]
    BY DEF AtStart
  <2>3. \A i \in 0..(n + n - 1) : f[i] = e[i]
    BY <1>6
  <2> HIDE DEF e, f
  <2>4. f = e
    BY <2>1, <2>2, <2>3
  <2> QED
    BY <2>4 DEF e, f
<1>8. ASSUME NEW e \in Thread, pc'[e] = "add" PROVE sum'[e] = tmp'[e] + tmp'[e + n]
  <2>1. e < n /\ e + n \in Thread /\ e + n # d
    <3>1. \A i \in Thread : pc'[i] \in {"load", "add"} => i < n
      BY <1>3, <1>4 DEF Adding
    <3>2. e < n
      BY <1>8, <3>1
    <3> QED
      BY <1>0, <1>1, <3>2
  <2> QED
    BY <1>1, <1>2, <1>3, <1>8, <2>1
<1> QED
  BY <1>a, <1>1, <1>2, <1>4, <1>7, <1>8

\* What the loop variable n leaves of m cells: half of them, or, of the last
\* one, none.
Halved(n, m) == \/ n \in Offsets \ {0} /\ n + n = m /\ m <= Width
                \/ n = 0 /\ m = 1

(* A barrier before which the first m cells hold a sum, and n is next: a    *)
(* round begins, or, when none is left, tmp[0] is the sum.                  *)
LEMMA LoopTurns ==
  ASSUME IInv, TypeOK, dims' = dims, tmp' = tmp, NEW which \in {1, 2}, NEW total,
         NEW n, NEW m, Halved(n, m),
         SumTo(tmp, m) = total,
         \A d \in Thread : offset'[d] = n /\ round'[d] = which /\ pc'[d] = LoopHead(d, n, which)
  PROVE  \/ /\ n \in Offsets \ {0} /\ n + n <= Width /\ offset'[0] = n /\ Adding(n, which)'
            /\ SumTo(AtStart(pc', tmp', n), n + n) = total
            /\ \A d \in Thread : pc'[d] # "add"
         \/ /\ tmp'[0] = total
            /\ which = 1 => Correcting' /\ \A d \in Thread : pc'[d] = "delta"
            /\ which = 2 => Finishing' /\ pc'[0] = "result"
<1>0. Width \in 1..256 /\ 0 \in Thread /\ Thread' = Thread /\ tmp[0] \in Int
  BY DkPositive DEF TypeOK, Thread, Width
<1>1. CASE n + n = m /\ n \in Offsets \ {0} /\ m <= Width
  <2>1. /\ offset'[0] = n /\ Adding(n, which)' /\ \A d \in Thread : pc'[d] # "add"
        /\ SumTo(AtStart(pc', tmp', n), n + n) = SumTo(tmp, n + n)
    BY <1>1, RoundBegins
  <2> QED
    BY <1>1, <2>1
<1>2. CASE n = 0 /\ m = 1
  <2>1. tmp[0] = total
    <3>1. \A i \in 0..0 : tmp[i] \in Int
      BY <1>0
    <3>2. SumTo(tmp, 0 + 1) = SumTo(tmp, 0) + tmp[0]
      BY <3>1, SumToMore
    <3>3. SumTo(tmp, 0) = 0 /\ 0 + 1 = 1
      BY SumToNone
    <3> QED
      BY <1>0, <1>2, <3>2, <3>3
  <2>2. \A d \in Thread : /\ offset'[d] = 0 /\ round'[d] = which
                         /\ pc'[d] = IF which = 1 THEN "delta" ELSE IF d = 0 THEN "result" ELSE "done"
    BY <1>2 DEF LoopHead
  <2>3. which = 1 => Correcting' /\ \A d \in Thread : pc'[d] = "delta"
    BY <1>0, <2>2 DEF Correcting
  <2>4. which = 2 => Finishing' /\ pc'[0] = "result"
    BY <1>0, <2>2 DEF Finishing
  <2> QED
    BY <2>1, <2>3, <2>4
<1> QED
  BY <1>1, <1>2 DEF Halved

LEMMA SyncComputes ==
  ASSUME IInv, TypeOK, Computes, Sync
  PROVE  Computes'
<1>0. Width \in 1..256 /\ 0 \in Thread /\ Thread = 0..(Width - 1)
  BY DkPositive DEF TypeOK, Thread
<1>1. launched = "yes" /\ ~masked
  BY DEF Sync, IInv, OneStage, Returning, Waiting
<1>2. /\ dims' = dims /\ cell' = cell /\ masked' = masked /\ launched' = launched
      /\ round' = round /\ s' = s /\ sum' = sum /\ delta' = delta
      /\ tmp' = tmp /\ out' = out /\ y' = y
  BY DEF Sync, arguments, memory
<1>3. /\ Retrieved' = Retrieved /\ Answer' = Answer /\ Correction' = Correction
      /\ \A d : Decayed(d)' = Decayed(d) /\ NewState(d)' = NewState(d) /\ keyAt(d)' = keyAt(d)
  BY <1>2, TermsStay
<1>4. Thread' = Thread
  BY <1>2 DEF Thread, Width
<1>5. Width \in Widths
  BY <1>1 DEF IInv, InGrid, Accepts
<1> SUFFICES \/ FillsRight' \/ FirstSum' \/ CorrectsRight' \/ UpdatesRight' \/ SecondSum'
             \/ FinishesRight'
  BY <1>1, <1>2 DEF Computes
<1>6. ASSUME NEW n, NEW m, Halved(n, m),
             SumTo(tmp, m) = Retrieved, \A d \in Thread : s[d] = Decayed(d),
             \A d \in Thread : offset'[d] = n /\ round'[d] = 1 /\ pc'[d] = LoopHead(d, n, 1)
      PROVE  FirstSum' \/ CorrectsRight'
  <2>1. \A d \in Thread : s'[d] = Decayed(d)'
    BY <1>2, <1>3, <1>6
  <2>2. CASE /\ n \in Offsets \ {0} /\ n + n <= Width /\ offset'[0] = n /\ Adding(n, 1)'
             /\ SumTo(AtStart(pc', tmp', n), n + n) = Retrieved
             /\ \A d \in Thread : pc'[d] # "add"
    BY <1>2, <1>3, <1>4, <2>1, <2>2 DEF FirstSum, Adds, Width
  <2>3. CASE tmp'[0] = Retrieved /\ Correcting' /\ \A d \in Thread : pc'[d] = "delta"
    BY <1>3, <1>4, <2>1, <2>3 DEF CorrectsRight
  <2> QED
    BY <1>2, <1>6, <2>2, <2>3, LoopTurns
<1>7. ASSUME NEW n, NEW m, Halved(n, m),
             SumTo(tmp, m) = Answer, \A d \in Thread : out[d] = NewState(d),
             \A d \in Thread : offset'[d] = n /\ round'[d] = 2 /\ pc'[d] = LoopHead(d, n, 2)
      PROVE  SecondSum' \/ FinishesRight'
  <2>1. \A d \in Thread : out'[d] = NewState(d)'
    BY <1>2, <1>3, <1>7
  <2>2. CASE /\ n \in Offsets \ {0} /\ n + n <= Width /\ offset'[0] = n /\ Adding(n, 2)'
             /\ SumTo(AtStart(pc', tmp', n), n + n) = Answer
             /\ \A d \in Thread : pc'[d] # "add"
    BY <1>2, <1>3, <1>4, <2>1, <2>2 DEF SecondSum, Adds, Width
  <2>3. CASE tmp'[0] = Answer /\ Finishing' /\ pc'[0] = "result"
    BY <1>3, <1>4, <2>1, <2>3 DEF FinishesRight
  <2> QED
    BY <1>2, <1>7, <2>2, <2>3, LoopTurns
<1>8. CASE FillsRight
  <2>1. \A d \in Thread : pc[d] = "sync_store" /\ round[d] = 1
    BY <1>8 DEF FillsRight, Filling, Sync, Waiting
  <2>2. \A d \in Thread : s[d] = Decayed(d) /\ tmp[d] = Decayed(d) * k[keyAt(d)]
    BY <1>8, <2>1 DEF FillsRight
  <2>3. \A d \in Thread : /\ offset'[d] = Halve(Width) /\ round'[d] = 1
                         /\ pc'[d] = LoopHead(d, Halve(Width), 1)
    BY <1>2, <2>1 DEF Sync
  <2>4. SumTo(tmp, Width) = Retrieved
    <3> DEFINE f == [d \in Thread |-> Decayed(d) * k[keyAt(d)]]
    <3>1. DOMAIN f = Thread /\ \A i \in 0..(Width - 1) : tmp[i] \in Int /\ f[i] = tmp[i]
      BY <1>0, <2>2 DEF TypeOK
    <3>2. Retrieved = Total(f)
      BY DEF Retrieved
    <3> HIDE DEF f
    <3> QED
      BY <1>0, <3>1, <3>2, SumToSame, TotalIs
  <2>5. Halved(Halve(Width), Width)
    BY <1>0, <1>5, HalvesExactly DEF Halved
  <2>6. FirstSum' \/ CorrectsRight'
    BY <1>6, <2>2, <2>3, <2>4, <2>5
  <2> QED
    BY <2>6
<1>9. CASE UpdatesRight
  <2>1. \A d \in Thread : pc[d] = "sync_store" /\ round[d] = 2
    BY <1>9 DEF UpdatesRight, Updating, Sync, Waiting
  <2>2. \A d \in Thread : out[d] = NewState(d) /\ tmp[d] = NewState(d) * q[keyAt(d)]
    BY <1>9, <2>1 DEF UpdatesRight
  <2>3. \A d \in Thread : /\ offset'[d] = Halve(Width) /\ round'[d] = 2
                         /\ pc'[d] = LoopHead(d, Halve(Width), 2)
    BY <1>2, <2>1 DEF Sync
  <2>4. SumTo(tmp, Width) = Answer
    <3> DEFINE f == [d \in Thread |-> NewState(d) * q[keyAt(d)]]
    <3>1. DOMAIN f = Thread /\ \A i \in 0..(Width - 1) : tmp[i] \in Int /\ f[i] = tmp[i]
      BY <1>0, <2>2 DEF TypeOK
    <3>2. Answer = Total(f)
      BY DEF Answer
    <3> HIDE DEF f
    <3> QED
      BY <1>0, <3>1, <3>2, SumToSame, TotalIs
  <2>5. Halved(Halve(Width), Width)
    BY <1>0, <1>5, HalvesExactly DEF Halved
  <2>6. SecondSum' \/ FinishesRight'
    BY <1>7, <2>2, <2>3, <2>4, <2>5
  <2> QED
    BY <2>6
<1>10. ASSUME NEW which \in {1, 2}, NEW total, Adds(which, total)
       PROVE  \E n, m : /\ Halved(n, m)
                        /\ SumTo(tmp, m) = total
                        /\ \A d \in Thread : /\ offset'[d] = n /\ round'[d] = which
                                             /\ pc'[d] = LoopHead(d, n, which)
  <2>1. PICK m : m = offset[0]
    OBVIOUS
  <2>2. /\ m \in Offsets \ {0} /\ m + m <= Width /\ Adding(m, which)
        /\ SumTo(AtStart(pc, tmp, m), m + m) = total
    BY <1>10, <2>1 DEF Adds
  <2>3. \A d \in Thread : pc[d] = "sync_reduce" /\ offset[d] = m /\ round[d] = which
    BY <2>2 DEF Adding, Sync, Waiting
  <2>4. SumTo(tmp, m) = total
    BY <2>2, <2>3, RoundEnds
  <2>5. \A d \in Thread : /\ offset'[d] = Halve(m) /\ round'[d] = which
                         /\ pc'[d] = LoopHead(d, Halve(m), which)
    BY <1>2, <2>3 DEF Sync
  <2>6. m <= Width
    BY <1>0, <2>2 DEF Offsets
  <2>7. Halved(Halve(m), m)
    BY <2>2, <2>6, HalvesExactly DEF Halved
  <2> QED
    BY <2>4, <2>5, <2>7, Zenon
<1>11. CASE FirstSum
  <2>1. PICK n, m : /\ Halved(n, m)
                    /\ SumTo(tmp, m) = Retrieved
                    /\ \A d \in Thread : /\ offset'[d] = n /\ round'[d] = 1
                                         /\ pc'[d] = LoopHead(d, n, 1)
    BY <1>10, <1>11 DEF FirstSum
  <2>2. \A d \in Thread : s[d] = Decayed(d)
    BY <1>11 DEF FirstSum
  <2> QED
    BY <1>6, <2>1, <2>2
<1>12. CASE SecondSum
  <2>1. PICK n, m : /\ Halved(n, m)
                    /\ SumTo(tmp, m) = Answer
                    /\ \A d \in Thread : /\ offset'[d] = n /\ round'[d] = 2
                                         /\ pc'[d] = LoopHead(d, n, 2)
    BY <1>10, <1>12 DEF SecondSum
  <2>2. \A d \in Thread : out[d] = NewState(d)
    BY <1>12 DEF SecondSum
  <2> QED
    BY <1>7, <2>1, <2>2
<1>13. CASE CorrectsRight
  <2>1. \A d \in Thread : pc[d] = "sync_delta" /\ offset[d] = 0 /\ round[d] = 1
    BY <1>13 DEF CorrectsRight, Correcting, Sync, Waiting
  <2>2. \A d \in Thread : s[d] = Decayed(d) /\ delta[d] = Correction
    BY <1>13, <2>1 DEF CorrectsRight
  <2>3. \A d \in Thread : pc'[d] = "update" /\ offset'[d] = 0 /\ round'[d] = 1
    BY <1>2, <2>1 DEF Sync
  <2>4. Updating'
    BY <1>4, <2>3 DEF Updating
  <2> QED
    BY <1>2, <1>3, <1>4, <2>2, <2>3, <2>4 DEF UpdatesRight
<1>14. CASE FinishesRight
  BY <1>14 DEF FinishesRight, Finishing, Sync, Waiting
<1> QED
  BY <1>1, <1>8, <1>9, <1>11, <1>12, <1>13, <1>14 DEF Computes

LEMMA ExecuteComputes ==
  ASSUME IInv, TypeOK, IInv', TypeOK', Computes, NEW d \in Thread, Execute(d)
  PROVE  Computes'
<1>0. Width \in 1..256 /\ 0 \in Thread /\ Thread = 0..(Width - 1)
  BY DkPositive DEF TypeOK, Thread
<1>1. launched = "yes"
  BY DEF Execute
<1>2. dims' = dims /\ cell' = cell /\ masked' = masked /\ launched' = launched
  BY DEF Execute, Mask, Zero, Store, Load, Add, Delta, Update, Result, arguments
<1>3. /\ Retrieved' = Retrieved /\ Answer' = Answer /\ Correction' = Correction
      /\ \A i : /\ si(i)' = si(i) /\ keyAt(i)' = keyAt(i)
               /\ Decayed(i)' = Decayed(i) /\ NewState(i)' = NewState(i)
  BY <1>2, TermsStay
<1>4. Thread' = Thread /\ Width' = Width
  BY <1>2 DEF Thread, Width
<1>5. /\ pc \in [Thread -> Label] /\ s \in [Thread -> Int] /\ sum \in [Thread -> Int]
      /\ delta \in [Thread -> Int] /\ tmp \in [Thread -> Int] /\ out \in [Thread -> Int]
      /\ round \in [Thread -> {1, 2}]
  BY DEF TypeOK, IInv, ControlType
<1> USE DEF Goto, arguments, registers, memory
<1>6. CASE masked
  <2>1. pc[d] \in {"mask", "zero"} /\ (pc[d] = "zero" => d = 0)
    BY <1>1, <1>6 DEF Execute, IInv, OneStage, Returning, Mask, Zero, Store, Load, Add, Delta,
                      Update, Result
  <2>2. Mask(d) \/ Zero(d)
    BY <2>1 DEF Execute, Store, Load, Add, Delta, Update, Result
  <2>3. ASSUME NEW i \in Thread, pc'[i] # "mask" PROVE out'[i] = state[si(i)]
    <3>1. pc[i] # "mask" => out[i] = state[si(i)]
      BY <1>1, <1>6 DEF Computes
    <3>2. CASE Mask(d)
      BY <1>5, <1>6, <2>3, <3>1, <3>2 DEF Mask
    <3>3. CASE Zero(d)
      BY <1>5, <2>3, <3>1, <3>3 DEF Zero
    <3> QED
      BY <2>2, <3>2, <3>3
  <2>4. pc'[0] = "done" => y' = 0
    BY <1>0, <1>1, <1>5, <1>6, <2>1, <2>2 DEF Computes, Mask, Zero
  <2> QED
    BY <1>2, <1>3, <1>4, <1>6, <2>3, <2>4 DEF Computes
<1>7. CASE ~masked
  <2> SUFFICES \/ FillsRight' \/ FirstSum' \/ CorrectsRight' \/ UpdatesRight' \/ SecondSum'
               \/ FinishesRight'
    BY <1>2, <1>7 DEF Computes
  <2>0. FillsRight \/ FirstSum \/ CorrectsRight \/ UpdatesRight \/ SecondSum \/ FinishesRight
    BY <1>1, <1>7 DEF Computes
  <2> USE DEF FillsRight, FirstSum, CorrectsRight, UpdatesRight, SecondSum, FinishesRight
  <2>1. CASE Mask(d)
    <3>1. FillsRight
      BY <2>0, <2>1 DEF Mask, Filling, Adds, Adding, Correcting, Updating, Finishing
    <3>2. pc' = [pc EXCEPT ![d] = "store"] /\ UNCHANGED <<registers, tmp, out>>
      BY <1>7, <2>1 DEF Mask
    <3>3. Filling'
      BY <1>4, <1>5, <3>1, <3>2 DEF Filling
    <3>4. FillsRight'
      BY <1>3, <1>4, <1>5, <3>1, <3>2, <3>3
    <3> QED
      BY <3>4
  <2>2. CASE Store(d)
    <3>1. FillsRight
      BY <2>0, <2>2 DEF Store, Filling, Adds, Adding, Correcting, Updating, Finishing
    <3>2. /\ s' = [s EXCEPT ![d] = Decayed(d)]
          /\ tmp' = [tmp EXCEPT ![d] = Decayed(d) * k[keyAt(d)]]
          /\ pc' = [pc EXCEPT ![d] = "sync_store"] /\ round' = round /\ offset' = offset
      <4>1. s' = [s EXCEPT ![d] = Decayed(d)]
        BY <1>1, <2>2, Terms DEF Store
      <4>2. s'[d] = Decayed(d)
        BY <1>5, <4>1
      <4>3. s'[d] * k[qi(d)] = Decayed(d) * k[keyAt(d)]
        BY <1>1, <4>2, Terms
      <4> QED
        BY <2>2, <4>1, <4>3 DEF Store
    <3>3. Filling'
      BY <1>4, <1>5, <3>1, <3>2 DEF Filling
    <3>4. FillsRight'
      BY <1>3, <1>4, <1>5, <3>1, <3>2, <3>3
    <3> QED
      BY <3>4
  <2>3. CASE Load(d) \/ Add(d)
    <3>1. FirstSum \/ SecondSum
      BY <2>0, <2>3 DEF Load, Add, Filling, Correcting, Updating, Finishing
    <3>2. s' = s /\ out' = out
      BY <2>3 DEF Load, Add
    <3>3. PICK n : n = offset[0]
      OBVIOUS
    <3>4. ASSUME NEW which \in {1, 2}, NEW total, Adds(which, total)
          PROVE  /\ n \in Offsets \ {0} /\ n + n <= Width /\ offset'[0] = n /\ Adding(n, which)'
                 /\ SumTo(AtStart(pc', tmp', n), n + n) = total
                 /\ \A e \in Thread : pc'[e] = "add" => sum'[e] = tmp'[e] + tmp'[e + n]
      BY <2>3, <3>3, <3>4, RoundGoesOn
    <3>5. CASE FirstSum
      <4>1. /\ n \in Offsets \ {0} /\ n + n <= Width /\ offset'[0] = n /\ Adding(n, 1)'
            /\ SumTo(AtStart(pc', tmp', n), n + n) = Retrieved
            /\ \A e \in Thread : pc'[e] = "add" => sum'[e] = tmp'[e] + tmp'[e + n]
        BY <3>4, <3>5
      <4>2. Adds(1, Retrieved)'
        BY <1>3, <1>4, <4>1 DEF Adds
      <4> QED
        BY <1>3, <1>4, <3>2, <3>5, <4>2
    <3>6. CASE SecondSum
      <4>1. /\ n \in Offsets \ {0} /\ n + n <= Width /\ offset'[0] = n /\ Adding(n, 2)'
            /\ SumTo(AtStart(pc', tmp', n), n + n) = Answer
            /\ \A e \in Thread : pc'[e] = "add" => sum'[e] = tmp'[e] + tmp'[e + n]
        BY <3>4, <3>6
      <4>2. Adds(2, Answer)'
        BY <1>3, <1>4, <4>1 DEF Adds
      <4> QED
        BY <1>3, <1>4, <3>2, <3>6, <4>2
    <3> QED
      BY <3>1, <3>5, <3>6
  <2>4. CASE Delta(d)
    <3>1. CorrectsRight
      BY <2>0, <2>4 DEF Delta, Filling, Adds, Adding, Correcting, Updating, Finishing
    <3>2. /\ delta' = [delta EXCEPT ![d] = Correction] /\ pc' = [pc EXCEPT ![d] = "sync_delta"]
          /\ UNCHANGED <<round, offset, s, tmp>>
      BY <1>1, <2>4, <3>1, Terms DEF Delta
    <3>3. Correcting'
      BY <1>4, <1>5, <3>1, <3>2 DEF Correcting
    <3>4. CorrectsRight'
      BY <1>3, <1>4, <1>5, <3>1, <3>2, <3>3
    <3> QED
      BY <3>4
  <2>5. CASE Update(d)
    <3>1. UpdatesRight /\ pc[d] = "update"
      BY <2>0, <2>5 DEF Update, Filling, Adds, Adding, Correcting, Updating, Finishing
    <3>2. /\ out' = [out EXCEPT ![d] = NewState(d)]
          /\ tmp' = [tmp EXCEPT ![d] = NewState(d) * q[keyAt(d)]]
          /\ s' = [s EXCEPT ![d] = NewState(d)]
          /\ pc' = [pc EXCEPT ![d] = "sync_store"] /\ round' = [round EXCEPT ![d] = 2]
          /\ offset' = offset /\ delta' = delta
      <4>1. s[d] + delta[d] * k[qi(d)] = NewState(d)
        BY <1>1, <3>1, Terms DEF NewState
      <4>2. s' = [s EXCEPT ![d] = NewState(d)]
        BY <2>5, <4>1 DEF Update
      <4>3. s'[d] = NewState(d)
        BY <1>5, <4>2
      <4>4. s'[d] * q[qi(d)] = NewState(d) * q[keyAt(d)]
        BY <1>1, <4>3, Terms
      <4> QED
        BY <2>5, <4>2, <4>3, <4>4 DEF Update
    <3>3. Updating'
      BY <1>4, <1>5, <3>1, <3>2 DEF Updating
    <3>4. UpdatesRight'
      BY <1>3, <1>4, <1>5, <3>1, <3>2, <3>3
    <3> QED
      BY <3>4
  <2>6. CASE Result(d)
    <3>1. FinishesRight /\ d = 0 /\ pc[0] = "result"
      BY <2>0, <2>6 DEF Result, Filling, Adds, Adding, Correcting, Updating, Finishing
    <3>2. y' = Answer /\ pc' = [pc EXCEPT ![0] = "done"] /\ out' = out
      BY <2>6, <3>1 DEF Result
    <3>3. Finishing'
      BY <1>4, <1>5, <3>1, <3>2 DEF Finishing
    <3>4. FinishesRight'
      BY <1>0, <1>3, <1>4, <1>5, <3>1, <3>2, <3>3
    <3> QED
      BY <3>4
  <2>7. CASE Zero(d)
    BY <2>0, <2>7 DEF Zero, Filling, Adds, Adding, Correcting, Updating, Finishing
  <2> QED
    BY <2>1, <2>2, <2>3, <2>4, <2>5, <2>6, <2>7 DEF Execute
<1> QED
  BY <1>6, <1>7

LEMMA ComputesStep ==
  IInv /\ TypeOK /\ IInv' /\ TypeOK' /\ Computes /\ [Next]_vars => Computes'
<1> SUFFICES ASSUME IInv, TypeOK, IInv', TypeOK', Computes, [Next]_vars PROVE Computes'
  OBVIOUS
<1>1. CASE Launch
  <2>1. \A d \in Thread' : pc'[d] = "mask" /\ round'[d] = 1 /\ offset'[d] = 0
    BY <1>1 DEF Launch, IInv, OneStage, registers, Thread, Width
  <2>2. FillsRight'
    BY <2>1 DEF FillsRight, Filling
  <2>3. 0 \in Thread' /\ pc'[0] = "mask"
    <3>1. 0 \in Thread /\ Thread' = Thread
      BY <1>1, DkPositive DEF IInv, ControlType, Launch, Thread, Width
    <3> QED
      BY <2>1, <3>1
  <2> QED
    BY <2>1, <2>2, <2>3 DEF Computes
<1>2. CASE Refuse
  BY <1>2 DEF Refuse, Computes
<1>3. CASE Sync
  BY <1>3, SyncComputes
<1>4. ASSUME NEW d \in Thread, Execute(d) PROVE Computes'
  BY <1>4, ExecuteComputes
<1>5. CASE UNCHANGED vars
  <2>1. /\ dims' = dims /\ cell' = cell /\ launched' = launched /\ masked' = masked /\ pc' = pc
        /\ round' = round /\ offset' = offset /\ s' = s /\ sum' = sum /\ delta' = delta
        /\ tmp' = tmp /\ out' = out /\ y' = y /\ Thread' = Thread /\ Width' = Width
    BY <1>5 DEF vars, arguments, registers, memory, Thread, Width
  <2>2. /\ Retrieved' = Retrieved /\ Answer' = Answer /\ Correction' = Correction
        /\ \A d : /\ si(d)' = si(d) /\ keyAt(d)' = keyAt(d)
                 /\ Decayed(d)' = Decayed(d) /\ NewState(d)' = NewState(d)
    BY <2>1, TermsStay
  <2> QED
    BY <2>1, <2>2 DEF Computes, FillsRight, FirstSum, CorrectsRight, UpdatesRight, SecondSum,
       FinishesRight, Adds, Filling, Adding, Correcting, Updating, Finishing
<1> QED
  BY <1>1, <1>2, <1>3, <1>4, <1>5 DEF Next

(* The block computes the recurrence of its row, for every grid, width and *)
(* content of the arrays, in whatever order its threads run.               *)
THEOREM BlockComputesRecurrence == Spec => []ResultCorrect
<1>1. Init => Computes
  BY DEF Init, Computes
<1>2. IInv /\ Computes => ResultCorrect
  <2> SUFFICES ASSUME IInv, Computes, launched = "yes" PROVE ResultCorrect
    BY DEF ResultCorrect
  <2>1. CASE masked
    BY <2>1 DEF Computes, ResultCorrect
  <2>2. CASE ~masked
    <3>1. 0 \in Thread
      BY DkPositive DEF IInv, ControlType
    <3>2. ASSUME NEW d \in Thread, pc[d] = "done" PROVE FinishesRight
      BY <2>2, <3>2 DEF Computes, FillsRight, FirstSum, CorrectsRight, UpdatesRight, SecondSum,
         Adds, Filling, Adding, Correcting, Updating
    <3> QED
      BY <2>2, <3>1, <3>2 DEF FinishesRight, ResultCorrect, Answer
  <2> QED
    BY <2>1, <2>2
<1> QED
  BY <1>1, <1>2, ComputesStep, IInvariant, TypeCorrect, PTL DEF Spec

----------------------------------------------------------------------------
(* The oracles: sums, groups of heads, and one pass over the tokens.       *)

(* What the oracles write as SumFunction is such a sum.                    *)
LEMMA SumFunctionIs ==
  ASSUME NEW f PROVE SumFunction(f) = Sum(f, DOMAIN f)
BY Zenon DEF SumFunction, SumFunctionOnSet, FoldFunctionOnSet, MapThenFoldSet, Sum

(* A common factor may be taken out of a sum.                              *)
LEMMA SumScaled ==
  ASSUME NEW S, IsFiniteSet(S), NEW f, NEW e, NEW c \in Int,
         \A i \in S : f[i] \in Int /\ e[i] = c * f[i]
  PROVE  Sum(e, S) = c * Sum(f, S)
<1> DEFINE Good == {n \in Nat : \A U \in SUBSET S : Cardinality(U) = n => Sum(e, U) = c * Sum(f, U)}
<1>0. \A U \in SUBSET S : IsFiniteSet(U) /\ Cardinality(U) \in Nat /\ (Cardinality(U) = 0 => U = {})
  BY FS_Subset, FS_CardinalityType, FS_EmptySet
<1>1. 0 \in Good
  <2>1. Sum(f, {}) = 0 /\ Sum(e, {}) = 0
    BY FS_EmptySet, SumEquation
  <2> QED
    BY <1>0, <2>1
<1>2. ASSUME NEW n \in Good PROVE n + 1 \in Good
  <2> SUFFICES ASSUME NEW U \in SUBSET S, Cardinality(U) = n + 1 PROVE Sum(e, U) = c * Sum(f, U)
    OBVIOUS
  <2>0. Cardinality(U) # 0
    OBVIOUS
  <2>1. U # {} /\ IsFiniteSet(U)
    BY <1>0, <2>0, FS_EmptySet
  <2> DEFINE i == Taken(U)
             R == U \ {i}
  <2>2. i \in U /\ Sum(f, U) = f[i] + Sum(f, R) /\ Sum(e, U) = e[i] + Sum(e, R)
    BY <2>1, TakenOut, SumEquation
  <2>3. IsFiniteSet(R) /\ Cardinality(R) = Cardinality(U) - 1 /\ R \in SUBSET S
    BY <2>1, <2>2, FS_RemoveElement
  <2>4. Sum(f, R) \in Int
    BY <2>3, SumType
  <2> HIDE DEF i, R
  <2>5. Sum(e, R) = c * Sum(f, R)
    BY <2>3
  <2>6. f[i] \in Int /\ e[i] = c * f[i]
    BY <2>2
  <2>7. c * (f[i] + Sum(f, R)) = c * f[i] + c * Sum(f, R)
    BY <2>4, <2>6
  <2> QED
    BY <2>2, <2>5, <2>6, <2>7
<1>3. Good = Nat
  <2> HIDE DEF Good
  <2>1. Good \in SUBSET Nat
    BY DEF Good
  <2> QED
    BY <1>1, <1>2, <2>1, Induction
<1> QED
  BY <1>0, <1>3

(* A sum over nothing.                                                     *)
LEMMA SumOfNone == ASSUME NEW f PROVE Sum(f, {}) = 0
BY FS_EmptySet, SumEquation

(* Sums are added term by term.                                            *)
LEMMA SumAdded ==
  ASSUME NEW S, IsFiniteSet(S), NEW e, NEW f, NEW d,
         \A i \in S : f[i] \in Int /\ d[i] \in Int /\ e[i] = f[i] + d[i]
  PROVE  Sum(e, S) = Sum(f, S) + Sum(d, S)
<1> DEFINE Good == {n \in Nat : \A U \in SUBSET S : Cardinality(U) = n => Sum(e, U) = Sum(f, U) + Sum(d, U)}
<1>0. \A U \in SUBSET S : IsFiniteSet(U) /\ Cardinality(U) \in Nat /\ (Cardinality(U) = 0 => U = {})
  BY FS_Subset, FS_CardinalityType, FS_EmptySet
<1>1. 0 \in Good
  <2>1. Sum(e, {}) = Sum(f, {}) + Sum(d, {})
    BY SumOfNone
  <2> QED
    BY <1>0, <2>1
<1>2. ASSUME NEW n \in Good PROVE n + 1 \in Good
  <2> SUFFICES ASSUME NEW U \in SUBSET S, Cardinality(U) = n + 1 PROVE Sum(e, U) = Sum(f, U) + Sum(d, U)
    OBVIOUS
  <2>0. Cardinality(U) # 0
    OBVIOUS
  <2>1. U # {} /\ IsFiniteSet(U)
    BY <1>0, <2>0, FS_EmptySet
  <2> DEFINE i == Taken(U)
             R == U \ {i}
  <2>2. i \in U /\ Sum(f, U) = f[i] + Sum(f, R) /\ Sum(d, U) = d[i] + Sum(d, R) /\ Sum(e, U) = e[i] + Sum(e, R)
    BY <2>1, TakenOut, SumEquation
  <2>3. IsFiniteSet(R) /\ Cardinality(R) = Cardinality(U) - 1 /\ R \in SUBSET S
    BY <2>1, <2>2, FS_RemoveElement
  <2>4. Sum(f, R) \in Int /\ Sum(d, R) \in Int
    BY <2>3, SumType
  <2> HIDE DEF i, R
  <2>5. Sum(e, R) = Sum(f, R) + Sum(d, R)
    BY <2>3
  <2>6. f[i] \in Int /\ d[i] \in Int /\ e[i] = f[i] + d[i]
    BY <2>2
  <2> QED
    BY <2>2, <2>4, <2>5, <2>6
<1>3. Good = Nat
  <2> HIDE DEF Good
  <2>1. Good \in SUBSET Nat
    BY DEF Good
  <2> QED
    BY <1>1, <1>2, <2>1, Induction
<1> QED
  BY <1>0, <1>3

(* Sums of the same terms.                                                 *)
LEMMA SumSame ==
  ASSUME NEW S, IsFiniteSet(S), NEW e, NEW f, \A i \in S : f[i] \in Int /\ e[i] = f[i]
  PROVE  Sum(e, S) = Sum(f, S)
<1>1. \A i \in S : f[i] \in Int /\ e[i] = 1 * f[i]
  OBVIOUS
<1>2. Sum(e, S) = 1 * Sum(f, S)
  BY <1>1, SumScaled
<1> QED
  BY <1>2, SumType

LEMMA SumOfZeros ==
  ASSUME NEW S, IsFiniteSet(S), NEW f, \A i \in S : f[i] = 0
  PROVE  Sum(f, S) = 0
<1>1. \A i \in S : f[i] \in Int /\ f[i] = f[i] + f[i]
  OBVIOUS
<1>2. Sum(f, S) = Sum(f, S) + Sum(f, S)
  BY <1>1, SumAdded
<1> QED
  BY <1>1, <1>2, SumType

(* Two sums that differ only in U differ by their parts over U.            *)
LEMMA SumChanged ==
  ASSUME NEW S, IsFiniteSet(S), NEW f, NEW e, NEW U \in SUBSET S,
         \A i \in S : f[i] \in Int /\ e[i] \in Int,
         \A i \in S \ U : e[i] = f[i]
  PROVE  Sum(e, S) - Sum(f, S) = Sum(e, U) - Sum(f, U)
<1> DEFINE Fine(R) == Sum(e, R) - Sum(f, R) = Sum(e, R \cap U) - Sum(f, R \cap U)
           Good == {n \in Nat : \A R \in SUBSET S : Cardinality(R) = n => Fine(R)}
<1>0. \A R \in SUBSET S : IsFiniteSet(R) /\ Cardinality(R) \in Nat /\ (Cardinality(R) = 0 => R = {})
  BY FS_Subset, FS_CardinalityType, FS_EmptySet
<1>1. 0 \in Good
  <2>1. Fine({})
    <3>1. {} \cap U = {}
      OBVIOUS
    <3> QED
      BY <3>1
  <2> QED
    BY <1>0, <2>1
<1>2. ASSUME NEW n \in Good PROVE n + 1 \in Good
  <2> SUFFICES ASSUME NEW R \in SUBSET S, Cardinality(R) = n + 1 PROVE Fine(R)
    OBVIOUS
  <2>0. Cardinality(R) # 0
    OBVIOUS
  <2>1. R # {} /\ IsFiniteSet(R)
    BY <1>0, <2>0, FS_EmptySet
  <2> DEFINE i == Taken(R)
             Q == R \ {i}
  <2>2. i \in R /\ Sum(f, R) = f[i] + Sum(f, Q) /\ Sum(e, R) = e[i] + Sum(e, Q)
    BY <2>1, TakenOut, SumEquation
  <2>3. IsFiniteSet(Q) /\ Cardinality(Q) = Cardinality(R) - 1 /\ Q \in SUBSET S
    BY <2>1, <2>2, FS_RemoveElement
  <2>4. Fine(Q)
    BY <2>3
  <2>5. /\ Sum(f, Q) \in Int /\ Sum(e, Q) \in Int /\ f[i] \in Int /\ e[i] \in Int
        /\ Sum(f, Q \cap U) \in Int /\ Sum(e, Q \cap U) \in Int
    <3>1. Q \cap U \in SUBSET S /\ IsFiniteSet(Q \cap U)
      BY <1>0, <2>3
    <3> QED
      BY <2>2, <2>3, <3>1, SumType
  <2>6. CASE i \in U
    <3>1. i \in R \cap U /\ (R \cap U) \ {i} = Q \cap U /\ IsFiniteSet(R \cap U)
      BY <1>0, <2>2, <2>6
    <3>2. \A j \in R \cap U : f[j] \in Int /\ e[j] \in Int
      OBVIOUS
    <3> HIDE DEF i, Q
    <3>3. Sum(f, R \cap U) = f[i] + Sum(f, Q \cap U) /\ Sum(e, R \cap U) = e[i] + Sum(e, Q \cap U)
      BY <3>1, <3>2, SumOneOut
    <3> QED
      BY <2>2, <2>4, <2>5, <3>3
  <2>7. CASE i \notin U
    <3>1. R \cap U = Q \cap U /\ e[i] = f[i]
      BY <2>2, <2>7
    <3> HIDE DEF i, Q
    <3>2. Sum(f, R \cap U) = Sum(f, Q \cap U) /\ Sum(e, R \cap U) = Sum(e, Q \cap U)
      BY <3>1, Zenon
    <3> QED
      BY <2>2, <2>4, <2>5, <3>1, <3>2
  <2> QED
    BY <2>6, <2>7
<1>3. Good = Nat
  <2> HIDE DEF Good
  <2>1. Good \in SUBSET Nat
    BY DEF Good
  <2> QED
    BY <1>1, <1>2, <2>1, Induction
<1>4. Fine(S)
  BY <1>0, <1>3
<1>5. S \cap U = U
  OBVIOUS
<1> QED
  BY <1>4, <1>5

(* A sum over one index.                                                   *)
LEMMA SumOfOne == ASSUME NEW f, NEW i, f[i] \in Int PROVE Sum(f, {i}) = f[i]
<1>1. IsFiniteSet({i}) /\ {i} \ {i} = {}
  BY FS_Singleton
<1>2. Sum(f, {i}) = f[i] + Sum(f, {i} \ {i})
  <2>1. \A j \in {i} : f[j] \in Int
    OBVIOUS
  <2> QED
    BY <1>1, <2>1, SumOneOut
<1> QED
  BY <1>1, <1>2, SumOfNone

(* One term changed.                                                       *)
LEMMA SumBumped ==
  ASSUME NEW S, IsFiniteSet(S), NEW f, NEW e, NEW i \in S,
         \A j \in S : f[j] \in Int /\ e[j] \in Int,
         \A j \in S : j # i => e[j] = f[j]
  PROVE  Sum(e, S) = Sum(f, S) + (e[i] - f[i])
<1>1. {i} \in SUBSET S /\ \A j \in S \ {i} : e[j] = f[j]
  OBVIOUS
<1>2. Sum(e, S) - Sum(f, S) = Sum(e, {i}) - Sum(f, {i})
  BY <1>1, SumChanged
<1>3. Sum(e, {i}) = e[i] /\ Sum(f, {i}) = f[i]
  BY SumOfOne
<1>4. Sum(e, S) \in Int /\ Sum(f, S) \in Int
  BY SumType
<1> QED
  BY <1>2, <1>3, <1>4

(* The heads of a group, numbered within it.                               *)
LEMMA SumRenumbered ==
  ASSUME NEW n \in Nat, NEW m \in Int, NEW f, NEW e,
         \A i \in 0..(n - 1) : e[i] \in Int /\ f[m + i] = e[i]
  PROVE  Sum(f, m..(m + n - 1)) = Sum(e, 0..(n - 1))
<1> DEFINE Good == {p \in Nat : p <= n => Sum(f, m..(m + p - 1)) = Sum(e, 0..(p - 1))}
<1>1. 0 \in Good
  <2>1. m..(m + 0 - 1) = {} /\ 0..(0 - 1) = {}
    OBVIOUS
  <2> QED
    BY <2>1, SumOfNone
<1>2. ASSUME NEW p \in Good PROVE p + 1 \in Good
  <2> SUFFICES ASSUME p + 1 <= n PROVE Sum(f, m..(m + (p + 1) - 1)) = Sum(e, 0..((p + 1) - 1))
    OBVIOUS
  <2>0. p \in Nat /\ p \in 0..(n - 1)
    OBVIOUS
  <2> DEFINE A == m..(m + (p + 1) - 1)
             B == 0..((p + 1) - 1)
  <2>1. A \ {m + p} = m..(m + p - 1) /\ m + p \in A /\ \A j \in A : j - m \in 0..(n - 1) /\ m + (j - m) = j
    BY <2>0
  <2>2. B \ {p} = 0..(p - 1) /\ p \in B /\ \A j \in B : j \in 0..(n - 1)
    BY <2>0
  <2>3. IsFiniteSet(A) /\ IsFiniteSet(B)
    BY <2>0, FS_Interval
  <2>4. (\A j \in A : f[j] \in Int) /\ (\A j \in B : e[j] \in Int)
    <3>1. ASSUME NEW j \in A PROVE f[j] \in Int
      <4>1. j - m \in 0..(n - 1) /\ m + (j - m) = j
        BY <2>1
      <4>2. f[m + (j - m)] = e[j - m] /\ e[j - m] \in Int
        BY <4>1
      <4> QED
        BY <4>1, <4>2
    <3> QED
      BY <2>2, <3>1
  <2>5. Sum(f, m..(m + p - 1)) = Sum(e, 0..(p - 1))
    BY <2>0
  <2> HIDE DEF A, B
  <2> DEFINE a == m + p
  <2>a. a \in A
    BY <2>1
  <2> HIDE DEF a
  <2>b. Sum(f, A) = f[a] + Sum(f, A \ {a})
    BY <2>a, <2>3, <2>4, SumOneOut
  <2>c. Sum(e, B) = e[p] + Sum(e, B \ {p})
    BY <2>2, <2>3, <2>4, SumOneOut
  <2>6. Sum(f, A) = f[m + p] + Sum(f, A \ {m + p}) /\ Sum(e, B) = e[p] + Sum(e, B \ {p})
    BY <2>b, <2>c DEF a
  <2>7. f[m + p] = e[p]
    BY <2>0
  <2>8. Sum(f, A) = Sum(e, B)
    BY <2>1, <2>2, <2>5, <2>6, <2>7
  <2> QED
    BY <2>8 DEF A, B
<1>3. Good = Nat
  <2> HIDE DEF Good
  <2>1. Good \in SUBSET Nat
    BY DEF Good
  <2> QED
    BY <1>1, <1>2, <2>1, Induction
<1>4. n \in Good
  BY <1>3, Zenon
<1> QED
  BY <1>4

(* Heads and key heads.                                                    *)

LEMMA Groups == r \in Nat \ {0} /\ Hv = Hk * r
<1>1. Hv \in Nat \ {0} /\ Hk \in Nat \ {0} /\ Hv % Hk = 0
  BY DimensionAssumption
<1> DEFINE G == Hv \div Hk
<1>2. G \in Int /\ Hv = G * Hk
  BY <1>1, QuotientRemainder
<1> HIDE DEF G
<1>3. ~(G <= 0)
  <2> SUFFICES ASSUME G <= 0 PROVE FALSE
    OBVIOUS
  <2>1. G * Hk <= 0 * Hk
    BY <1>1, <1>2, TimesMonotone
  <2> QED
    BY <1>1, <1>2, <2>1
<1>4. G \in Nat \ {0} /\ Hv = Hk * G
  BY <1>1, <1>2, <1>3
<1> QED
  BY <1>4 DEF r, G

(* The run of heads that a head is in is its quotient by the length of a   *)
(* run, as np.repeat has it.                                               *)
LEMMA KeyHeadIs ==
  ASSUME NEW h \in Heads
  PROVE  h \div r \in KHeads /\ KeyHead(h) = h \div r
<1>1. r \in Nat \ {0} /\ Hv = Hk * r /\ Hk \in Nat \ {0} /\ Hv \in Nat \ {0} /\ r = Hv \div Hk /\ Hv % Hk = 0
  BY Groups, DimensionAssumption DEF r
<1>2. h \in 0..(Hv - 1)
  BY DEF Heads
<1>3. h \div r \in 0..(Hk - 1)
  BY <1>1, <1>2, HeadOfGroup
<1>r. r \in Nat \ {0}
  BY <1>1
<1>h. h \in Int
  BY <1>1, <1>2
<1>4. h \div r \in Int /\ h % r \in 0..(r - 1) /\ h = (h \div r) * r + (h % r)
  BY <1>r, <1>h, QuotientRemainder
<1>5. h \in (h \div r) * r .. (h \div r) * r + r - 1
  <2> DEFINE G == h \div r
             low == h % r
  <2>1. G * r \in Int
    BY <1>1, <1>4
  <2> HIDE DEF G, low
  <2>2. low \in 0..(r - 1) /\ h = G * r + low
    BY <1>4 DEF G, low
  <2>3. h \in G * r .. G * r + r - 1
    BY <1>1, <2>1, <2>2
  <2> QED
    BY <2>3 DEF G
<1>6. ASSUME NEW kh \in KHeads, h \in kh * r .. kh * r + r - 1 PROVE kh = h \div r
  <2> DEFINE low == h - kh * r
  <2>1. kh \in Nat /\ kh * r \in Int
    BY <1>1 DEF KHeads
  <2>2. low \in 0..(r - 1) /\ h = kh * r + low
    BY <1>1, <1>2, <1>6, <2>1
  <2> HIDE DEF low
  <2>3. (kh * r + low) \div r = kh
    BY <1>r, <2>1, <2>2, Decode
  <2> QED
    BY <2>2, <2>3
<1>7. h \div r \in KHeads
  BY <1>3 DEF KHeads
<1> QED
  BY <1>5, <1>6, <1>7 DEF KeyHead

(* One pass over the tokens in S, the last of them at the end.             *)
Pass(z, S) ==
  MapThenFoldSet(LAMBDA i, U : Recurrence(z, U, i), z.state, LAMBDA i : i, Max, S)

IsPass(h, z, D) ==
  h = [S \in D |-> IF S = {} THEN z.state ELSE Recurrence(z, h[S \ {Max(S)}], Max(S))]

LEMMA PassIs ==
  ASSUME NEW z, NEW S
  PROVE  Pass(z, S) = (CHOOSE h : IsPass(h, z, SUBSET S))[S]
BY Zenon DEF Pass, MapThenFoldSet, IsPass

LEMMA StateAfterIs ==
  ASSUME NEW z, NEW n PROVE StateAfter(z, n) = Pass(z, Unmasked(z, n))
BY Zenon DEF StateAfter, Pass

(* A set of tokens has a last one, and the others are before it.           *)
LEMMA LastToken ==
  ASSUME NEW n \in Nat, NEW S \in SUBSET (1..n), S # {}
  PROVE  Max(S) \in S /\ S \ {Max(S)} \in SUBSET (1..(Max(S) - 1))
<1> DEFINE Good == {m \in Nat : \A U \in SUBSET (1..m) : U # {} => \E a \in U : \A c \in U : a >= c}
<1>1. 0 \in Good
  <2>1. \A U \in SUBSET (1..0) : U = {}
    OBVIOUS
  <2> QED
    BY <2>1
<1>2. ASSUME NEW m \in Good PROVE m + 1 \in Good
  <2> SUFFICES ASSUME NEW U \in SUBSET (1..(m + 1)), U # {} PROVE \E a \in U : \A c \in U : a >= c
    OBVIOUS
  <2>1. CASE m + 1 \in U
    BY <2>1
  <2>2. CASE m + 1 \notin U
    <3>1. U \in SUBSET (1..m)
      BY <2>2
    <3> QED
      BY <3>1
  <2> QED
    BY <2>1, <2>2
<1>3. Good = Nat
  <2> HIDE DEF Good
  <2>1. Good \in SUBSET Nat
    BY DEF Good
  <2> QED
    BY <1>1, <1>2, <2>1, Induction
<1>4. \E a \in S : \A c \in S : a >= c
  BY <1>3
<1>5. Max(S) \in S /\ \A c \in S : Max(S) >= c
  BY <1>4, Zenon DEF Max
<1> DEFINE a == Max(S)
<1> HIDE DEF a
<1>6. a \in S /\ \A c \in S : a >= c
  BY <1>5 DEF a
<1>7. S \ {a} \in SUBSET (1..(a - 1))
  BY <1>6
<1> QED
  BY <1>6, <1>7 DEF a

(* The recursive function in the definition of a pass exists,              *)
LEMMA PassExists ==
  ASSUME NEW z, NEW n \in Nat, NEW S \in SUBSET (1..n)
  PROVE  \E h : IsPass(h, z, SUBSET S)
<1> DEFINE Upto(m) == {U \in SUBSET S : U \subseteq 1..m}
           Good == {m \in Nat : \E h : IsPass(h, z, Upto(m))}
<1>1. 0 \in Good
  <2> DEFINE h == [U \in Upto(0) |-> z.state]
  <2>1. \A U \in Upto(0) : U = {}
    OBVIOUS
  <2>2. IsPass(h, z, Upto(0))
    BY <2>1 DEF IsPass
  <2> QED
    BY <2>2
<1>2. ASSUME NEW m \in Good PROVE m + 1 \in Good
  <2>1. PICK h : IsPass(h, z, Upto(m))
    OBVIOUS
  <2> DEFINE h2 == [U \in Upto(m + 1) |-> IF U = {} THEN z.state ELSE Recurrence(z, h[U \ {Max(U)}], Max(U))]
  <2>2. \A U \in Upto(m) : h[U] = h2[U]
    <3>1. \A U \in Upto(m) : U \in Upto(m + 1)
      OBVIOUS
    <3>2. \A U \in Upto(m) : h[U] = IF U = {} THEN z.state ELSE Recurrence(z, h[U \ {Max(U)}], Max(U))
      BY <2>1 DEF IsPass
    <3> QED
      BY <3>1, <3>2
  <2>3. \A U \in Upto(m + 1) : U # {} => U \ {Max(U)} \in Upto(m)
    <3> SUFFICES ASSUME NEW U \in Upto(m + 1), U # {} PROVE U \ {Max(U)} \in Upto(m)
      OBVIOUS
    <3>1. U \in SUBSET (1..(m + 1)) /\ m + 1 \in Nat
      OBVIOUS
    <3>2. Max(U) \in U /\ U \ {Max(U)} \in SUBSET (1..(Max(U) - 1))
      BY <3>1, LastToken
    <3> DEFINE a == Max(U)
    <3> HIDE DEF a
    <3>3. a \in U /\ U \ {a} \in SUBSET (1..(a - 1))
      BY <3>2 DEF a
    <3>4. U \ {a} \in Upto(m)
      BY <3>1, <3>3
    <3> QED
      BY <3>4 DEF a
  <2>4. IsPass(h2, z, Upto(m + 1))
    <3>1. \A U \in Upto(m + 1) :
            (IF U = {} THEN z.state ELSE Recurrence(z, h[U \ {Max(U)}], Max(U)))
              = (IF U = {} THEN z.state ELSE Recurrence(z, h2[U \ {Max(U)}], Max(U)))
      <4> HIDE DEF h2, Upto
      <4> QED
        BY <2>2, <2>3
    <3> HIDE DEF Upto
    <3> QED
      BY <3>1 DEF IsPass
  <2> HIDE DEF h2
  <2>5. \E e : IsPass(e, z, Upto(m + 1))
    BY <2>4, Zenon
  <2>6. m + 1 \in Nat
    OBVIOUS
  <2> HIDE DEF Upto
  <2> QED
    BY <2>5, <2>6, Zenon
<1>3. Good = Nat
  <2> HIDE DEF Good
  <2>1. Good \in SUBSET Nat
    BY DEF Good
  <2> QED
    BY <1>1, <1>2, <2>1, Induction
<1>4. n \in Good /\ Upto(n) = SUBSET S
  BY <1>3
<1> QED
  BY <1>4

(* and two that satisfy its equation agree wherever both are defined.      *)
Common(S, R, n) == {W \in SUBSET (1..n) : W \subseteq S /\ W \subseteq R}

LEMMA PassUnique ==
  ASSUME NEW z, NEW n \in Nat, NEW S, NEW R, NEW h1, NEW h2, NEW W,
         IsPass(h1, z, SUBSET S), IsPass(h2, z, SUBSET R),
         W \in Common(S, R, n)
  PROVE  h1[W] = h2[W]
<1>0. W \subseteq S /\ W \subseteq R /\ W \subseteq 1..n
  BY DEF Common
<1> DEFINE Good == {m \in Nat : \A U \in SUBSET W : U \subseteq 1..m => h1[U] = h2[U]}
<1>1. \A U \in SUBSET W :
        /\ h1[U] = IF U = {} THEN z.state ELSE Recurrence(z, h1[U \ {Max(U)}], Max(U))
        /\ h2[U] = IF U = {} THEN z.state ELSE Recurrence(z, h2[U \ {Max(U)}], Max(U))
  BY <1>0 DEF IsPass
<1>2. 0 \in Good
  <2>1. \A U \in SUBSET W : U \subseteq 1..0 => U = {}
    OBVIOUS
  <2> QED
    BY <1>1, <2>1
<1>3. ASSUME NEW m \in Good PROVE m + 1 \in Good
  <2>1. ASSUME NEW U \in SUBSET W, U \subseteq 1..(m + 1), U # {} PROVE h1[U] = h2[U]
    <3>1. m + 1 \in Nat /\ U \in SUBSET (1..(m + 1))
      BY <2>1
    <3>2. Max(U) \in U /\ U \ {Max(U)} \in SUBSET (1..(Max(U) - 1))
      BY <2>1, <3>1, LastToken
    <3> DEFINE a == Max(U)
    <3> HIDE DEF a
    <3>3. a \in U /\ U \ {a} \in SUBSET (1..(a - 1))
      BY <3>2 DEF a
    <3>4. U \ {a} \in SUBSET W /\ U \ {a} \subseteq 1..m
      BY <3>1, <3>3
    <3>5. h1[U \ {a}] = h2[U \ {a}]
      BY <3>4
    <3> QED
      BY <1>1, <2>1, <3>5 DEF a
  <2>2. \A U \in SUBSET W : U \subseteq 1..(m + 1) => h1[U] = h2[U]
    BY <1>1, <2>1
  <2>3. m + 1 \in Nat
    OBVIOUS
  <2> QED
    BY <2>2, <2>3
<1>4. Good = Nat
  <2> HIDE DEF Good
  <2>1. Good \in SUBSET Nat
    BY DEF Good
  <2> QED
    BY <1>2, <1>3, <2>1, Induction
<1> QED
  BY <1>0, <1>4

(* The equation of a pass.                                                 *)
LEMMA PassEquation ==
  ASSUME NEW z, NEW n \in Nat, NEW S \in SUBSET (1..n)
  PROVE  Pass(z, S) = IF S = {} THEN z.state ELSE Recurrence(z, Pass(z, S \ {Max(S)}), Max(S))
<1>1. PICK h : IsPass(h, z, SUBSET S) /\ Pass(z, S) = h[S]
  BY PassExists, PassIs
<1>2. h[S] = IF S = {} THEN z.state ELSE Recurrence(z, h[S \ {Max(S)}], Max(S))
  BY <1>1 DEF IsPass
<1>3. ASSUME NEW R, R = S \ {Max(S)} PROVE h[R] = Pass(z, R)
  <2>1. R \in SUBSET (1..n)
    BY <1>3
  <2>2. PICK e : IsPass(e, z, SUBSET R) /\ Pass(z, R) = e[R]
    BY <2>1, PassExists, PassIs
  <2>3. R \in Common(S, R, n)
    BY <1>3 DEF Common
  <2>4. IsPass(h, z, SUBSET S)
    BY <1>1
  <2>5. IsPass(e, z, SUBSET R)
    BY <2>2
  <2>6. h[R] = e[R]
    BY <2>3, <2>4, <2>5, PassUnique
  <2> QED
    BY <2>2, <2>6
<1> QED
  BY <1>1, <1>2, <1>3

(* A token more: the recurrence takes it in unless it is masked.           *)
LEMMA TokenMore ==
  ASSUME NEW z, NEW n \in Nat \ {0}, z.mask[n] \in BOOLEAN
  PROVE  StateAfter(z, n) = IF z.mask[n] THEN Recurrence(z, StateAfter(z, n - 1), n)
                                         ELSE StateAfter(z, n - 1)
<1> DEFINE S == Unmasked(z, n)
           R == Unmasked(z, n - 1)
<1>1. S \in SUBSET (1..n) /\ R \in SUBSET (1..(n - 1)) /\ n \in Nat
  BY DEF Unmasked
<1>2. CASE z.mask[n]
  <2>1. n \in S /\ R = S \ {n}
    BY <1>2 DEF Unmasked
  <2>2. Max(S) \in S /\ S \ {Max(S)} \in SUBSET (1..(Max(S) - 1))
    BY <1>1, <2>1, LastToken
  <2> DEFINE a == Max(S)
  <2> HIDE DEF a, S
  <2>3. a \in S /\ S \ {a} \in SUBSET (1..(a - 1))
    BY <2>2 DEF a
  <2>4. a = n
    BY <1>1, <2>1, <2>3
  <2>5. Pass(z, S) = Recurrence(z, Pass(z, S \ {Max(S)}), Max(S))
    BY <1>1, <2>1, PassEquation
  <2>6. Pass(z, S) = Recurrence(z, Pass(z, R), n)
    BY <2>1, <2>4, <2>5 DEF a
  <2> QED
    BY <1>2, <2>6, StateAfterIs DEF S
<1>3. CASE ~z.mask[n]
  <2>1. S = R
    BY <1>3 DEF Unmasked
  <2> QED
    BY <1>3, <2>1, StateAfterIs
<1> QED
  BY <1>2, <1>3

LEMMA NoToken == ASSUME NEW z PROVE StateAfter(z, 0) = z.state
<1>1. Unmasked(z, 0) = {} /\ Unmasked(z, 0) \in SUBSET (1..0)
  BY DEF Unmasked
<1>2. Pass(z, {}) = z.state
  BY <1>1, PassEquation
<1> QED
  BY <1>1, <1>2, StateAfterIs

----------------------------------------------------------------------------
(* One turn.                                                               *)

LEMMA Element ==
  ASSUME NEW z \in Tensors, NEW S \in States, NEW n \in Tokens,
         NEW h \in Heads, NEW w \in Rows, NEW c \in Cols
  PROVE  /\ S[h][w][c] \in Int /\ z.k[n][h \div r][c] \in Int /\ z.q[n][h \div r][c] \in Int
         /\ z.g[n][h] \in Int /\ z.beta[n][h] \in Int /\ z.v[n][h][w] \in Int
         /\ z.mask[n] \in BOOLEAN
<1>1. h \div r \in KHeads
  BY KeyHeadIs
<1>2. S[h][w][c] \in Int
  BY DEF States
<1>3. z.k[n][h \div r][c] \in Int /\ z.q[n][h \div r][c] \in Int
  BY <1>1 DEF Tensors
<1>4. z.g[n][h] \in Int /\ z.beta[n][h] \in Int /\ z.v[n][h][w] \in Int /\ z.mask[n] \in BOOLEAN
  BY DEF Tensors
<1> QED
  BY <1>2, <1>3, <1>4

LEMMA ColsFinite == IsFiniteSet(Cols) /\ \A n \in Nat : IsFiniteSet(1..n)
<1>1. Dk \in Nat
  BY DimensionAssumption
<1>2. \A n \in Nat : IsFiniteSet(1..n)
  BY FS_Interval
<1> QED
  BY <1>1, <1>2 DEF Cols

(* The two updates of the state multiplied out, for one element.           *)
LEMMA MultipliedOut ==
  ASSUME NEW G \in Int, NEW B \in Int, NEW V \in Int, NEW Q \in Int, NEW S \in Int, NEW K \in Int
  PROVE  G * S + (B * (V - G * Q)) * K = G * (S - B * K * Q) + B * V * K
<1>1. (B * (V - G * Q)) * K = B * V * K - B * (G * Q) * K
  <2>1. B * (V - G * Q) = B * V - B * (G * Q)
    OBVIOUS
  <2>2. \A a, e \in Int : (a - e) * K = a * K - e * K
    OBVIOUS
  <2>3. B * V \in Int /\ B * (G * Q) \in Int
    OBVIOUS
  <2> QED
    BY <2>1, <2>2, <2>3
<1>2. G * (S - B * K * Q) = G * S - G * (B * K * Q)
  OBVIOUS
<1>3. B * (G * Q) * K = G * (B * K * Q)
  OBVIOUS
<1> QED
  BY <1>1, <1>2, <1>3

\* One turn of _forward at a token that is not masked.
Turn(z, S, n) ==
  LET kr      == Repeat(z.k[n])
      decayed == Scaled(z.g[n], S)
  IN  Plus(decayed, Outer(Times(z.beta[n], Minus(z.v[n], Apply(decayed, kr))), kr))

\* The terms of what the decayed state retrieves for a row.
Retrieval(z, S, n, h, w) == [j \in Cols |-> (z.g[n][h] * S[h][w][j]) * z.k[n][h \div r][j]]

LEMMA TurnElement ==
  ASSUME NEW z \in Tensors, NEW S \in States, NEW n \in Tokens,
         NEW h \in Heads, NEW w \in Rows, NEW c \in Cols
  PROVE  Turn(z, S, n)[h][w][c] =
           z.g[n][h] * S[h][w][c]
             + (z.beta[n][h] * (z.v[n][h][w] - SumFunction(Retrieval(z, S, n, h, w)))) * z.k[n][h \div r][c]
<1>1. Apply(Scaled(z.g[n], S), Repeat(z.k[n]))[h][w] = SumFunction(Retrieval(z, S, n, h, w))
  <2>1. [j \in Cols |-> Scaled(z.g[n], S)[h][w][j] * Repeat(z.k[n])[h][j]] = Retrieval(z, S, n, h, w)
    BY DEF Scaled, Repeat, Retrieval
  <2> QED
    BY <2>1 DEF Apply
<1> QED
  BY <1>1 DEF Turn, Plus, Outer, Times, Minus, Scaled, Repeat

(* A turn is the recurrence.                                               *)
LEMMA TurnIsRecurrence ==
  ASSUME NEW z \in Tensors, NEW S \in States, NEW n \in Tokens
  PROVE  Turn(z, S, n) = Recurrence(z, S, n) /\ Recurrence(z, S, n) \in States
<1> DEFINE f(h, w) == [j \in Cols |-> S[h][w][j] * z.k[n][h \div r][j]]
           e(h, w) == Retrieval(z, S, n, h, w)
<1>1. ASSUME NEW h \in Heads, NEW w \in Rows
      PROVE  SumFunction(f(h, w)) \in Int /\ SumFunction(e(h, w)) = z.g[n][h] * SumFunction(f(h, w))
  <2>0. Cols # {} /\ z.g[n][h] \in Int
    <3>1. 1 \in Cols
      BY DimensionAssumption DEF Cols
    <3> QED
      BY <3>1, Element
  <2>1. \A j \in Cols : f(h, w)[j] \in Int /\ e(h, w)[j] = z.g[n][h] * f(h, w)[j]
    <3> SUFFICES ASSUME NEW j \in Cols
                 PROVE  f(h, w)[j] \in Int /\ e(h, w)[j] = z.g[n][h] * f(h, w)[j]
      OBVIOUS
    <3>1. S[h][w][j] \in Int /\ z.k[n][h \div r][j] \in Int /\ z.g[n][h] \in Int
      BY Element
    <3>2. \A A, B, C \in Int : (A * B) * C = A * (B * C) /\ B * C \in Int
      OBVIOUS
    <3> QED
      BY <3>1, <3>2 DEF Retrieval
  <2>2. SumFunction(f(h, w)) = Sum(f(h, w), Cols) /\ SumFunction(e(h, w)) = Sum(e(h, w), Cols)
    BY SumFunctionIs DEF Retrieval
  <2> HIDE DEF e, f
  <2>3. Sum(e(h, w), Cols) = z.g[n][h] * Sum(f(h, w), Cols)
    BY <2>0, <2>1, ColsFinite, SumScaled
  <2>4. Sum(f(h, w), Cols) \in Int
    BY <2>1, ColsFinite, SumType
  <2> QED
    BY <2>2, <2>3, <2>4
<1>2. ASSUME NEW h \in Heads, NEW w \in Rows, NEW c \in Cols
      PROVE  Recurrence(z, S, n)[h][w][c] =
               z.g[n][h] * (S[h][w][c] - z.beta[n][h] * z.k[n][h \div r][c] * SumFunction(f(h, w)))
                 + z.beta[n][h] * z.v[n][h][w] * z.k[n][h \div r][c]
  BY KeyHeadIs DEF Recurrence
<1>3. ASSUME NEW h \in Heads, NEW w \in Rows, NEW c \in Cols
      PROVE  Turn(z, S, n)[h][w][c] =
               z.g[n][h] * S[h][w][c]
                 + (z.beta[n][h] * (z.v[n][h][w] - SumFunction(e(h, w)))) * z.k[n][h \div r][c]
  BY TurnElement
<1>4. ASSUME NEW h \in Heads, NEW w \in Rows, NEW c \in Cols
      PROVE  /\ Turn(z, S, n)[h][w][c] = Recurrence(z, S, n)[h][w][c]
             /\ Recurrence(z, S, n)[h][w][c] \in Int
  <2> DEFINE Q == SumFunction(f(h, w))
             G == z.g[n][h]
             A == S[h][w][c]
             B == z.beta[n][h]
             V == z.v[n][h][w]
             K == z.k[n][h \div r][c]
  <2>1. Q \in Int /\ G \in Int /\ A \in Int /\ B \in Int /\ V \in Int /\ K \in Int
    BY <1>1, Element
  <2>2. Recurrence(z, S, n)[h][w][c] = G * (A - B * K * Q) + B * V * K
    BY <1>2
  <2>3. Turn(z, S, n)[h][w][c] = G * A + (B * (V - G * Q)) * K
    BY <1>1, <1>3
  <2> HIDE DEF Q, G, A, B, V, K
  <2>4. G * (A - B * K * Q) + B * V * K \in Int
    BY <2>1
  <2> QED
    BY <2>1, <2>2, <2>3, <2>4, MultipliedOut
<1>5. Turn(z, S, n) = [h \in Heads |-> [w \in Rows |-> [c \in Cols |-> Turn(z, S, n)[h][w][c]]]]
  BY DEF Turn, Plus
<1>6. Recurrence(z, S, n) = [h \in Heads |-> [w \in Rows |-> [c \in Cols |-> Recurrence(z, S, n)[h][w][c]]]]
  BY DEF Recurrence
<1> DEFINE X == Turn(z, S, n)
           Y == Recurrence(z, S, n)
<1> HIDE DEF X, Y
<1>7. /\ X = [h \in Heads |-> [w \in Rows |-> [c \in Cols |-> X[h][w][c]]]]
      /\ Y = [h \in Heads |-> [w \in Rows |-> [c \in Cols |-> Y[h][w][c]]]]
      /\ \A h \in Heads, w \in Rows, c \in Cols : X[h][w][c] = Y[h][w][c] /\ Y[h][w][c] \in Int
  BY <1>4, <1>5, <1>6 DEF X, Y
<1>8. X = Y
  BY <1>7
<1>9. Y \in [Heads -> [Rows -> [Cols -> Int]]]
  BY <1>7
<1> QED
  BY <1>8, <1>9 DEF X, Y, States

(* and the row it returns is the one the state yields.                     *)
LEMMA RowIsReading ==
  ASSUME NEW z, NEW S, NEW n
  PROVE  Apply(S, Repeat(z.q[n])) = Reading(z, S, n)
<1>1. \A h \in Heads : Repeat(z.q[n])[h] = z.q[n][KeyHead(h)]
  BY KeyHeadIs DEF Repeat
<1> DEFINE A == Repeat(z.q[n])
<1> HIDE DEF A
<1>2. Apply(S, A) = [h \in Heads |-> [w \in Rows |-> SumFunction([c \in Cols |-> S[h][w][c] * z.q[n][KeyHead(h)][c]])]]
  BY <1>1 DEF Apply, A
<1> QED
  BY <1>2 DEF Reading, A

(* Every state along the way is one.                                       *)
LEMMA StateAfterType ==
  ASSUME NEW z \in Tensors, NEW n \in 0..T
  PROVE  StateAfter(z, n) \in States
<1> DEFINE Good == {m \in Nat : m <= T => StateAfter(z, m) \in States}
<1>1. 0 \in Good
  <2>1. z.state \in States
    BY DEF Tensors
  <2> QED
    BY <2>1, NoToken
<1>2. ASSUME NEW m \in Good PROVE m + 1 \in Good
  <2> SUFFICES ASSUME m + 1 <= T PROVE StateAfter(z, m + 1) \in States
    OBVIOUS
  <2>1. m + 1 \in Nat \ {0} /\ m + 1 \in Tokens /\ (m + 1) - 1 = m
    BY DimensionAssumption DEF Tokens
  <2>2. StateAfter(z, m) \in States
    BY DimensionAssumption
  <2>3. z.mask[m + 1] \in BOOLEAN
    BY <2>1 DEF Tensors
  <2>4. Recurrence(z, StateAfter(z, m), m + 1) \in States
    BY <2>1, <2>2, TurnIsRecurrence
  <2> QED
    BY <2>1, <2>2, <2>3, <2>4, TokenMore
<1>3. Good = Nat
  <2> HIDE DEF Good
  <2>1. Good \in SUBSET Nat
    BY DEF Good
  <2> QED
    BY <1>1, <1>2, <2>1, Induction
<1> QED
  BY <1>3, DimensionAssumption

----------------------------------------------------------------------------
(* The calls of the oracles.                                               *)

Calls == [lo : Tokens, hi : Tokens, state : States]

OracleType == /\ args \in Inputs
              /\ phase \in {"idle", "forward", "backward", "done"}
              /\ pieces \in Seq(Calls)
              /\ at \in 0..Len(pieces)
              /\ t \in Int
              /\ ys = [n \in Tokens |-> ys[n]]

\* What the calls so far were given.
CallsRight == \A i \in 1..Len(pieces) :
                /\ pieces[i].lo <= pieces[i].hi
                /\ pieces[i].state = StateAfter(args, pieces[i].lo - 1)

\* Where the current call is, and which call there is to make next.
AtToken == /\ phase = "forward" => /\ Len(pieces) > 0
                                   /\ t \in Piece.lo .. Piece.hi + 1
                                   /\ running = StateAfter(args, t - 1)
           /\ phase = "idle" /\ ~Recording => running = StateAfter(args, Processed)
           /\ phase = "idle" /\ Recording => at >= 2
           /\ phase = "backward" => Recording

RowsRight == \A n \in 1 .. (IF phase = "forward" /\ ~Recording THEN t - 1 ELSE Processed) :
               ys[n] = IF args.mask[n] THEN Readout(args, n) ELSE NoRow

OracleInv == OracleType /\ CallsRight /\ AtToken /\ RowsRight /\ AttendsToPast

LEMMA Appended ==
  ASSUME NEW X, NEW L \in Seq(X), NEW e \in X
  PROVE  /\ Append(L, e) \in Seq(X) /\ Len(Append(L, e)) = Len(L) + 1 /\ Len(L) \in Nat
         /\ \A i \in 1..Len(L) : Append(L, e)[i] = L[i]
         /\ Append(L, e)[Len(L) + 1] = e
OBVIOUS

LEMMA ProcessedIs ==
  ASSUME OracleType
  PROVE  /\ Processed = (IF Len(pieces) = 0 THEN 0 ELSE pieces[Len(pieces)].hi)
         /\ Len(pieces) \in Nat /\ Processed \in 0..T
         /\ \A i \in 1..Len(pieces) : pieces[i] \in Calls /\ pieces[i].lo \in Tokens /\ pieces[i].hi \in Tokens
         /\ args \in Tensors /\ \A n \in Tokens : args.mask[n] \in BOOLEAN
         /\ Tokens = 1..T /\ T \in Nat \ {0} /\ at \in Nat
<1>0. Tokens = 1..T /\ T \in Nat \ {0}
  BY DimensionAssumption DEF Tokens
<1>1. Len(pieces) \in Nat /\ (pieces = <<>> <=> Len(pieces) = 0) /\ at \in Nat
  BY DEF OracleType
<1>2. \A i \in 1..Len(pieces) : pieces[i] \in Calls
  BY DEF OracleType
<1>3. \A e \in Calls : e.lo \in Tokens /\ e.hi \in Tokens
  BY DEF Calls
<1>4. args \in Tensors
  BY InputAssumption DEF OracleType
<1>5. \A n \in Tokens : args.mask[n] \in BOOLEAN
  BY <1>4 DEF Tensors
<1>6. Processed = (IF Len(pieces) = 0 THEN 0 ELSE pieces[Len(pieces)].hi)
  BY <1>1 DEF Processed, Last
<1>7. Processed \in 0..T
  BY <1>0, <1>1, <1>2, <1>3, <1>6
<1> QED
  BY <1>0, <1>1, <1>2, <1>3, <1>4, <1>5, <1>6, <1>7

(* The first state: nothing has been processed.                            *)
LEMMA OracleBegins == ASSUME OracleInit PROVE OracleInv
<1>1. /\ pieces = <<>> /\ at = 0 /\ phase = "idle" /\ t = 0 /\ running = args.state
      /\ args \in Inputs /\ ys = [n \in Tokens |-> NoRow]
  BY DEF OracleInit
<1>2. Len(pieces) = 0 /\ pieces \in Seq(Calls) /\ ~Recording
  BY <1>1 DEF Recording
<1>3. OracleType
  BY <1>1, <1>2 DEF OracleType
<1>4. Processed = 0
  BY <1>2, <1>3, ProcessedIs
<1>5. running = StateAfter(args, 0)
  BY <1>1, NoToken
<1>6. CallsRight
  BY <1>2 DEF CallsRight
<1>7. AtToken
  BY <1>1, <1>2, <1>4, <1>5 DEF AtToken
<1>8. RowsRight
  BY <1>1, <1>4 DEF RowsRight
<1>9. AttendsToPast
  BY <1>4 DEF AttendsToPast
<1> QED
  BY <1>3, <1>6, <1>7, <1>8, <1>9 DEF OracleInv

\* The keys causal_gqa lets query n of the piece lo..hi attend to.
KeysSeen(lo, hi, n, head) ==
  {<<j + 1, head>> : j \in {i \in 0..(hi - 1) : Sees(i, n - lo, hi - lo + 1, hi)}}

(* The keys a query of a new piece sees are those of the tokens up to it,  *)
(* whatever is cached.                                                     *)
LEMMA SeesPast ==
  ASSUME NEW lo \in Nat \ {0}, NEW hi \in Nat, NEW n \in lo..hi, NEW head
  PROVE  KeysSeen(lo, hi, n, head) = (1..n) \X {head}
<1>1. {i \in 0..(hi - 1) : Sees(i, n - lo, hi - lo + 1, hi)} = 0..(n - 1)
  BY DEF Sees
<1>2. \A m \in 1..n : m - 1 \in 0..(n - 1) /\ m = (m - 1) + 1
  OBVIOUS
<1>3. \A j \in 0..(n - 1) : j + 1 \in 1..n
  OBVIOUS
<1>4. {<<j + 1, head>> : j \in 0..(n - 1)} = (1..n) \X {head}
  BY <1>2, <1>3
<1> QED
  BY <1>1, <1>4 DEF KeysSeen

LEMMA AttendStep ==
  ASSUME OracleInv, NEW hi \in Tokens, Attend(hi)
  PROVE  OracleInv'
<1> DEFINE lo == Processed + 1
           call == [lo |-> lo, hi |-> hi, state |-> running]
<1>0. OracleType /\ CallsRight /\ AtToken /\ RowsRight /\ AttendsToPast
  BY DEF OracleInv
<1>1. /\ phase = "idle" /\ ~Recording /\ hi \in lo..T
      /\ pieces' = Append(pieces, call) /\ t' = lo /\ phase' = "forward"
      /\ args' = args /\ at' = at /\ running' = running /\ ys' = ys
  BY DEF Attend
<1>2. /\ Processed = (IF Len(pieces) = 0 THEN 0 ELSE pieces[Len(pieces)].hi)
      /\ Len(pieces) \in Nat /\ Processed \in 0..T /\ Tokens = 1..T /\ T \in Nat \ {0} /\ at \in Nat
  BY <1>0, ProcessedIs
<1>3. running = StateAfter(args, Processed) /\ at = 0
  BY <1>0, <1>1, <1>2 DEF AtToken, Recording
<1>4. lo \in Tokens /\ lo <= hi /\ lo - 1 = Processed
  BY <1>1, <1>2
<1>5. call \in Calls
  <2>1. args \in Tensors
    BY <1>0, ProcessedIs
  <2>2. running \in States
    BY <1>2, <1>3, <2>1, StateAfterType
  <2> QED
    BY <1>4, <2>2 DEF Calls
<1>6. call.lo = lo /\ call.hi = hi /\ call.state = running
  OBVIOUS
<1> HIDE DEF call, lo
<1>7. /\ pieces' \in Seq(Calls) /\ Len(pieces') = Len(pieces) + 1
      /\ \A i \in 1..Len(pieces) : pieces'[i] = pieces[i]
      /\ pieces'[Len(pieces')] = call
  <2>1. pieces \in Seq(Calls)
    BY <1>0 DEF OracleType
  <2> QED
    BY <1>1, <1>5, <2>1, Appended
<1>8. OracleType'
  BY <1>0, <1>1, <1>2, <1>3, <1>4, <1>7 DEF OracleType
<1>9. CallsRight'
  <2> SUFFICES ASSUME NEW i \in 1..Len(pieces')
               PROVE  pieces'[i].lo <= pieces'[i].hi /\ pieces'[i].state = StateAfter(args, pieces'[i].lo - 1)
    BY <1>1 DEF CallsRight
  <2>1. CASE i = Len(pieces')
    BY <1>3, <1>4, <1>6, <1>7, <2>1
  <2>2. CASE i # Len(pieces')
    <3>1. i \in 1..Len(pieces)
      BY <1>2, <1>7, <2>2
    <3> QED
      BY <1>0, <1>7, <3>1 DEF CallsRight
  <2> QED
    BY <2>1, <2>2
<1>10. ~Recording' /\ Piece' = call /\ Processed' = hi
  <2>1. ~Recording'
    BY <1>1, <1>3 DEF Recording
  <2>2. Piece' = pieces'[Len(pieces')]
    BY <2>1 DEF Piece
  <2>3. Processed' = hi
    <3>1. pieces' # <<>>
      BY <1>2, <1>7
    <3> QED
      BY <1>6, <1>7, <3>1 DEF Processed, Last
  <2> QED
    BY <1>7, <2>1, <2>2, <2>3
<1>11. AtToken'
  <2>1. Len(pieces') > 0
    BY <1>2, <1>7
  <2>2. t' \in Piece'.lo .. Piece'.hi + 1
    BY <1>1, <1>2, <1>4, <1>6, <1>10
  <2>3. running' = StateAfter(args', t' - 1)
    BY <1>1, <1>3, <1>4
  <2> QED
    BY <1>1, <2>1, <2>2, <2>3 DEF AtToken
<1>12. RowsRight'
  <2>1. \A n \in 1..Processed : ys[n] = IF args.mask[n] THEN Readout(args, n) ELSE NoRow
    BY <1>0, <1>1 DEF RowsRight
  <2>2. \A n \in 1..(t' - 1) : ys'[n] = IF args'.mask[n] THEN Readout(args', n) ELSE NoRow
    BY <1>1, <1>4, <2>1
  <2> QED
    BY <1>1, <1>10, <2>2 DEF RowsRight
<1>13. AttendsToPast'
  <2> SUFFICES ASSUME NEW n \in 1..hi, NEW h \in Heads
               PROVE  attended'[n][h] = (1..n) \X {KeyHead(h)}
    BY <1>10 DEF AttendsToPast
  <2>0. n \in Tokens
    BY <1>1, <1>2
  <2>1. CASE n \in lo..hi
    <3>1. attended'[n][h] = KeysSeen(lo, hi, n, h \div r)
      BY <2>0, <2>1 DEF Attend, lo, KeysSeen
    <3>2. lo \in Nat \ {0} /\ hi \in Nat
      BY <1>2, <1>4
    <3>3. attended'[n][h] = (1..n) \X {h \div r}
      BY <2>1, <3>1, <3>2, SeesPast
    <3> QED
      BY <3>3, KeyHeadIs
  <2>2. CASE n \notin lo..hi
    <3>1. attended'[n] = attended[n]
      BY <2>0, <2>2 DEF Attend, lo
    <3>2. n \in 1..Processed
      BY <1>2, <1>4, <2>2
    <3> QED
      BY <1>0, <3>1, <3>2 DEF AttendsToPast
  <2> QED
    BY <2>1, <2>2
<1> QED
  BY <1>8, <1>9, <1>11, <1>12, <1>13 DEF OracleInv

(* A turn of _forward, in a call of the caller's or of gdn_vjp's.          *)
LEMMA ForwardStepKeeps ==
  ASSUME OracleInv, ForwardStep
  PROVE  OracleInv'
<1>0. OracleType /\ CallsRight /\ AtToken /\ RowsRight /\ AttendsToPast
  BY DEF OracleInv
<1>1. /\ phase = "forward" /\ t <= Piece.hi
      /\ t' = t + 1 /\ args' = args /\ pieces' = pieces /\ at' = at
      /\ phase' = phase /\ attended' = attended
  BY DEF ForwardStep
<1>2. /\ Processed = (IF Len(pieces) = 0 THEN 0 ELSE pieces[Len(pieces)].hi)
      /\ Len(pieces) \in Nat /\ Processed \in 0..T /\ Tokens = 1..T /\ T \in Nat \ {0} /\ at \in Nat
      /\ \A i \in 1..Len(pieces) : pieces[i].lo \in Tokens /\ pieces[i].hi \in Tokens
      /\ args \in Tensors /\ \A n \in Tokens : args.mask[n] \in BOOLEAN
  BY <1>0, ProcessedIs
<1>3. Len(pieces) > 0 /\ t \in Piece.lo .. Piece.hi + 1 /\ running = StateAfter(args, t - 1)
  BY <1>0, <1>1 DEF AtToken
<1>4. PICK i \in 1..Len(pieces) : Piece = pieces[i] /\ (~Recording => i = Len(pieces))
  <2>1. at \in 0..Len(pieces)
    BY <1>0 DEF OracleType
  <2> QED
    BY <1>2, <1>3, <2>1 DEF Piece, Recording
<1>5. t \in Tokens /\ Piece.lo \in Tokens /\ Piece.hi \in Tokens
  BY <1>1, <1>2, <1>3, <1>4
<1>6. running \in States
  <2>1. t - 1 \in 0..T
    BY <1>2, <1>5
  <2> QED
    BY <1>2, <1>3, <2>1, StateAfterType
<1>7. Turn(args, running, t) = Recurrence(args, running, t)
  BY <1>2, <1>5, <1>6, TurnIsRecurrence
<1>8. StateAfter(args, t) = IF args.mask[t] THEN Recurrence(args, running, t) ELSE running
  BY <1>2, <1>3, <1>5, TokenMore
<1>9. /\ running' = IF args.mask[t] THEN Turn(args, running, t) ELSE running
      /\ ys' = [ys EXCEPT ![t] = IF args.mask[t] THEN Apply(Turn(args, running, t), Repeat(args.q[t]))
                                                ELSE NoRow]
  BY DEF ForwardStep, NextState, Turn
<1>10. running' = StateAfter(args, t)
  BY <1>7, <1>8, <1>9
<1>11. args.mask[t] => Apply(Turn(args, running, t), Repeat(args.q[t])) = Readout(args, t)
  <2> SUFFICES ASSUME args.mask[t]
               PROVE  Apply(Turn(args, running, t), Repeat(args.q[t])) = Readout(args, t)
    OBVIOUS
  <2>1. Turn(args, running, t) = StateAfter(args, t)
    BY <1>7, <1>8
  <2> QED
    BY <2>1, RowIsReading DEF Readout
<1>12. ys' = [ys EXCEPT ![t] = IF args.mask[t] THEN Readout(args, t) ELSE NoRow]
  BY <1>9, <1>11
<1>13. Recording' = Recording /\ Piece' = Piece /\ Processed' = Processed
  BY <1>1 DEF Recording, Piece, Processed, Last
<1>14. OracleType'
  <2>1. ys = [n \in Tokens |-> ys[n]] /\ t \in Int
    BY <1>0 DEF OracleType
  <2>2. ys' = [n \in Tokens |-> ys'[n]] /\ t' \in Int
    BY <1>1, <1>12, <2>1
  <2> QED
    BY <1>0, <1>1, <2>2 DEF OracleType
<1>15. CallsRight'
  BY <1>0, <1>1 DEF CallsRight
<1>16. AtToken'
  <2>1. t' \in Piece'.lo .. Piece'.hi + 1
    BY <1>1, <1>2, <1>3, <1>5, <1>13
  <2>2. running' = StateAfter(args', t' - 1)
    <3>1. t' - 1 = t
      BY <1>1, <1>2, <1>5
    <3> QED
      BY <1>1, <1>10, <3>1
  <2> QED
    BY <1>1, <1>3, <2>1, <2>2 DEF AtToken
<1>17. RowsRight'
  <2> SUFFICES ASSUME NEW n \in 1 .. (IF ~Recording THEN t ELSE Processed)
               PROVE  ys'[n] = IF args.mask[n] THEN Readout(args, n) ELSE NoRow
    <3>1. t' - 1 = t
      BY <1>1, <1>2, <1>5
    <3> QED
      BY <1>1, <1>13, <3>1 DEF RowsRight
  <2>1. n \in Tokens /\ ys = [m \in Tokens |-> ys[m]]
    BY <1>0, <1>2, <1>5 DEF OracleType
  <2>2. CASE n = t
    BY <1>12, <2>1, <2>2
  <2>3. CASE n # t
    <3>1. n \in 1 .. (IF phase = "forward" /\ ~Recording THEN t - 1 ELSE Processed)
      BY <1>1, <1>2, <1>5, <2>3
    <3>2. ys'[n] = ys[n]
      BY <1>12, <2>1, <2>3
    <3> QED
      BY <1>0, <3>1, <3>2 DEF RowsRight
  <2> QED
    BY <2>2, <2>3
<1>18. AttendsToPast'
  BY <1>0, <1>1, <1>13 DEF AttendsToPast
<1> QED
  BY <1>14, <1>15, <1>16, <1>17, <1>18 DEF OracleInv

LEMMA ReturnKeeps ==
  ASSUME OracleInv, Return
  PROVE  OracleInv'
<1>0. OracleType /\ CallsRight /\ AtToken /\ RowsRight /\ AttendsToPast
  BY DEF OracleInv
<1>1. /\ phase = "forward" /\ t > Piece.hi
      /\ \/ Recording /\ phase' = "backward" /\ t' = Piece.hi
         \/ ~Recording /\ phase' = "idle" /\ t' = t
      /\ args' = args /\ pieces' = pieces /\ at' = at /\ running' = running /\ ys' = ys
      /\ attended' = attended
  BY DEF Return
<1>2. /\ Processed = (IF Len(pieces) = 0 THEN 0 ELSE pieces[Len(pieces)].hi)
      /\ Len(pieces) \in Nat /\ Processed \in 0..T /\ Tokens = 1..T /\ T \in Nat \ {0} /\ at \in Nat
      /\ \A i \in 1..Len(pieces) : pieces[i].lo \in Tokens /\ pieces[i].hi \in Tokens
  BY <1>0, ProcessedIs
<1>3. Len(pieces) > 0 /\ t \in Piece.lo .. Piece.hi + 1 /\ running = StateAfter(args, t - 1)
  BY <1>0, <1>1 DEF AtToken
<1>4. PICK i \in 1..Len(pieces) : Piece = pieces[i] /\ (~Recording => i = Len(pieces))
  <2>1. at \in 0..Len(pieces)
    BY <1>0 DEF OracleType
  <2> QED
    BY <1>2, <1>3, <2>1 DEF Piece, Recording
<1>5. t - 1 = Piece.hi /\ Piece.hi \in Tokens /\ (~Recording => Piece.hi = Processed)
  BY <1>1, <1>2, <1>3, <1>4
<1>6. Recording' = Recording /\ Piece' = Piece /\ Processed' = Processed
  BY <1>1 DEF Recording, Piece, Processed, Last
<1>7. OracleType'
  BY <1>0, <1>1, <1>2, <1>5 DEF OracleType
<1>8. CallsRight'
  BY <1>0, <1>1 DEF CallsRight
<1>9. AtToken'
  BY <1>0, <1>1, <1>3, <1>5, <1>6 DEF AtToken
<1>10. RowsRight'
  <2>1. \A n \in 1..Processed : ys[n] = IF args.mask[n] THEN Readout(args, n) ELSE NoRow
    BY <1>0, <1>1, <1>5 DEF RowsRight
  <2> QED
    BY <1>1, <1>6, <2>1 DEF RowsRight
<1>11. AttendsToPast'
  BY <1>0, <1>1, <1>6 DEF AttendsToPast
<1> QED
  BY <1>7, <1>8, <1>9, <1>10, <1>11 DEF OracleInv

LEMMA VjpKeeps ==
  ASSUME OracleInv, Vjp
  PROVE  OracleInv'
<1>0. OracleType /\ CallsRight /\ AtToken /\ RowsRight /\ AttendsToPast
  BY DEF OracleInv
<1> DEFINE i == IF Recording THEN at - 1 ELSE Len(pieces)
<1>1. /\ phase = "idle" /\ Processed = T
      /\ at' = i /\ running' = pieces[i].state /\ t' = pieces[i].lo /\ phase' = "forward"
      /\ args' = args /\ pieces' = pieces /\ ys' = ys /\ attended' = attended
  BY DEF Vjp
<1>2. /\ Processed = (IF Len(pieces) = 0 THEN 0 ELSE pieces[Len(pieces)].hi)
      /\ Len(pieces) \in Nat /\ Tokens = 1..T /\ T \in Nat \ {0} /\ at \in Nat
      /\ \A n \in 1..Len(pieces) : pieces[n].lo \in Tokens /\ pieces[n].hi \in Tokens
  BY <1>0, ProcessedIs
<1>3. at \in 0..Len(pieces) /\ (Recording => at >= 2)
  BY <1>0, <1>1 DEF OracleType, AtToken
<1>4. i \in 1..Len(pieces)
  BY <1>1, <1>2, <1>3
<1> HIDE DEF i
<1>5. Recording' /\ Piece' = pieces[i] /\ Processed' = Processed
  <2>1. Recording'
    BY <1>1, <1>4 DEF Recording
  <2>2. Piece' = pieces[i]
    BY <1>1, <2>1 DEF Piece
  <2>3. Processed' = Processed
    BY <1>1 DEF Processed, Last
  <2> QED
    BY <2>1, <2>2, <2>3
<1>6. pieces[i].lo <= pieces[i].hi /\ pieces[i].state = StateAfter(args, pieces[i].lo - 1)
  BY <1>0, <1>4 DEF CallsRight
<1>7. pieces[i].lo \in Tokens /\ pieces[i].hi \in Tokens
  BY <1>2, <1>4
<1>8. OracleType'
  BY <1>0, <1>1, <1>2, <1>4, <1>7 DEF OracleType
<1>9. CallsRight'
  BY <1>0, <1>1 DEF CallsRight
<1>10. AtToken'
  <2>1. t' \in Piece'.lo .. Piece'.hi + 1
    BY <1>1, <1>2, <1>5, <1>6, <1>7
  <2>2. Len(pieces') > 0
    BY <1>1, <1>2, <1>4
  <2>3. running' = StateAfter(args', t' - 1)
    BY <1>1, <1>6
  <2> QED
    BY <1>1, <2>1, <2>2, <2>3 DEF AtToken
<1>11. RowsRight'
  <2>1. \A n \in 1..Processed : ys[n] = IF args.mask[n] THEN Readout(args, n) ELSE NoRow
    BY <1>0, <1>1 DEF RowsRight
  <2> QED
    BY <1>1, <1>5, <2>1 DEF RowsRight
<1>12. AttendsToPast'
  BY <1>0, <1>1, <1>5 DEF AttendsToPast
<1> QED
  BY <1>8, <1>9, <1>10, <1>11, <1>12 DEF OracleInv

(* The backward pass changes nothing that the forward pass has left.       *)
LEMMA BackwardKeeps ==
  ASSUME OracleInv, BackwardStep \/ ReturnVjp
  PROVE  OracleInv'
<1>0. OracleType /\ CallsRight /\ AtToken /\ RowsRight /\ AttendsToPast
  BY DEF OracleInv
<1>1. /\ phase = "backward" /\ t' \in {t, t - 1}
      /\ phase' = "backward" \/ (phase' = "done" /\ at = 1) \/ (phase' = "idle" /\ at # 1)
      /\ args' = args /\ pieces' = pieces /\ at' = at /\ running' = running /\ ys' = ys
      /\ attended' = attended
  BY DEF BackwardStep, ReturnVjp
<1>2. Recording /\ at \in Nat
  BY <1>0, <1>1, ProcessedIs DEF AtToken
<1>3. Recording' /\ Processed' = Processed
  BY <1>1, <1>2 DEF Recording, Processed, Last
<1>4. OracleType'
  BY <1>0, <1>1 DEF OracleType
<1>5. CallsRight'
  BY <1>0, <1>1 DEF CallsRight
<1>6. AtToken'
  BY <1>1, <1>2, <1>3 DEF AtToken, Recording
<1>7. RowsRight'
  BY <1>0, <1>1, <1>3 DEF RowsRight
<1>8. AttendsToPast'
  BY <1>0, <1>1, <1>3 DEF AttendsToPast
<1> QED
  BY <1>4, <1>5, <1>6, <1>7, <1>8 DEF OracleInv

(* In every state, every call that was made was given, and every token     *)
(* that was passed returned, what one pass over the unmasked tokens has.   *)
THEOREM OracleInvariant == OracleSpec => []OracleInv
<1>1. OracleInit => OracleInv
  BY OracleBegins
<1>2. OracleInv /\ [OracleNext]_oracleVars => OracleInv'
  <2> SUFFICES ASSUME OracleInv, [OracleNext]_oracleVars PROVE OracleInv'
    OBVIOUS
  <2>1. ASSUME NEW hi \in Tokens, Attend(hi) PROVE OracleInv'
    BY <2>1, AttendStep
  <2>2. CASE ForwardStep
    BY <2>2, ForwardStepKeeps
  <2>3. CASE Return
    BY <2>3, ReturnKeeps
  <2>4. CASE Vjp
    BY <2>4, VjpKeeps
  <2>5. CASE BackwardStep \/ ReturnVjp
    BY <2>5, BackwardKeeps
  <2>6. CASE UNCHANGED oracleVars
    BY <2>6 DEF oracleVars, OracleInv, OracleType, CallsRight, AtToken, RowsRight, AttendsToPast,
       Recording, Piece, Processed, Last
  <2> QED
    BY <2>1, <2>2, <2>3, <2>4, <2>5, <2>6 DEF OracleNext
<1> QED
  BY <1>1, <1>2, PTL DEF OracleSpec

(* Wherever a sequence is cut and whatever is masked, the pieces and the   *)
(* pass gdn_vjp records agree with one pass, for all tensors of all shapes.*)
THEOREM AnyCutAgrees == OracleSpec => []PiecesAgree
<1>1. OracleInv => PiecesAgree
  <2> SUFFICES ASSUME OracleInv PROVE PiecesAgree
    OBVIOUS
  <2>1. AtToken /\ RowsRight
    BY DEF OracleInv
  <2> QED
    BY <2>1 DEF AtToken, RowsRight, PiecesAgree
<1> QED
  BY <1>1, OracleInvariant, PTL

(* A token attends to exactly the tokens up to it, in its group's key head,*)
(* for all shapes and however much was cached.                             *)
THEOREM AttentionIsCausal == OracleSpec => []AttendsToPast
<1>1. OracleInv => AttendsToPast
  BY DEF OracleInv
<1> QED
  BY <1>1, OracleInvariant, PTL

----------------------------------------------------------------------------
(* The gradients.  A row of a head at a time, and from the last token      *)
(* backwards, a change of the state is followed through the loss.          *)

(* Rows: the product of two vectors of the width of a key.                 *)

Vectors == [Cols -> Int]
Row(a, d) == SumFunction([c \in Cols |-> a[c] * d[c]])

LEMMA RowIs == ASSUME NEW a, NEW d PROVE Row(a, d) = Sum([c \in Cols |-> a[c] * d[c]], Cols)
BY SumFunctionIs DEF Row

LEMMA RowType == ASSUME NEW a \in Vectors, NEW d \in Vectors PROVE Row(a, d) \in Int
<1> DEFINE f == [c \in Cols |-> a[c] * d[c]]
<1>1. \A c \in Cols : f[c] \in Int
  BY DEF Vectors
<1> HIDE DEF f
<1>2. Sum(f, Cols) \in Int
  BY <1>1, ColsFinite, SumType
<1> QED
  BY <1>2, RowIs DEF f

LEMMA RowCommutes == ASSUME NEW a \in Vectors, NEW d \in Vectors PROVE Row(a, d) = Row(d, a)
<1>1. [c \in Cols |-> a[c] * d[c]] = [c \in Cols |-> d[c] * a[c]]
  <2>1. \A c \in Cols : a[c] * d[c] = d[c] * a[c]
    BY DEF Vectors
  <2> QED
    BY <2>1
<1> QED
  BY <1>1 DEF Row

Combines(e, A, d, B, x) == \A c \in Cols : e[c] = A * d[c] + B * x[c]

(* A row is linear,                                                        *)
LEMMA RowCombined ==
  ASSUME NEW a \in Vectors, NEW d \in Vectors, NEW x \in Vectors, NEW e \in Vectors,
         NEW A \in Int, NEW B \in Int, Combines(e, A, d, B, x)
  PROVE  Row(a, e) = A * Row(a, d) + B * Row(a, x)
<1> DEFINE fd == [c \in Cols |-> a[c] * d[c]]
           fx == [c \in Cols |-> a[c] * x[c]]
           fe == [c \in Cols |-> a[c] * e[c]]
           gd == [c \in Cols |-> A * fd[c]]
           gx == [c \in Cols |-> B * fx[c]]
<1>1. \A c \in Cols : /\ fd[c] \in Int /\ fx[c] \in Int
                      /\ gd[c] = A * fd[c] /\ gx[c] = B * fx[c] /\ gd[c] \in Int /\ gx[c] \in Int
  BY DEF Vectors
<1>2. \A c \in Cols : fe[c] = gd[c] + gx[c]
  <2> SUFFICES ASSUME NEW c \in Cols PROVE fe[c] = gd[c] + gx[c]
    OBVIOUS
  <2>1. a[c] \in Int /\ d[c] \in Int /\ x[c] \in Int /\ e[c] = A * d[c] + B * x[c]
    BY DEF Vectors, Combines
  <2>2. \A X, Y, Z \in Int : X * (A * Y + B * Z) = A * (X * Y) + B * (X * Z)
    OBVIOUS
  <2>3. a[c] * e[c] = A * (a[c] * d[c]) + B * (a[c] * x[c])
    BY <2>1, <2>2
  <2> QED
    BY <2>3
<1> HIDE DEF fd, fx, fe, gd, gx
<1>a. \A c \in Cols : gd[c] \in Int /\ gx[c] \in Int /\ fe[c] = gd[c] + gx[c]
  BY <1>1, <1>2
<1>b. IsFiniteSet(Cols)
  BY ColsFinite
<1>3. Sum(fe, Cols) = Sum(gd, Cols) + Sum(gx, Cols)
  BY <1>a, <1>b, SumAdded
<1>4. Sum(gd, Cols) = A * Sum(fd, Cols)
  BY <1>1, ColsFinite, SumScaled
<1>5. Sum(gx, Cols) = B * Sum(fx, Cols)
  BY <1>1, ColsFinite, SumScaled
<1> QED
  BY <1>3, <1>4, <1>5, RowIs DEF fd, fx, fe

(* and grows with an element by the other's at its place.                  *)
LEMMA RowBumped ==
  ASSUME NEW a \in Vectors, NEW d \in Vectors, NEW e \in Vectors, NEW j \in Cols,
         \A c \in Cols : c # j => e[c] = d[c]
  PROVE  Row(a, e) = Row(a, d) + a[j] * (e[j] - d[j])
<1> DEFINE fd == [c \in Cols |-> a[c] * d[c]]
           fe == [c \in Cols |-> a[c] * e[c]]
<1>1. \A c \in Cols : fd[c] \in Int /\ fe[c] \in Int /\ (c # j => fe[c] = fd[c])
  BY DEF Vectors
<1>2. fe[j] - fd[j] = a[j] * (e[j] - d[j])
  <2>1. a[j] \in Int /\ d[j] \in Int /\ e[j] \in Int
    BY DEF Vectors
  <2> QED
    BY <2>1
<1> HIDE DEF fd, fe
<1>3. Sum(fe, Cols) = Sum(fd, Cols) + (fe[j] - fd[j])
  BY <1>1, ColsFinite, SumBumped
<1> QED
  BY <1>2, <1>3, RowIs DEF fd, fe

LEMMA RowOfZeros ==
  ASSUME NEW a, NEW d \in Vectors, \A c \in Cols : a[c] = 0
  PROVE  Row(a, d) = 0
<1> DEFINE f == [c \in Cols |-> a[c] * d[c]]
<1>1. \A c \in Cols : f[c] = 0
  BY DEF Vectors
<1> HIDE DEF f
<1>2. Sum(f, Cols) = 0
  BY <1>1, ColsFinite, SumOfZeros
<1> QED
  BY <1>2, RowIs DEF f

(* What a row of a head contributes.                                       *)

Key(z, n, h)   == z.k[n][h \div r]
Query(z, n, h) == z.q[n][h \div r]

\* The weight of the row a turn leaves: its output is weighted by dy, and it
\* is itself weighted by C.
Weight(z, C, n, h, w) == [c \in Cols |-> C[h][w][c] + z.dy[n][h][w] * Query(z, n, h)[c]]

Product(G, A, B, V, Q, D) == G * A + (B * V - G * B * Q) * D

Value(z, S, C, n, h, w) ==
  Product(z.g[n][h], Row(Weight(z, C, n, h, w), S[h][w]), z.beta[n][h], z.v[n][h][w],
          Row(S[h][w], Key(z, n, h)), Row(Weight(z, C, n, h, w), Key(z, n, h)))

(* All that a row's value is made of are vectors and numbers.              *)
LEMMA RowTypes ==
  ASSUME NEW z \in Tensors, NEW S \in States, NEW C \in States, NEW n \in Tokens,
         NEW h \in Heads, NEW w \in Rows
  PROVE  /\ S[h][w] \in Vectors /\ C[h][w] \in Vectors
         /\ Key(z, n, h) \in Vectors /\ Query(z, n, h) \in Vectors
         /\ Weight(z, C, n, h, w) \in Vectors
         /\ z.g[n][h] \in Int /\ z.beta[n][h] \in Int /\ z.v[n][h][w] \in Int /\ z.dy[n][h][w] \in Int
<1>1. h \div r \in KHeads
  BY KeyHeadIs
<1>2. S[h][w] \in Vectors /\ C[h][w] \in Vectors
  BY DEF States, Vectors
<1>3. Key(z, n, h) \in Vectors /\ Query(z, n, h) \in Vectors
  BY <1>1 DEF Tensors, Vectors, Key, Query
<1>4. z.g[n][h] \in Int /\ z.beta[n][h] \in Int /\ z.v[n][h][w] \in Int /\ z.dy[n][h][w] \in Int
  BY DEF Tensors
<1>5. Weight(z, C, n, h, w) \in Vectors
  <2>1. \A c \in Cols : C[h][w][c] \in Int /\ Query(z, n, h)[c] \in Int
    BY <1>2, <1>3 DEF Vectors
  <2>2. \A c \in Cols : C[h][w][c] + z.dy[n][h][w] * Query(z, n, h)[c] \in Int
    BY <1>4, <2>1
  <2> QED
    BY <2>2 DEF Weight, Vectors
<1> QED
  BY <1>2, <1>3, <1>4, <1>5

(* The row a turn leaves: decayed, and a multiple of the key added.        *)
LEMMA UpdatedRow ==
  ASSUME NEW z \in Tensors, NEW S \in States, NEW n \in Tokens, NEW h \in Heads, NEW w \in Rows
  PROVE  /\ Recurrence(z, S, n)[h][w] \in Vectors
         /\ \A c \in Cols :
              Recurrence(z, S, n)[h][w][c] =
                z.g[n][h] * S[h][w][c]
                  + (z.beta[n][h] * z.v[n][h][w] - z.g[n][h] * z.beta[n][h] * Row(S[h][w], Key(z, n, h)))
                      * Key(z, n, h)[c]
<1>1. Recurrence(z, S, n)[h][w] \in Vectors
  BY TurnIsRecurrence DEF States, Vectors
<1>2. ASSUME NEW c \in Cols
      PROVE  Recurrence(z, S, n)[h][w][c] =
               z.g[n][h] * (S[h][w][c] - z.beta[n][h] * Key(z, n, h)[c] * Row(S[h][w], Key(z, n, h)))
                 + z.beta[n][h] * z.v[n][h][w] * Key(z, n, h)[c]
  BY KeyHeadIs DEF Recurrence, Row, Key
<1>3. \A G, B, V, X, K, Q \in Int :
        G * (X - B * K * Q) + B * V * K = G * X + (B * V - G * B * Q) * K
  OBVIOUS
<1>4. ASSUME NEW c \in Cols
      PROVE  Recurrence(z, S, n)[h][w][c] =
                z.g[n][h] * S[h][w][c]
                  + (z.beta[n][h] * z.v[n][h][w] - z.g[n][h] * z.beta[n][h] * Row(S[h][w], Key(z, n, h)))
                      * Key(z, n, h)[c]
  <2>1. S[h][w][c] \in Int /\ Key(z, n, h)[c] \in Int /\ z.g[n][h] \in Int /\ z.beta[n][h] \in Int
    BY RowTypes DEF Vectors
  <2>2. z.v[n][h][w] \in Int /\ Row(S[h][w], Key(z, n, h)) \in Int
    BY RowTypes, RowType
  <2> DEFINE G == z.g[n][h]
             B == z.beta[n][h]
             V == z.v[n][h][w]
             X == S[h][w][c]
             K == Key(z, n, h)[c]
             Q == Row(S[h][w], Key(z, n, h))
  <2>3. Recurrence(z, S, n)[h][w][c] = G * (X - B * K * Q) + B * V * K
    BY <1>2
  <2>4. G \in Int /\ B \in Int /\ V \in Int /\ X \in Int /\ K \in Int /\ Q \in Int
    BY <2>1, <2>2
  <2> HIDE DEF G, B, V, X, K, Q
  <2>5. Recurrence(z, S, n)[h][w][c] = G * X + (B * V - G * B * Q) * K
    BY <1>3, <2>3, <2>4
  <2> QED
    BY <2>5 DEF G, B, V, X, K, Q
<1> QED
  BY <1>1, <1>4

(* What it contributes, through its output and through the state it is     *)
(* left in, is its value.                                                  *)
LEMMA ValueIs ==
  ASSUME NEW z \in Tensors, NEW S \in States, NEW C \in States, NEW n \in Tokens,
         NEW h \in Heads, NEW w \in Rows
  PROVE  LET U == Recurrence(z, S, n)[h][w]
         IN  /\ z.dy[n][h][w] * Row(U, Query(z, n, h)) + Row(C[h][w], U) = Value(z, S, C, n, h, w)
             /\ Value(z, S, C, n, h, w) \in Int
             /\ Row(U, Query(z, n, h)) \in Int /\ Row(C[h][w], U) \in Int
<1> DEFINE U == Recurrence(z, S, n)[h][w]
           a == Weight(z, C, n, h, w)
           x == S[h][w]
           key == Key(z, n, h)
           query == Query(z, n, h)
           G == z.g[n][h]
           B == z.beta[n][h]
           V == z.v[n][h][w]
           Y == z.dy[n][h][w]
           c0 == C[h][w]
<1>1. /\ U \in Vectors /\ a \in Vectors /\ x \in Vectors /\ key \in Vectors /\ query \in Vectors
      /\ c0 \in Vectors
  BY RowTypes, UpdatedRow
<1>2. G \in Int /\ B \in Int /\ V \in Int /\ Y \in Int
  BY RowTypes
<1>3. \A c \in Cols : a[c] = c0[c] + Y * query[c]
  BY DEF Weight
<1>4. \A c \in Cols : U[c] = G * x[c] + (B * V - G * B * Row(x, key)) * key[c]
  BY UpdatedRow
<1>5. Value(z, S, C, n, h, w) = G * Row(a, x) + (B * V - G * B * Row(x, key)) * Row(a, key)
  BY DEF Value, Product
<1> HIDE DEF U, a, x, key, query, G, B, V, Y, c0
<1> DEFINE E == B * V - G * B * Row(x, key)
<1>6. /\ Row(x, key) \in Int /\ Row(a, x) \in Int /\ Row(a, key) \in Int /\ Row(U, query) \in Int
      /\ Row(c0, U) \in Int /\ Row(U, c0) \in Int
  BY <1>1, RowType
<1>7. E \in Int
  <2>1. B * V \in Int /\ G * B \in Int
    BY <1>2
  <2> QED
    BY <1>6, <2>1
<1>8. Combines(U, G, x, E, key)
  BY <1>4 DEF Combines
<1>9. Value(z, S, C, n, h, w) = G * Row(a, x) + E * Row(a, key)
  BY <1>5
<1> HIDE DEF E
<1>10. Row(a, U) = G * Row(a, x) + E * Row(a, key)
  BY <1>1, <1>2, <1>7, <1>8, RowCombined
<1>11. Row(U, a) = 1 * Row(U, c0) + Y * Row(U, query)
  <2>1. Combines(a, 1, c0, Y, query)
    BY <1>1, <1>3 DEF Vectors, Combines
  <2>2. 1 \in Int
    OBVIOUS
  <2> QED
    BY <1>1, <1>2, <2>1, <2>2, RowCombined
<1>12. Row(U, a) = Row(a, U) /\ Row(U, c0) = Row(c0, U)
  BY <1>1, RowCommutes
<1>13. Row(a, U) \in Int
  BY <1>1, RowType
<1>14. Y * Row(U, query) + Row(c0, U) = Value(z, S, C, n, h, w)
  BY <1>2, <1>6, <1>9, <1>10, <1>11, <1>12
<1> QED
  BY <1>6, <1>9, <1>10, <1>13, <1>14 DEF U, Y, query, c0

(* A turn of gdn_vjp.                                                      *)

Du(z, C, n) == Plus(IF z.mask[n] THEN C ELSE NoState,
                    Outer(IF z.mask[n] THEN z.dy[n] ELSE NoRow, Repeat(z.q[n])))
Dd(z, C, n) == Apply(Du(z, C, n), Repeat(z.k[n]))
DValue(z, C, n) == Times(z.beta[n], Dd(z, C, n))
Dr(z, C, n) == Minus(NoRow, DValue(z, C, n))
Dp(z, C, n) == Plus(Du(z, C, n), Outer(Dr(z, C, n), Repeat(z.k[n])))
Before(z, C, n) == IF z.mask[n] THEN Scaled(z.g[n], Dp(z, C, n)) ELSE C

(* The code's du is the weight of a row, and zero at a masked token.       *)
LEMMA WeightIsDu ==
  ASSUME NEW z \in Tensors, NEW C \in States, NEW n \in Tokens, NEW h \in Heads, NEW w \in Rows
  PROVE  /\ Du(z, C, n)[h][w] \in Vectors
         /\ z.mask[n] => Du(z, C, n)[h][w] = Weight(z, C, n, h, w)
         /\ ~z.mask[n] => \A c \in Cols : Du(z, C, n)[h][w][c] = 0
<1>0. /\ C[h][w] \in Vectors /\ Query(z, n, h) \in Vectors /\ Weight(z, C, n, h, w) \in Vectors
      /\ z.dy[n][h][w] \in Int
  BY RowTypes
<1>1. \A c \in Cols : Repeat(z.q[n])[h][c] = Query(z, n, h)[c]
  BY DEF Repeat, Query
<1>2. CASE z.mask[n]
  <2>1. Du(z, C, n)[h][w] = [c \in Cols |-> C[h][w][c] + z.dy[n][h][w] * Repeat(z.q[n])[h][c]]
    BY <1>2 DEF Du, Plus, Outer
  <2>2. Du(z, C, n)[h][w] = Weight(z, C, n, h, w)
    BY <1>1, <2>1 DEF Weight
  <2> QED
    BY <1>0, <1>2, <2>2
<1>3. CASE ~z.mask[n]
  <2>1. Du(z, C, n)[h][w] = [c \in Cols |-> 0 + 0 * Repeat(z.q[n])[h][c]]
    BY <1>3 DEF Du, Plus, Outer, NoState, NoRow
  <2>2. \A c \in Cols : Repeat(z.q[n])[h][c] \in Int
    BY <1>0, <1>1 DEF Vectors
  <2>3. \A c \in Cols : 0 + 0 * Repeat(z.q[n])[h][c] = 0
    BY <2>2
  <2>4. \A c \in Cols : Du(z, C, n)[h][w][c] = 0
    BY <2>1, <2>3
  <2>5. Du(z, C, n)[h][w] = [c \in Cols |-> 0]
    BY <2>1, <2>3
  <2> QED
    BY <1>3, <2>4, <2>5 DEF Vectors
<1> QED
  BY <1>2, <1>3

(* A row of each array of the turn.                                        *)
LEMMA BackRow ==
  ASSUME NEW z \in Tensors, NEW C \in States, NEW n \in Tokens, NEW h \in Heads, NEW w \in Rows
  PROVE  LET a == Du(z, C, n)[h][w]
             D == Row(a, Key(z, n, h))
         IN  /\ D \in Int
             /\ Dd(z, C, n)[h][w] = D
             /\ DValue(z, C, n)[h][w] = z.beta[n][h] * D
             /\ Dr(z, C, n)[h][w] = 0 - z.beta[n][h] * D
             /\ Dp(z, C, n)[h][w] \in Vectors
             /\ \A x \in Vectors :
                  Row(Dp(z, C, n)[h][w], x) = Row(a, x) - z.beta[n][h] * Row(x, Key(z, n, h)) * D
<1> DEFINE a == Du(z, C, n)[h][w]
           key == Key(z, n, h)
           D == Row(a, key)
           B == z.beta[n][h]
           p == Dp(z, C, n)[h][w]
<1>0. a \in Vectors /\ key \in Vectors /\ B \in Int
  <2>1. C \in States
    OBVIOUS
  <2> QED
    BY <2>1, WeightIsDu, RowTypes
<1>1. D \in Int
  BY <1>0, RowType
<1>2. Dd(z, C, n)[h][w] = D
  <2>1. Dd(z, C, n)[h][w] = SumFunction([c \in Cols |-> Du(z, C, n)[h][w][c] * Repeat(z.k[n])[h][c]])
    BY DEF Dd, Apply
  <2>2. Repeat(z.k[n])[h] = Key(z, n, h)
    BY DEF Repeat, Key
  <2> QED
    BY <2>1, <2>2 DEF Row
<1>3. DValue(z, C, n)[h][w] = B * D
  BY <1>2 DEF DValue, Times
<1>4. Dr(z, C, n)[h][w] = 0 - B * D
  BY <1>3 DEF Dr, Minus, NoRow
<1>5. p = [c \in Cols |-> a[c] + (0 - B * D) * key[c]]
  <2>1. p = [c \in Cols |-> Du(z, C, n)[h][w][c] + Dr(z, C, n)[h][w] * Repeat(z.k[n])[h][c]]
    BY DEF Dp, Plus, Outer
  <2>2. Repeat(z.k[n])[h] = key
    BY DEF Repeat, Key
  <2> QED
    BY <1>4, <2>1, <2>2
<1> HIDE DEF a, key, D, B, p
<1> DEFINE E == 0 - B * D
<1>6. E \in Int
  BY <1>0, <1>1
<1>7. p \in Vectors /\ Combines(p, 1, a, E, key)
  <2>1. \A c \in Cols : a[c] \in Int /\ key[c] \in Int
    BY <1>0 DEF Vectors
  <2> HIDE DEF E
  <2>2. \A c \in Cols : a[c] + E * key[c] \in Int /\ a[c] + E * key[c] = 1 * a[c] + E * key[c]
    BY <1>6, <2>1
  <2>3. p = [c \in Cols |-> a[c] + E * key[c]]
    BY <1>5 DEF E
  <2> QED
    BY <2>2, <2>3 DEF Vectors, Combines
<1>8. ASSUME NEW x \in Vectors PROVE Row(p, x) = Row(a, x) - B * Row(x, key) * D
  <2> HIDE DEF E
  <2>1. 1 \in Int
    OBVIOUS
  <2>2. Row(x, p) = 1 * Row(x, a) + E * Row(x, key)
    BY <1>0, <1>6, <1>7, <2>1, RowCombined
  <2>3. Row(x, p) = Row(p, x) /\ Row(x, a) = Row(a, x)
    BY <1>0, <1>7, RowCommutes
  <2>4. Row(a, x) \in Int /\ Row(x, key) \in Int
    BY <1>0, RowType
  <2>5. Row(p, x) = Row(a, x) + E * Row(x, key)
    BY <2>2, <2>3, <2>4
  <2>6. \A X, Q \in Int : X + (0 - B * D) * Q = X - B * Q * D
    BY <1>0, <1>1
  <2> QED
    BY <2>4, <2>5, <2>6 DEF E
<1> QED
  BY <1>1, <1>2, <1>3, <1>4, <1>7, <1>8 DEF a, key, D, B, p

(* Sums over the rows of a head, and over the heads.                       *)

Pair(C, S) == SumFunction(Inner(C, S))
Yield(z, S, n) == SumFunction(Dot(z.dy[n], Reading(z, S, n)))
HeadValue(z, S, C, n) == [h \in Heads |-> Sum([w \in Rows |-> Value(z, S, C, n, h, w)], Rows)]

LEMMA AllFinite == IsFiniteSet(Heads) /\ IsFiniteSet(Rows) /\ IsFiniteSet(Cols)
<1>1. Hv - 1 \in Int /\ Dv \in Int /\ Dk \in Int
  BY DimensionAssumption
<1> QED
  BY <1>1, FS_Interval DEF Heads, Rows, Cols

(* What a state is worth under C,                                          *)
LEMMA InnerIs ==
  ASSUME NEW C \in States, NEW S \in States
  PROVE  /\ \A h \in Heads : /\ Inner(C, S)[h] = Sum([w \in Rows |-> Row(C[h][w], S[h][w])], Rows)
                             /\ Inner(C, S)[h] \in Int
         /\ Pair(C, S) = Sum(Inner(C, S), Heads)
         /\ Pair(C, S) \in Int
<1>1. ASSUME NEW h \in Heads
      PROVE  /\ Inner(C, S)[h] = Sum([w \in Rows |-> Row(C[h][w], S[h][w])], Rows)
             /\ Inner(C, S)[h] \in Int
  <2> DEFINE f == [w \in Rows |-> Row(C[h][w], S[h][w])]
  <2>1. Inner(C, S)[h] = SumFunction(f)
    BY DEF Inner, Row
  <2>2. SumFunction(f) = Sum(f, Rows)
    BY SumFunctionIs
  <2>3. \A w \in Rows : f[w] \in Int
    <3>1. ASSUME NEW w \in Rows PROVE C[h][w] \in Vectors /\ S[h][w] \in Vectors
      BY DEF States, Vectors
    <3> QED
      BY <3>1, RowType
  <2> HIDE DEF f
  <2>4. Sum(f, Rows) \in Int
    BY <2>3, AllFinite, SumType
  <2> QED
    BY <2>1, <2>2, <2>4 DEF f
<1>2. Pair(C, S) = Sum(Inner(C, S), Heads)
  <2>1. DOMAIN Inner(C, S) = Heads
    BY DEF Inner
  <2> QED
    BY <2>1, SumFunctionIs DEF Pair
<1>3. Sum(Inner(C, S), Heads) \in Int
  BY <1>1, AllFinite, SumType
<1> QED
  BY <1>1, <1>2, <1>3

(* and what a token's output is.                                           *)
LEMMA YieldIs ==
  ASSUME NEW z \in Tensors, NEW S \in States, NEW n \in Tokens
  PROVE  /\ \A h \in Heads :
              /\ Dot(z.dy[n], Reading(z, S, n))[h]
                   = Sum([w \in Rows |-> z.dy[n][h][w] * Row(S[h][w], Query(z, n, h))], Rows)
              /\ Dot(z.dy[n], Reading(z, S, n))[h] \in Int
         /\ Yield(z, S, n) = Sum(Dot(z.dy[n], Reading(z, S, n)), Heads)
         /\ Yield(z, S, n) \in Int
<1> DEFINE Y == Dot(z.dy[n], Reading(z, S, n))
<1>1. ASSUME NEW h \in Heads
      PROVE  /\ Y[h] = Sum([w \in Rows |-> z.dy[n][h][w] * Row(S[h][w], Query(z, n, h))], Rows)
             /\ Y[h] \in Int
  <2> DEFINE f == [w \in Rows |-> z.dy[n][h][w] * Row(S[h][w], Query(z, n, h))]
  <2>0. \A w \in Rows : Reading(z, S, n)[h][w] = Row(S[h][w], Query(z, n, h))
    BY KeyHeadIs DEF Reading, Row, Query
  <2>1. Y[h] = SumFunction(f)
    BY <2>0 DEF Dot
  <2>2. SumFunction(f) = Sum(f, Rows)
    BY SumFunctionIs
  <2>3. \A w \in Rows : f[w] \in Int
    <3>1. ASSUME NEW w \in Rows PROVE z.dy[n][h][w] \in Int /\ Row(S[h][w], Query(z, n, h)) \in Int
      BY RowTypes, RowType
    <3> QED
      BY <3>1
  <2> HIDE DEF f
  <2>4. Sum(f, Rows) \in Int
    BY <2>3, AllFinite, SumType
  <2> QED
    BY <2>1, <2>2, <2>4 DEF f
<1>2. Yield(z, S, n) = Sum(Y, Heads)
  <2>1. DOMAIN Y = Heads
    BY DEF Dot
  <2> QED
    BY <2>1, SumFunctionIs DEF Yield
<1> HIDE DEF Y
<1>3. Sum(Y, Heads) \in Int
  BY <1>1, AllFinite, SumType
<1> QED
  BY <1>1, <1>2, <1>3 DEF Y

(* What a turn yields and what its state is worth, by head and row.        *)
LEMMA TurnValue ==
  ASSUME NEW z \in Tensors, NEW S \in States, NEW C \in States, NEW n \in Tokens
  PROVE  LET U == Recurrence(z, S, n)
         IN  /\ Yield(z, U, n) + Pair(C, U) = Sum(HeadValue(z, S, C, n), Heads)
             /\ \A h \in Heads : HeadValue(z, S, C, n)[h] \in Int
<1> DEFINE U == Recurrence(z, S, n)
           Y == Dot(z.dy[n], Reading(z, U, n))
           X == Inner(C, U)
           H == HeadValue(z, S, C, n)
<1>0. U \in States
  BY TurnIsRecurrence
<1>1. ASSUME NEW h \in Heads
      PROVE  Y[h] \in Int /\ X[h] \in Int /\ H[h] = Y[h] + X[h]
  <2> DEFINE fy == [w \in Rows |-> z.dy[n][h][w] * Row(U[h][w], Query(z, n, h))]
             fx == [w \in Rows |-> Row(C[h][w], U[h][w])]
             fh == [w \in Rows |-> Value(z, S, C, n, h, w)]
  <2>1. Y[h] = Sum(fy, Rows) /\ Y[h] \in Int
    BY <1>0, YieldIs
  <2>2. X[h] = Sum(fx, Rows) /\ X[h] \in Int
    BY <1>0, InnerIs
  <2>3. H[h] = Sum(fh, Rows)
    BY DEF HeadValue
  <2>4. \A w \in Rows : fy[w] \in Int /\ fx[w] \in Int /\ fh[w] = fy[w] + fx[w]
    <3> SUFFICES ASSUME NEW w \in Rows PROVE fy[w] \in Int /\ fx[w] \in Int /\ fh[w] = fy[w] + fx[w]
      OBVIOUS
    <3>1. z.dy[n][h][w] \in Int
      BY RowTypes
    <3>2. /\ z.dy[n][h][w] * Row(U[h][w], Query(z, n, h)) + Row(C[h][w], U[h][w]) = Value(z, S, C, n, h, w)
          /\ Row(U[h][w], Query(z, n, h)) \in Int /\ Row(C[h][w], U[h][w]) \in Int
      BY ValueIs
    <3> QED
      BY <3>1, <3>2
  <2> HIDE DEF fy, fx, fh
  <2>5. Sum(fh, Rows) = Sum(fy, Rows) + Sum(fx, Rows)
    BY <2>4, AllFinite, SumAdded
  <2> QED
    BY <2>1, <2>2, <2>3, <2>5
<1>2. Yield(z, U, n) = Sum(Y, Heads) /\ Pair(C, U) = Sum(X, Heads)
  BY <1>0, YieldIs, InnerIs
<1>3. ASSUME NEW h \in Heads PROVE H[h] \in Int
  BY <1>1
<1> HIDE DEF U, Y, X, H
<1>4. Sum(H, Heads) = Sum(Y, Heads) + Sum(X, Heads)
  BY <1>1, AllFinite, SumAdded
<1> QED
  BY <1>2, <1>3, <1>4 DEF U, Y, X, H

(* The loss from a token on.                                               *)

Yields(z) == [n \in Tokens |-> Yield(z, StateAfter(z, n), n)]
Later(z, n) == {i \in Unmasked(z, T) : i > n}
Rest(z, n) == Sum(Yields(z), Later(z, n)) + Pair(z.ds, StateAfter(z, T))

LEMMA TokensAre ==
  /\ T \in Nat \ {0} /\ Tokens = 1..T /\ IsFiniteSet(Tokens)
  /\ \A z : Unmasked(z, T) = {i \in Tokens : z.mask[i]}
<1>1. T \in Nat \ {0}
  BY DimensionAssumption
<1> QED
  BY <1>1, FS_Interval DEF Tokens, Unmasked

LEMMA RestTypes ==
  ASSUME NEW z \in Tensors
  PROVE  /\ \A n \in Tokens : Yields(z)[n] \in Int /\ StateAfter(z, n) \in States
         /\ Pair(z.ds, StateAfter(z, T)) \in Int
         /\ \A n \in Int : /\ Later(z, n) \in SUBSET Tokens /\ IsFiniteSet(Later(z, n))
                           /\ Rest(z, n) \in Int
<1>1. ASSUME NEW n \in Tokens PROVE Yields(z)[n] \in Int /\ StateAfter(z, n) \in States
  <2>1. n \in 0..T
    BY TokensAre
  <2>2. StateAfter(z, n) \in States
    BY <2>1, StateAfterType
  <2> QED
    BY <2>2, YieldIs DEF Yields
<1>2. Pair(z.ds, StateAfter(z, T)) \in Int
  <2>1. z.ds \in States /\ T \in Tokens
    BY TokensAre DEF Tensors
  <2> QED
    BY <1>1, <2>1, InnerIs
<1>3. ASSUME NEW n \in Int PROVE Later(z, n) \in SUBSET Tokens /\ IsFiniteSet(Later(z, n)) /\ Rest(z, n) \in Int
  <2>1. Later(z, n) \in SUBSET Tokens
    BY TokensAre DEF Later
  <2>2. IsFiniteSet(Later(z, n))
    BY <2>1, TokensAre, FS_Subset
  <2>3. \A i \in Later(z, n) : Yields(z)[i] \in Int
    BY <1>1, <2>1
  <2>4. Sum(Yields(z), Later(z, n)) \in Int
    BY <2>2, <2>3, SumType
  <2> QED
    BY <1>2, <2>1, <2>2, <2>4 DEF Rest
<1> QED
  BY <1>1, <1>2, <1>3

(* The loss is the rest from the start.                                    *)
LEMMA LossIs ==
  ASSUME NEW z \in Tensors PROVE Loss(z) = Rest(z, 0)
<1> DEFINE f == [n \in Unmasked(z, T) |-> SumFunction(Dot(z.dy[n], Readout(z, n)))]
<1>1. Later(z, 0) = Unmasked(z, T)
  BY TokensAre DEF Later
<1>2. SumFunction(f) = Sum(f, Unmasked(z, T))
  BY SumFunctionIs
<1>3. \A n \in Unmasked(z, T) : Yields(z)[n] \in Int /\ f[n] = Yields(z)[n]
  <2> SUFFICES ASSUME NEW n \in Unmasked(z, T) PROVE Yields(z)[n] \in Int /\ f[n] = Yields(z)[n]
    OBVIOUS
  <2>1. n \in Tokens
    BY TokensAre
  <2> QED
    BY <2>1, RestTypes DEF Yields, Yield, Readout
<1>4. IsFiniteSet(Unmasked(z, T))
  BY <1>1, RestTypes
<1>5. Loss(z) = SumFunction(f) + Pair(z.ds, StateAfter(z, T))
  BY DEF Loss, Pair
<1> HIDE DEF f
<1>6. Sum(f, Unmasked(z, T)) = Sum(Yields(z), Unmasked(z, T))
  BY <1>3, <1>4, SumSame
<1> QED
  BY <1>1, <1>2, <1>5, <1>6 DEF Rest

(* A token more: it yields unless it is masked.                            *)
LEMMA RestMore ==
  ASSUME NEW z \in Tensors, NEW n \in Tokens
  PROVE  Rest(z, n - 1) = IF z.mask[n] THEN Yields(z)[n] + Rest(z, n) ELSE Rest(z, n)
<1> DEFINE A == Later(z, n - 1)
           L == Later(z, n)
<1>0. n \in Int /\ n - 1 \in Int /\ Tokens \subseteq Int
  BY TokensAre
<1>1. /\ A \in SUBSET Tokens /\ IsFiniteSet(A) /\ L \in SUBSET Tokens /\ IsFiniteSet(L)
      /\ \A i \in A : Yields(z)[i] \in Int
      /\ Yields(z)[n] \in Int /\ Pair(z.ds, StateAfter(z, T)) \in Int
  BY <1>0, RestTypes
<1>2. CASE z.mask[n]
  <2>1. n \in A /\ A \ {n} = L
    BY <1>0, <1>2, TokensAre DEF Later
  <2> HIDE DEF A, L
  <2>2. Sum(Yields(z), A) = Yields(z)[n] + Sum(Yields(z), A \ {n})
    BY <1>1, <2>1, SumOneOut
  <2>3. Sum(Yields(z), L) \in Int
    BY <1>1, RestTypes, SumType
  <2>4. Sum(Yields(z), A) = Yields(z)[n] + Sum(Yields(z), L)
    BY <2>1, <2>2, Zenon
  <2>5. /\ Rest(z, n - 1) = Sum(Yields(z), A) + Pair(z.ds, StateAfter(z, T))
        /\ Rest(z, n) = Sum(Yields(z), L) + Pair(z.ds, StateAfter(z, T))
    BY Zenon DEF Rest, A, L
  <2> QED
    BY <1>1, <1>2, <2>3, <2>4, <2>5
<1>3. CASE ~z.mask[n]
  <2>1. A = L
    BY <1>0, <1>3, TokensAre DEF Later
  <2> QED
    BY <1>3, <2>1 DEF Rest
<1> QED
  BY <1>2, <1>3

(* What a change of the state after a token does to the loss.              *)

\* x has the tokens after n in common with z.
SameAfter(z, x, n) ==
  /\ x.ds = z.ds
  /\ \A m \in Tokens : m > n =>
       /\ x.q[m] = z.q[m] /\ x.k[m] = z.k[m] /\ x.v[m] = z.v[m] /\ x.g[m] = z.g[m]
       /\ x.beta[m] = z.beta[m] /\ x.mask[m] = z.mask[m] /\ x.dy[m] = z.dy[m]

Adjoint(z, C, n) ==
  /\ C \in States
  /\ \A x1, x2 \in Tensors : SameAfter(z, x1, n) /\ SameAfter(z, x2, n) =>
       Rest(x1, n) - Rest(x2, n) = Pair(C, StateAfter(x1, n)) - Pair(C, StateAfter(x2, n))

(* After the last token the cotangent is that of the final state.          *)
LEMMA AdjointAtEnd == ASSUME NEW z \in Tensors PROVE Adjoint(z, z.ds, T)
<1>1. z.ds \in States
  BY DEF Tensors
<1>2. ASSUME NEW x \in Tensors, SameAfter(z, x, T)
      PROVE  Rest(x, T) = Pair(z.ds, StateAfter(x, T)) /\ Pair(z.ds, StateAfter(x, T)) \in Int
  <2>1. Later(x, T) = {} /\ T \in Tokens
    BY TokensAre DEF Later
  <2>2. x.ds = z.ds
    BY <1>2 DEF SameAfter
  <2>3. Pair(z.ds, StateAfter(x, T)) \in Int
    BY <2>2, RestTypes
  <2> QED
    BY <2>1, <2>2, <2>3, SumOfNone DEF Rest
<1> QED
  BY <1>1, <1>2 DEF Adjoint

\* The part of the value of a turn that does not depend on the state before.
Given(z, C, n) ==
  [h \in Heads |-> Sum([w \in Rows |->
     z.beta[n][h] * z.v[n][h][w] * Row(Weight(z, C, n, h, w), Key(z, n, h))], Rows)]

LEMMA BeforeType ==
  ASSUME NEW z \in Tensors, NEW C \in States, NEW n \in Tokens
  PROVE  Before(z, C, n) \in States /\ Dp(z, C, n) \in States
<1>1. ASSUME NEW h \in Heads, NEW w \in Rows
      PROVE  Dp(z, C, n)[h][w] \in Vectors
  BY BackRow
<1>2. Dp(z, C, n) = [h \in Heads |-> [w \in Rows |-> [c \in Cols |-> Dp(z, C, n)[h][w][c]]]]
  BY DEF Dp, Plus
<1> DEFINE P == Dp(z, C, n)
<1>3. /\ P = [h \in Heads |-> [w \in Rows |-> [c \in Cols |-> P[h][w][c]]]]
      /\ \A h \in Heads, w \in Rows, c \in Cols : P[h][w][c] \in Int
  BY <1>1, <1>2 DEF Vectors
<1>4. \A h \in Heads : z.g[n][h] \in Int
  BY DEF Tensors
<1>5. Before(z, C, n) = IF z.mask[n] THEN Scaled(z.g[n], P) ELSE C
  BY DEF Before
<1> HIDE DEF P
<1>6. Scaled(z.g[n], P) = [h \in Heads |-> [w \in Rows |-> [c \in Cols |-> z.g[n][h] * P[h][w][c]]]]
  BY DEF Scaled
<1>7. \A h \in Heads, w \in Rows, c \in Cols : z.g[n][h] * P[h][w][c] \in Int
  BY <1>3, <1>4
<1>8. Scaled(z.g[n], P) \in States
  BY <1>6, <1>7 DEF States
<1>9. P \in States
  BY <1>3 DEF States
<1> QED
  BY <1>5, <1>8, <1>9 DEF P

(* The value of a turn is that of the state before it under the code's     *)
(* cotangent, and a part the state has no say in.                          *)
LEMMA ValueSplit ==
  ASSUME NEW z \in Tensors, NEW S \in States, NEW C \in States, NEW n \in Tokens, z.mask[n]
  PROVE  Sum(HeadValue(z, S, C, n), Heads) = Pair(Before(z, C, n), S) + Sum(Given(z, C, n), Heads)
         /\ Sum(Given(z, C, n), Heads) \in Int
<1> DEFINE H == HeadValue(z, S, C, n)
           F == Before(z, C, n)
           X == Inner(F, S)
           K == Given(z, C, n)
<1>0. F \in States
  BY BeforeType
<1>1. ASSUME NEW h \in Heads PROVE X[h] \in Int /\ K[h] \in Int /\ H[h] = X[h] + K[h]
  <2> DEFINE fh == [w \in Rows |-> Value(z, S, C, n, h, w)]
             fx == [w \in Rows |-> Row(F[h][w], S[h][w])]
             fk == [w \in Rows |-> z.beta[n][h] * z.v[n][h][w] * Row(Weight(z, C, n, h, w), Key(z, n, h))]
  <2>1. H[h] = Sum(fh, Rows) /\ K[h] = Sum(fk, Rows)
    BY DEF HeadValue, Given
  <2>2. X[h] = Sum(fx, Rows) /\ X[h] \in Int
    BY <1>0, InnerIs
  <2>3. \A w \in Rows : fx[w] \in Int /\ fk[w] \in Int /\ fh[w] = fx[w] + fk[w]
    <3> SUFFICES ASSUME NEW w \in Rows PROVE fx[w] \in Int /\ fk[w] \in Int /\ fh[w] = fx[w] + fk[w]
      OBVIOUS
    <3> DEFINE a == Weight(z, C, n, h, w)
               x == S[h][w]
               key == Key(z, n, h)
               G == z.g[n][h]
               B == z.beta[n][h]
               V == z.v[n][h][w]
               p == Dp(z, C, n)[h][w]
               A == Row(a, x)
               Q == Row(x, key)
               D == Row(a, key)
    <3>1. /\ a \in Vectors /\ x \in Vectors /\ key \in Vectors /\ p \in Vectors
          /\ G \in Int /\ B \in Int /\ V \in Int
      <4>1. p \in Vectors
        BY BackRow
      <4> QED
        BY <4>1, RowTypes
    <3>2. A \in Int /\ Q \in Int /\ D \in Int
      BY <3>1, RowType
    <3>3. Row(p, x) = A - B * Q * D
      <4>1. Du(z, C, n)[h][w] = a
        BY WeightIsDu
      <4> QED
        BY <3>1, <4>1, BackRow
    <3>4. \A c \in Cols : F[h][w][c] = G * p[c]
      BY DEF Before, Scaled
    <3>5. F[h][w] \in Vectors
      BY <1>0 DEF States, Vectors
    <3>6. fh[w] = G * A + (B * V - G * B * Q) * D
      BY DEF Value, Product
    <3>7. fk[w] = B * V * D
      OBVIOUS
    <3>8. fx[w] = Row(F[h][w], x)
      OBVIOUS
    <3> HIDE DEF F, a, x, key, G, B, V, p, A, Q, D, fh, fk, fx
    <3>9. Combines(F[h][w], G, p, 0, p)
      <4>1. \A c \in Cols : p[c] \in Int
        BY <3>1 DEF Vectors
      <4>2. \A c \in Cols : G * p[c] = G * p[c] + 0 * p[c]
        BY <3>1, <4>1
      <4> QED
        BY <3>4, <4>2 DEF Combines
    <3>10. Row(x, F[h][w]) = G * Row(x, p) + 0 * Row(x, p)
      <4>1. 0 \in Int
        OBVIOUS
      <4> QED
        BY <3>1, <3>5, <3>9, <4>1, RowCombined
    <3>11. Row(x, F[h][w]) = Row(F[h][w], x) /\ Row(x, p) = Row(p, x) /\ Row(p, x) \in Int
      BY <3>1, <3>5, RowCommutes, RowType
    <3>12. fx[w] = G * (A - B * Q * D)
      BY <3>1, <3>3, <3>8, <3>10, <3>11
    <3>13. G * A + (B * V - G * B * Q) * D = G * (A - B * Q * D) + B * V * D
      BY <3>1, <3>2
    <3>14. G * (A - B * Q * D) \in Int /\ B * V * D \in Int
      BY <3>1, <3>2
    <3> QED
      BY <3>6, <3>7, <3>12, <3>13, <3>14
  <2> HIDE DEF fx, fk, fh, F
  <2>4. Sum(fh, Rows) = Sum(fx, Rows) + Sum(fk, Rows)
    BY <2>3, AllFinite, SumAdded
  <2>5. Sum(fk, Rows) \in Int
    BY <2>3, AllFinite, SumType
  <2> QED
    BY <2>1, <2>2, <2>4, <2>5 DEF F, fx
<1>2. Pair(F, S) = Sum(X, Heads)
  BY <1>0, InnerIs
<1> HIDE DEF F, H, X, K
<1>3. Sum(H, Heads) = Sum(X, Heads) + Sum(K, Heads)
  BY <1>1, AllFinite, SumAdded
<1>4. Sum(K, Heads) \in Int
  BY <1>1, AllFinite, SumType
<1> QED
  BY <1>2, <1>3, <1>4 DEF F, H, K

(* A turn depends on its own token only.                                   *)
SameAt(z, x, n) ==
  /\ x.q[n] = z.q[n] /\ x.k[n] = z.k[n] /\ x.v[n] = z.v[n] /\ x.g[n] = z.g[n]
  /\ x.beta[n] = z.beta[n] /\ x.mask[n] = z.mask[n] /\ x.dy[n] = z.dy[n]

LEMMA SameTurn ==
  ASSUME NEW z, NEW x, NEW n, SameAt(z, x, n)
  PROVE  /\ \A S : Recurrence(x, S, n) = Recurrence(z, S, n) /\ Yield(x, S, n) = Yield(z, S, n)
         /\ \A S, C : HeadValue(x, S, C, n) = HeadValue(z, S, C, n)
<1>1. \A S : Recurrence(x, S, n) = Recurrence(z, S, n)
  BY DEF SameAt, Recurrence
<1>2. \A S : Yield(x, S, n) = Yield(z, S, n)
  BY DEF SameAt, Yield, Reading
<1>3. \A S, C : HeadValue(x, S, C, n) = HeadValue(z, S, C, n)
  BY DEF SameAt, HeadValue, Value, Weight, Key, Query
<1> QED
  BY <1>1, <1>2, <1>3

(* A turn of gdn_vjp takes the cotangent of the state after a token to the *)
(* cotangent of the state before it.                                       *)
LEMMA AdjointBefore ==
  ASSUME NEW z \in Tensors, NEW n \in Tokens, NEW C, Adjoint(z, C, n)
  PROVE  Adjoint(z, Before(z, C, n), n - 1)
<1>0. C \in States /\ n \in Int /\ Tokens \subseteq Int /\ n \in Nat \ {0} /\ z.mask[n] \in BOOLEAN
  BY TokensAre DEF Adjoint, Tensors
<1>1. Before(z, C, n) \in States
  BY <1>0, BeforeType
<1>2. ASSUME NEW x \in Tensors, SameAfter(z, x, n - 1)
      PROVE  SameAfter(z, x, n) /\ SameAt(z, x, n)
  <2>1. n > n - 1
    BY <1>0
  <2>2. SameAt(z, x, n)
    BY <1>2, <2>1 DEF SameAfter, SameAt
  <2>3. SameAfter(z, x, n)
    BY <1>0, <1>2 DEF SameAfter
  <2> QED
    BY <2>2, <2>3
<1>3. ASSUME NEW x \in Tensors, SameAfter(z, x, n - 1)
      PROVE  /\ StateAfter(x, n - 1) \in States /\ StateAfter(x, n) \in States
             /\ StateAfter(x, n) = IF z.mask[n] THEN Recurrence(x, StateAfter(x, n - 1), n) ELSE StateAfter(x, n - 1)
  <2>1. n - 1 \in 0..T /\ n \in 0..T
    BY TokensAre
  <2>2. x.mask[n] = z.mask[n] /\ x.mask[n] \in BOOLEAN
    BY <1>0, <1>2, <1>3 DEF SameAt
  <2> QED
    BY <1>0, <2>1, <2>2, StateAfterType, TokenMore
<1>4. ASSUME NEW x1 \in Tensors, NEW x2 \in Tensors, SameAfter(z, x1, n - 1), SameAfter(z, x2, n - 1)
      PROVE  Rest(x1, n - 1) - Rest(x2, n - 1)
               = Pair(Before(z, C, n), StateAfter(x1, n - 1)) - Pair(Before(z, C, n), StateAfter(x2, n - 1))
  <2>1. Rest(x1, n) - Rest(x2, n) = Pair(C, StateAfter(x1, n)) - Pair(C, StateAfter(x2, n))
    BY <1>2, <1>4 DEF Adjoint
  <2>2. CASE ~z.mask[n]
    <3>1. Before(z, C, n) = C
      BY <2>2 DEF Before
    <3>2. StateAfter(x1, n) = StateAfter(x1, n - 1) /\ StateAfter(x2, n) = StateAfter(x2, n - 1)
      BY <1>3, <1>4, <2>2
    <3>3. ~x1.mask[n] /\ ~x2.mask[n]
      BY <1>2, <1>4, <2>2 DEF SameAt
    <3>4. Rest(x1, n - 1) = Rest(x1, n) /\ Rest(x2, n - 1) = Rest(x2, n)
      BY <3>3, RestMore
    <3> QED
      BY <2>1, <3>1, <3>2, <3>4
  <2>3. CASE z.mask[n]
    <3>1. ASSUME NEW x \in Tensors, SameAfter(z, x, n - 1)
          PROVE  /\ Rest(x, n - 1) = Rest(x, n) + Yields(x)[n]
                 /\ Yields(x)[n] + Pair(C, StateAfter(x, n))
                      = Pair(Before(z, C, n), StateAfter(x, n - 1)) + Sum(Given(z, C, n), Heads)
                 /\ Rest(x, n) \in Int /\ Yields(x)[n] \in Int /\ Pair(C, StateAfter(x, n)) \in Int
                 /\ Pair(Before(z, C, n), StateAfter(x, n - 1)) \in Int
      <4> DEFINE S == StateAfter(x, n - 1)
                 U == StateAfter(x, n)
      <4>1. S \in States /\ U \in States /\ U = Recurrence(x, S, n)
        BY <1>3, <2>3, <3>1
      <4>2. x.mask[n]
        BY <1>2, <2>3, <3>1 DEF SameAt
      <4>3. Rest(x, n - 1) = Yields(x)[n] + Rest(x, n)
        BY <4>2, RestMore
      <4>4. Rest(x, n) \in Int /\ Yields(x)[n] \in Int
        BY <1>0, RestTypes
      <4>5. Yields(x)[n] = Yield(x, U, n)
        BY DEF Yields
      <4>6. SameAt(z, x, n)
        BY <1>2, <3>1
      <4> HIDE DEF S, U
      <4>7. U = Recurrence(z, S, n) /\ Yield(x, U, n) = Yield(z, U, n)
        BY <4>1, <4>6, SameTurn
      <4>8. Yield(z, U, n) + Pair(C, U) = Sum(HeadValue(z, S, C, n), Heads)
        BY <1>0, <4>1, <4>7, TurnValue
      <4>9. Sum(HeadValue(z, S, C, n), Heads) = Pair(Before(z, C, n), S) + Sum(Given(z, C, n), Heads)
        BY <1>0, <2>3, <4>1, ValueSplit
      <4>10. Pair(C, U) \in Int /\ Pair(Before(z, C, n), S) \in Int
        BY <1>0, <1>1, <4>1, InnerIs
      <4> QED
        BY <4>3, <4>4, <4>5, <4>7, <4>8, <4>9, <4>10 DEF S, U
    <3> DEFINE K == Sum(Given(z, C, n), Heads)
               P1 == Pair(Before(z, C, n), StateAfter(x1, n - 1))
               P2 == Pair(Before(z, C, n), StateAfter(x2, n - 1))
               Q1 == Pair(C, StateAfter(x1, n))
               Q2 == Pair(C, StateAfter(x2, n))
               Y1 == Yields(x1)[n]
               Y2 == Yields(x2)[n]
    <3>2. K \in Int
      <4>1. StateAfter(x1, n - 1) \in States
        BY <1>3, <1>4
      <4> QED
        BY <1>0, <2>3, <4>1, ValueSplit
    <3>3. /\ Rest(x1, n - 1) = Rest(x1, n) + Y1 /\ Y1 + Q1 = P1 + K
          /\ Rest(x1, n) \in Int /\ Y1 \in Int /\ Q1 \in Int /\ P1 \in Int
      BY <1>4, <3>1
    <3>4. /\ Rest(x2, n - 1) = Rest(x2, n) + Y2 /\ Y2 + Q2 = P2 + K
          /\ Rest(x2, n) \in Int /\ Y2 \in Int /\ Q2 \in Int /\ P2 \in Int
      BY <1>4, <3>1
    <3>5. Rest(x1, n) - Rest(x2, n) = Q1 - Q2
      BY <2>1
    <3> HIDE DEF K, P1, P2, Q1, Q2, Y1, Y2
    <3>6. Rest(x1, n - 1) - Rest(x2, n - 1) = P1 - P2
      BY <3>2, <3>3, <3>4, <3>5
    <3> QED
      BY <3>6 DEF P1, P2
  <2> QED
    BY <1>0, <2>2, <2>3
<1> QED
  BY <1>1, <1>4 DEF Adjoint

(* Tensors that differ at one token.                                       *)

SameElsewhere(z, x, n) ==
  /\ x \in Tensors
  /\ x.state = z.state /\ x.ds = z.ds /\ x.mask = z.mask /\ x.dy = z.dy
  /\ \A m \in Tokens : m # n =>
       /\ x.q[m] = z.q[m] /\ x.k[m] = z.k[m] /\ x.v[m] = z.v[m] /\ x.g[m] = z.g[m]
       /\ x.beta[m] = z.beta[m]

(* They have the tokens and states before it in common.                    *)
LEMMA SameBefore ==
  ASSUME NEW z \in Tensors, NEW n \in Tokens, NEW x, SameElsewhere(z, x, n)
  PROVE  /\ \A m \in Tokens : m < n => /\ StateAfter(x, m) = StateAfter(z, m)
                                       /\ Yields(x)[m] = Yields(z)[m]
         /\ StateAfter(x, n - 1) = StateAfter(z, n - 1)
<1>0. n \in Nat \ {0} /\ Tokens = 1..T /\ T \in Nat \ {0} /\ n <= T
  BY TokensAre
<1>1. ASSUME NEW m \in Tokens, m # n PROVE SameAt(z, x, m)
  BY <1>1 DEF SameElsewhere, SameAt
<1> DEFINE Good == {m \in Nat : m < n => StateAfter(x, m) = StateAfter(z, m)}
<1>2. 0 \in Good
  <2>1. x.state = z.state
    BY DEF SameElsewhere
  <2> QED
    BY <2>1, NoToken
<1>3. ASSUME NEW m \in Good PROVE m + 1 \in Good
  <2> SUFFICES ASSUME m + 1 < n PROVE StateAfter(x, m + 1) = StateAfter(z, m + 1)
    OBVIOUS
  <2> DEFINE p == m + 1
  <2>1. p \in Nat \ {0} /\ p \in Tokens /\ p # n /\ p - 1 = m /\ m < n
    BY <1>0
  <2>2. StateAfter(x, m) = StateAfter(z, m)
    BY <2>1
  <2> HIDE DEF p
  <2>3. x.mask[p] = z.mask[p] /\ z.mask[p] \in BOOLEAN
    BY <2>1 DEF SameElsewhere, Tensors
  <2>4. /\ StateAfter(x, p) = IF x.mask[p] THEN Recurrence(x, StateAfter(x, p - 1), p) ELSE StateAfter(x, p - 1)
        /\ StateAfter(z, p) = IF z.mask[p] THEN Recurrence(z, StateAfter(z, p - 1), p) ELSE StateAfter(z, p - 1)
    BY <2>1, <2>3, TokenMore
  <2>5. \A S : Recurrence(x, S, p) = Recurrence(z, S, p)
    BY <1>1, <2>1, SameTurn
  <2>6. StateAfter(x, p) = StateAfter(z, p)
    BY <2>1, <2>2, <2>3, <2>4, <2>5
  <2> QED
    BY <2>6 DEF p
<1>4. Good = Nat
  <2> HIDE DEF Good
  <2>1. Good \in SUBSET Nat
    BY DEF Good
  <2> QED
    BY <1>2, <1>3, <2>1, Induction
<1>5. ASSUME NEW m \in Nat, m < n PROVE StateAfter(x, m) = StateAfter(z, m)
  <2>1. m \in Good
    BY <1>4, Zenon
  <2> QED
    BY <1>5, <2>1
<1>6. ASSUME NEW m \in Tokens, m < n PROVE Yields(x)[m] = Yields(z)[m]
  <2>1. m \in Nat /\ m # n
    BY <1>0, <1>6
  <2>2. StateAfter(x, m) = StateAfter(z, m)
    BY <1>5, <1>6, <2>1
  <2>3. \A S : Yield(x, S, m) = Yield(z, S, m)
    BY <1>1, <2>1, SameTurn
  <2> QED
    BY <2>2, <2>3 DEF Yields
<1> QED
  BY <1>0, <1>5, <1>6

(* Their losses differ by what the token's turn is worth.                  *)
LEMMA LossChange ==
  ASSUME NEW z \in Tensors, NEW n \in Tokens, NEW C, Adjoint(z, C, n),
         NEW x1, NEW x2, SameElsewhere(z, x1, n), SameElsewhere(z, x2, n)
  PROVE  LET S == StateAfter(z, n - 1)
         IN  Loss(x1) - Loss(x2) = IF z.mask[n] THEN Sum(HeadValue(x1, S, C, n), Heads)
                                                      - Sum(HeadValue(x2, S, C, n), Heads)
                                                ELSE 0
<1> DEFINE S == StateAfter(z, n - 1)
           A == Later(z, 0)
           L == Later(z, n - 1)
<1>0. /\ n \in Nat \ {0} /\ n - 1 \in Int /\ Tokens \subseteq Nat \ {0} /\ z.mask[n] \in BOOLEAN
      /\ C \in States /\ x1 \in Tensors /\ x2 \in Tensors
  <2>1. n \in Nat \ {0} /\ n - 1 \in Int /\ Tokens \subseteq Nat \ {0}
    BY TokensAre
  <2>2. z.mask[n] \in BOOLEAN
    BY DEF Tensors
  <2>3. C \in States /\ x1 \in Tensors /\ x2 \in Tensors
    BY DEF Adjoint, SameElsewhere
  <2> QED
    BY <2>1, <2>2, <2>3
<1>1. S \in States
  <2>1. n - 1 \in 0..T
    BY TokensAre
  <2> QED
    BY <2>1, StateAfterType
<1>2. ASSUME NEW x, SameElsewhere(z, x, n)
      PROVE  /\ x \in Tensors /\ Later(x, 0) = A /\ Later(x, n - 1) = L /\ SameAfter(z, x, n)
             /\ x.mask[n] = z.mask[n]
             /\ StateAfter(x, n - 1) = S
  <2>1. x \in Tensors /\ x.mask = z.mask
    BY <1>2 DEF SameElsewhere
  <2>2. Later(x, 0) = A /\ Later(x, n - 1) = L
    BY <2>1 DEF Later, Unmasked
  <2>3. \A m \in Tokens : m > n => m # n
    BY <1>0
  <2>4. SameAfter(z, x, n)
    BY <1>2, <2>3 DEF SameElsewhere, SameAfter
  <2> QED
    BY <1>2, <2>1, <2>2, <2>4, SameBefore
<1>3. Loss(x1) - Loss(x2) = Rest(x1, n - 1) - Rest(x2, n - 1)
  <2> DEFINE Y1 == Yields(x1)
             Y2 == Yields(x2)
             P1 == Pair(x1.ds, StateAfter(x1, T))
             P2 == Pair(x2.ds, StateAfter(x2, T))
  <2>1. Loss(x1) = Sum(Y1, A) + P1 /\ Loss(x2) = Sum(Y2, A) + P2
    BY <1>0, <1>2, LossIs DEF Rest
  <2>2. Rest(x1, n - 1) = Sum(Y1, L) + P1 /\ Rest(x2, n - 1) = Sum(Y2, L) + P2
    BY <1>2 DEF Rest
  <2>3. /\ A \in SUBSET Tokens /\ IsFiniteSet(A) /\ L \in SUBSET Tokens /\ IsFiniteSet(L)
        /\ L \in SUBSET A /\ \A i \in A \ L : i \in Tokens /\ i < n
    <3>1. 0 \in Int
      OBVIOUS
    <3>2. A \in SUBSET Tokens /\ IsFiniteSet(A) /\ L \in SUBSET Tokens /\ IsFiniteSet(L)
      BY <1>0, <3>1, RestTypes
    <3>3. \A i : /\ i \in A <=> i \in Unmasked(z, T) /\ i > 0
                 /\ i \in L <=> i \in Unmasked(z, T) /\ i > n - 1
      BY DEF Later
    <3>4. n \in Nat \ {0} /\ \A i \in Tokens : i \in Nat \ {0}
      BY <1>0, TokensAre
    <3> HIDE DEF A, L
    <3>5. \A i \in L : i \in A
      BY <3>2, <3>3, <3>4
    <3>6. \A i \in A \ L : i \in Tokens /\ i < n
      BY <3>2, <3>3, <3>4
    <3> QED
      BY <3>2, <3>5, <3>6
  <2>4. \A i \in A : Y1[i] \in Int /\ Y2[i] \in Int
    BY <1>0, <2>3, RestTypes
  <2>5. \A i \in A \ L : Y1[i] = Y2[i]
    <3>1. ASSUME NEW i \in Tokens, i < n PROVE Y1[i] = Yields(z)[i] /\ Y2[i] = Yields(z)[i]
      BY <3>1, SameBefore
    <3> QED
      BY <2>3, <3>1
  <2>6. P1 \in Int /\ P2 \in Int
    BY <1>0, RestTypes
  <2> HIDE DEF Y1, Y2, P1, P2, A, L
  <2>7. Sum(Y1, A) - Sum(Y2, A) = Sum(Y1, L) - Sum(Y2, L)
    BY <2>3, <2>4, <2>5, SumChanged
  <2>8. Sum(Y1, A) \in Int /\ Sum(Y2, A) \in Int /\ Sum(Y1, L) \in Int /\ Sum(Y2, L) \in Int
    <3>1. \A i \in L : Y1[i] \in Int /\ Y2[i] \in Int
      BY <2>3, <2>4
    <3> QED
      BY <2>3, <2>4, <3>1, SumType
  <2> QED
    BY <2>1, <2>2, <2>6, <2>7, <2>8
<1>4. Rest(x1, n) - Rest(x2, n) = Pair(C, StateAfter(x1, n)) - Pair(C, StateAfter(x2, n))
  BY <1>0, <1>2 DEF Adjoint
<1>5. ASSUME NEW x, SameElsewhere(z, x, n)
      PROVE  StateAfter(x, n) = IF z.mask[n] THEN Recurrence(x, S, n) ELSE S
  <2>1. x \in Tensors /\ x.mask[n] = z.mask[n] /\ StateAfter(x, n - 1) = S
    BY <1>2, <1>5
  <2> HIDE DEF S
  <2> QED
    BY <1>0, <2>1, TokenMore
<1>6. CASE ~z.mask[n]
  <2>1. Rest(x1, n - 1) = Rest(x1, n) /\ Rest(x2, n - 1) = Rest(x2, n)
    BY <1>0, <1>2, <1>6, RestMore
  <2>2. StateAfter(x1, n) = S /\ StateAfter(x2, n) = S
    BY <1>5, <1>6
  <2>3. Pair(C, S) \in Int
    BY <1>0, <1>1, InnerIs
  <2> QED
    BY <1>3, <1>4, <1>6, <2>1, <2>2, <2>3
<1>7. CASE z.mask[n]
  <2>1. ASSUME NEW x, SameElsewhere(z, x, n)
        PROVE  /\ Rest(x, n - 1) = Rest(x, n) + Yields(x)[n]
               /\ Yields(x)[n] + Pair(C, StateAfter(x, n)) = Sum(HeadValue(x, S, C, n), Heads)
               /\ Rest(x, n) \in Int /\ Yields(x)[n] \in Int /\ Pair(C, StateAfter(x, n)) \in Int
    <3>1. x \in Tensors /\ x.mask[n]
      BY <1>2, <1>7, <2>1
    <3>2. Rest(x, n - 1) = Yields(x)[n] + Rest(x, n)
      BY <3>1, RestMore
    <3>3. Rest(x, n) \in Int /\ Yields(x)[n] \in Int /\ StateAfter(x, n) \in States
      BY <1>0, <3>1, RestTypes
    <3>4. StateAfter(x, n) = Recurrence(x, S, n)
      BY <1>5, <1>7, <2>1
    <3>5. Yields(x)[n] = Yield(x, StateAfter(x, n), n)
      BY DEF Yields
    <3> HIDE DEF S
    <3>6. Yield(x, Recurrence(x, S, n), n) + Pair(C, Recurrence(x, S, n)) = Sum(HeadValue(x, S, C, n), Heads)
      BY <1>0, <1>1, <3>1, TurnValue
    <3>7. Pair(C, StateAfter(x, n)) \in Int
      BY <1>0, <3>3, InnerIs
    <3> QED
      BY <3>2, <3>3, <3>4, <3>5, <3>6, <3>7
  <2> DEFINE Q1 == Pair(C, StateAfter(x1, n))
             Q2 == Pair(C, StateAfter(x2, n))
             Y1 == Yields(x1)[n]
             Y2 == Yields(x2)[n]
             H1 == Sum(HeadValue(x1, S, C, n), Heads)
             H2 == Sum(HeadValue(x2, S, C, n), Heads)
  <2>2. /\ Rest(x1, n - 1) = Rest(x1, n) + Y1 /\ Y1 + Q1 = H1
        /\ Rest(x1, n) \in Int /\ Y1 \in Int /\ Q1 \in Int
    BY <2>1
  <2>3. /\ Rest(x2, n - 1) = Rest(x2, n) + Y2 /\ Y2 + Q2 = H2
        /\ Rest(x2, n) \in Int /\ Y2 \in Int /\ Q2 \in Int
    BY <2>1
  <2>4. Rest(x1, n) - Rest(x2, n) = Q1 - Q2
    BY <1>4
  <2> DEFINE R1 == Rest(x1, n)
             R2 == Rest(x2, n)
  <2>a. R1 \in Int /\ Y1 \in Int /\ Q1 \in Int /\ R2 \in Int /\ Y2 \in Int /\ Q2 \in Int
    BY <2>2, <2>3
  <2>b. /\ Rest(x1, n - 1) = R1 + Y1 /\ Rest(x2, n - 1) = R2 + Y2
        /\ H1 = Y1 + Q1 /\ H2 = Y2 + Q2 /\ R1 - R2 = Q1 - Q2
    BY <2>2, <2>3, <2>4
  <2> HIDE DEF Q1, Q2, Y1, Y2, H1, H2, R1, R2, S
  <2>c. (R1 + Y1) - (R2 + Y2) = (Y1 + Q1) - (Y2 + Q2)
    BY <2>a, <2>b
  <2>5. Rest(x1, n - 1) - Rest(x2, n - 1) = H1 - H2
    BY <2>b, <2>c
  <2> QED
    BY <1>3, <1>7, <2>5 DEF H1, H2, S
<1> QED
  BY <1>0, <1>6, <1>7

(* Sums over a grid of heads and rows.                                     *)

Grids == [Heads -> [Rows -> Int]]
Grid(F) == Sum([h \in Heads |-> Sum(F[h], Rows)], Heads)

LEMMA GridTypes ==
  ASSUME NEW F \in Grids
  PROVE  \A h \in Heads : Sum(F[h], Rows) \in Int
<1> SUFFICES ASSUME NEW h \in Heads PROVE Sum(F[h], Rows) \in Int
  OBVIOUS
<1>1. \A w \in Rows : F[h][w] \in Int
  BY DEF Grids
<1> QED
  BY <1>1, AllFinite, SumType

(* A grid of zeros, and grids that are zero but in some heads, in one head *)
(* and in one row.                                                         *)
LEMMA GridOfZeros ==
  ASSUME NEW F \in Grids, \A h \in Heads, w \in Rows : F[h][w] = 0
  PROVE  Grid(F) = 0
<1> DEFINE e == [h \in Heads |-> Sum(F[h], Rows)]
<1>1. \A h \in Heads : e[h] = 0
  BY AllFinite, SumOfZeros
<1> HIDE DEF e
<1>2. Sum(e, Heads) = 0
  BY <1>1, AllFinite, SumOfZeros
<1> QED
  BY <1>2 DEF Grid, e

\* A grid that is zero outside some heads.
LEMMA GridInHeads ==
  ASSUME NEW F \in Grids, NEW H \in SUBSET Heads, \A h \in Heads \ H, w \in Rows : F[h][w] = 0
  PROVE  Grid(F) = Sum([h \in Heads |-> Sum(F[h], Rows)], H)
<1> DEFINE e == [h \in Heads |-> Sum(F[h], Rows)]
           o == [h \in Heads |-> 0]
<1>1. \A h \in Heads : e[h] \in Int /\ o[h] \in Int /\ o[h] = 0
  BY GridTypes
<1>2. \A h \in Heads \ H : e[h] = o[h]
  <2> SUFFICES ASSUME NEW h \in Heads \ H PROVE Sum(F[h], Rows) = 0
    OBVIOUS
  <2>1. \A w \in Rows : F[h][w] = 0
    OBVIOUS
  <2> QED
    BY <2>1, AllFinite, SumOfZeros
<1>3. IsFiniteSet(H) /\ IsFiniteSet(Heads)
  BY AllFinite, FS_Subset
<1> HIDE DEF e, o
<1>4. Sum(e, Heads) - Sum(o, Heads) = Sum(e, H) - Sum(o, H)
  BY <1>1, <1>2, <1>3, SumChanged
<1>5. Sum(o, Heads) = 0 /\ Sum(o, H) = 0
  BY <1>1, <1>3, SumOfZeros
<1>6. Sum(e, Heads) \in Int /\ Sum(e, H) \in Int
  <2>1. \A h \in H : e[h] \in Int
    BY <1>1
  <2> QED
    BY <1>1, <1>3, <2>1, SumType
<1> QED
  BY <1>4, <1>5, <1>6 DEF Grid, e

LEMMA GridInHead ==
  ASSUME NEW F \in Grids, NEW h \in Heads, \A i \in Heads, w \in Rows : i # h => F[i][w] = 0
  PROVE  Grid(F) = Sum(F[h], Rows)
<1> DEFINE e == [i \in Heads |-> Sum(F[i], Rows)]
<1>1. {h} \in SUBSET Heads /\ \A i \in Heads \ {h}, w \in Rows : F[i][w] = 0
  OBVIOUS
<1>2. Grid(F) = Sum(e, {h})
  BY <1>1, GridInHeads
<1>3. e[h] = Sum(F[h], Rows) /\ e[h] \in Int
  BY GridTypes
<1> HIDE DEF e
<1> QED
  BY <1>2, <1>3, SumOfOne

LEMMA GridInRow ==
  ASSUME NEW F \in Grids, NEW h \in Heads, NEW j \in Rows,
         \A i \in Heads, w \in Rows : i # h \/ w # j => F[i][w] = 0
  PROVE  Grid(F) = F[h][j]
<1>1. Grid(F) = Sum(F[h], Rows)
  BY GridInHead
<1> DEFINE f == F[h]
           o == [w \in Rows |-> 0]
<1>2. \A w \in Rows : f[w] \in Int /\ o[w] \in Int /\ o[w] = 0 /\ (w # j => f[w] = o[w])
  BY DEF Grids
<1> HIDE DEF f, o
<1>3. Sum(f, Rows) = Sum(o, Rows) + (f[j] - o[j])
  BY <1>2, AllFinite, SumBumped
<1>4. Sum(o, Rows) = 0
  BY <1>2, AllFinite, SumOfZeros
<1> QED
  BY <1>1, <1>2, <1>3, <1>4 DEF f

(* The derivative in an element of a token, from what it does to rows.     *)

\* Twice F is what the rows gain from x2 to x1, and nothing if masked.
Gains(z, C, n, x1, x2, F) ==
  \A h \in Heads, w \in Rows :
    IF z.mask[n] THEN LET S == StateAfter(z, n - 1)
                      IN  Value(x1, S, C, n, h, w) = Value(x2, S, C, n, h, w) + 2 * F[h][w]
                 ELSE F[h][w] = 0

(* Then the sum of F is the derivative.                                    *)
LEMMA TokenDerivative ==
  ASSUME NEW z \in Tensors, NEW n \in Tokens, NEW C, Adjoint(z, C, n),
         NEW x1, NEW x2, SameElsewhere(z, x1, n), SameElsewhere(z, x2, n),
         NEW F \in Grids, Gains(z, C, n, x1, x2, F)
  PROVE  IsDerivative(Grid(F), x1, x2)
<1> DEFINE S == StateAfter(z, n - 1)
           H1 == HeadValue(x1, S, C, n)
           H2 == HeadValue(x2, S, C, n)
<1>0. z.mask[n] \in BOOLEAN /\ C \in States /\ x1 \in Tensors /\ x2 \in Tensors
  BY DEF Tensors, Adjoint, SameElsewhere
<1>1. S \in States
  <2>1. n - 1 \in 0..T
    BY TokensAre
  <2> QED
    BY <2>1, StateAfterType
<1>2. CASE ~z.mask[n]
  <2>1. Loss(x1) - Loss(x2) = 0
    BY <1>2, LossChange
  <2>2. Grid(F) = 0
    BY <1>2, GridOfZeros DEF Gains
  <2> QED
    BY <2>1, <2>2 DEF IsDerivative
<1>3. CASE z.mask[n]
  <2>1. Loss(x1) - Loss(x2) = Sum(H1, Heads) - Sum(H2, Heads)
    BY <1>3, LossChange
  <2> DEFINE e == [h \in Heads |-> Sum(F[h], Rows)]
             e2 == [h \in Heads |-> 2 * e[h]]
  <2>2. ASSUME NEW h \in Heads PROVE e[h] \in Int /\ H2[h] \in Int /\ H1[h] = H2[h] + e2[h]
    <3> DEFINE f1 == [w \in Rows |-> Value(x1, S, C, n, h, w)]
               f2 == [w \in Rows |-> Value(x2, S, C, n, h, w)]
               f == F[h]
               fd == [w \in Rows |-> 2 * f[w]]
    <3>1. H1[h] = Sum(f1, Rows) /\ H2[h] = Sum(f2, Rows)
      BY DEF HeadValue
    <3>2. H2[h] \in Int
      BY <1>0, <1>1, TurnValue
    <3>3. \A w \in Rows : /\ f[w] \in Int /\ fd[w] = 2 * f[w] /\ fd[w] \in Int
                          /\ f2[w] \in Int /\ f1[w] = f2[w] + fd[w]
      <4> SUFFICES ASSUME NEW w \in Rows
                   PROVE  /\ f[w] \in Int /\ fd[w] = 2 * f[w] /\ fd[w] \in Int
                          /\ f2[w] \in Int /\ f1[w] = f2[w] + fd[w]
        OBVIOUS
      <4>1. f[w] \in Int
        BY DEF Grids
      <4>2. Value(x2, S, C, n, h, w) \in Int
        BY <1>0, <1>1, ValueIs
      <4>3. Value(x1, S, C, n, h, w) = Value(x2, S, C, n, h, w) + 2 * F[h][w]
        BY <1>3 DEF Gains
      <4> QED
        BY <4>1, <4>2, <4>3
    <3>4. e[h] = Sum(f, Rows) /\ e2[h] = 2 * e[h]
      OBVIOUS
    <3> HIDE DEF f1, f2, f, fd, e, e2
    <3>5. Sum(f1, Rows) = Sum(f2, Rows) + Sum(fd, Rows)
      BY <3>3, AllFinite, SumAdded
    <3>6. 2 \in Int /\ \A w \in Rows : f[w] \in Int /\ fd[w] = 2 * f[w]
      BY <3>3
    <3>7. Sum(fd, Rows) = 2 * Sum(f, Rows) /\ Sum(f, Rows) \in Int
      BY <3>6, AllFinite, SumScaled, SumType
    <3> QED
      BY <3>1, <3>2, <3>4, <3>5, <3>7
  <2>3. \A h \in Heads : e[h] \in Int /\ e2[h] = 2 * e[h] /\ e2[h] \in Int
    BY <2>2
  <2>4. Grid(F) = Sum(e, Heads)
    BY DEF Grid
  <2> HIDE DEF S, H1, H2, e, e2
  <2>5. \A h \in Heads : H2[h] \in Int /\ e2[h] \in Int /\ H1[h] = H2[h] + e2[h]
    BY <2>2, <2>3
  <2>6. Sum(H1, Heads) = Sum(H2, Heads) + Sum(e2, Heads)
    BY <2>5, AllFinite, SumAdded
  <2>7. 2 \in Int /\ \A h \in Heads : e[h] \in Int /\ e2[h] = 2 * e[h]
    BY <2>3
  <2>8. Sum(e2, Heads) = 2 * Sum(e, Heads) /\ Sum(e, Heads) \in Int
    BY <2>7, AllFinite, SumScaled, SumType
  <2>9. Sum(H2, Heads) \in Int
    BY <2>5, AllFinite, SumType
  <2> QED
    BY <2>1, <2>4, <2>6, <2>8, <2>9 DEF IsDerivative
<1> QED
  BY <1>0, <1>2, <1>3

(* One element of a token's tensors, changed to e.                         *)

(* The value of a token.                                                   *)
LEMMA NewV ==
  ASSUME NEW z \in Tensors, NEW n \in Tokens, NEW h \in Heads, NEW w \in Rows, NEW e \in Int
  PROVE  LET x == [z EXCEPT !.v[n][h][w] = e]
         IN  /\ SameElsewhere(z, x, n) /\ x.q = z.q /\ x.k = z.k /\ x.g = z.g /\ x.beta = z.beta
             /\ x.v[n][h][w] = e
             /\ \A i \in Heads, j \in Rows : i # h \/ j # w => x.v[n][i][j] = z.v[n][i][j]
<1> DEFINE x == [z EXCEPT !.v[n][h][w] = e]
<1>1. /\ x.q = z.q /\ x.k = z.k /\ x.g = z.g /\ x.beta = z.beta /\ x.state = z.state
      /\ x.mask = z.mask /\ x.dy = z.dy /\ x.ds = z.ds
  BY DEF Tensors
<1>2. x.v = [z.v EXCEPT ![n][h][w] = e] /\ z.v \in [Tokens -> [Heads -> [Rows -> Int]]]
  BY DEF Tensors
<1>3. x.v \in [Tokens -> [Heads -> [Rows -> Int]]]
  BY <1>2
<1>4. x \in Tensors
  BY <1>1, <1>3 DEF Tensors
<1>5. \A m \in Tokens : m # n => x.v[m] = z.v[m]
  BY <1>2
<1>6. SameElsewhere(z, x, n)
  BY <1>1, <1>4, <1>5 DEF SameElsewhere
<1>7. x.v[n][h][w] = e /\ \A i \in Heads, j \in Rows : i # h \/ j # w => x.v[n][i][j] = z.v[n][i][j]
  BY <1>2
<1> QED
  BY <1>1, <1>6, <1>7

(* Its rate.                                                               *)
LEMMA NewBeta ==
  ASSUME NEW z \in Tensors, NEW n \in Tokens, NEW h \in Heads, NEW e \in Int
  PROVE  LET x == [z EXCEPT !.beta[n][h] = e]
         IN  /\ SameElsewhere(z, x, n) /\ x.q = z.q /\ x.k = z.k /\ x.g = z.g /\ x.v = z.v
             /\ x.beta[n][h] = e
             /\ \A i \in Heads : i # h => x.beta[n][i] = z.beta[n][i]
<1> DEFINE x == [z EXCEPT !.beta[n][h] = e]
<1>1. /\ x.q = z.q /\ x.k = z.k /\ x.g = z.g /\ x.v = z.v /\ x.state = z.state
      /\ x.mask = z.mask /\ x.dy = z.dy /\ x.ds = z.ds
  BY DEF Tensors
<1>2. x.beta = [z.beta EXCEPT ![n][h] = e] /\ z.beta \in [Tokens -> [Heads -> Int]]
  BY DEF Tensors
<1>3. x.beta \in [Tokens -> [Heads -> Int]]
  BY <1>2
<1>4. x \in Tensors
  BY <1>1, <1>3 DEF Tensors
<1>5. \A m \in Tokens : m # n => x.beta[m] = z.beta[m]
  BY <1>2
<1>6. SameElsewhere(z, x, n)
  BY <1>1, <1>4, <1>5 DEF SameElsewhere
<1>7. x.beta[n][h] = e /\ \A i \in Heads : i # h => x.beta[n][i] = z.beta[n][i]
  BY <1>2
<1> QED
  BY <1>1, <1>6, <1>7

(* Its decay.                                                              *)
LEMMA NewG ==
  ASSUME NEW z \in Tensors, NEW n \in Tokens, NEW h \in Heads, NEW e \in Int
  PROVE  LET x == [z EXCEPT !.g[n][h] = e]
         IN  /\ SameElsewhere(z, x, n) /\ x.q = z.q /\ x.k = z.k /\ x.beta = z.beta /\ x.v = z.v
             /\ x.g[n][h] = e
             /\ \A i \in Heads : i # h => x.g[n][i] = z.g[n][i]
<1> DEFINE x == [z EXCEPT !.g[n][h] = e]
<1>1. /\ x.q = z.q /\ x.k = z.k /\ x.beta = z.beta /\ x.v = z.v /\ x.state = z.state
      /\ x.mask = z.mask /\ x.dy = z.dy /\ x.ds = z.ds
  BY DEF Tensors
<1>2. x.g = [z.g EXCEPT ![n][h] = e] /\ z.g \in [Tokens -> [Heads -> Int]]
  BY DEF Tensors
<1>3. x.g \in [Tokens -> [Heads -> Int]]
  BY <1>2
<1>4. x \in Tensors
  BY <1>1, <1>3 DEF Tensors
<1>5. \A m \in Tokens : m # n => x.g[m] = z.g[m]
  BY <1>2
<1>6. SameElsewhere(z, x, n)
  BY <1>1, <1>4, <1>5 DEF SameElsewhere
<1>7. x.g[n][h] = e /\ \A i \in Heads : i # h => x.g[n][i] = z.g[n][i]
  BY <1>2
<1> QED
  BY <1>1, <1>6, <1>7

(* A key of it.                                                            *)
LEMMA NewK ==
  ASSUME NEW z \in Tensors, NEW n \in Tokens, NEW kh \in KHeads, NEW c \in Cols, NEW e \in Int
  PROVE  LET x == [z EXCEPT !.k[n][kh][c] = e]
         IN  /\ SameElsewhere(z, x, n) /\ x.q = z.q /\ x.g = z.g /\ x.beta = z.beta /\ x.v = z.v
             /\ x.k[n][kh][c] = e
             /\ \A j \in Cols : j # c => x.k[n][kh][j] = z.k[n][kh][j]
             /\ \A i \in KHeads : i # kh => x.k[n][i] = z.k[n][i]
<1> DEFINE x == [z EXCEPT !.k[n][kh][c] = e]
<1>1. /\ x.q = z.q /\ x.g = z.g /\ x.beta = z.beta /\ x.v = z.v /\ x.state = z.state
      /\ x.mask = z.mask /\ x.dy = z.dy /\ x.ds = z.ds
  BY DEF Tensors
<1>2. x.k = [z.k EXCEPT ![n][kh][c] = e] /\ z.k \in [Tokens -> [KHeads -> [Cols -> Int]]]
  BY DEF Tensors
<1>3. x.k \in [Tokens -> [KHeads -> [Cols -> Int]]]
  BY <1>2
<1>4. x \in Tensors
  BY <1>1, <1>3 DEF Tensors
<1>5. \A m \in Tokens : m # n => x.k[m] = z.k[m]
  BY <1>2
<1>6. SameElsewhere(z, x, n)
  BY <1>1, <1>4, <1>5 DEF SameElsewhere
<1>7. /\ x.k[n][kh][c] = e /\ \A j \in Cols : j # c => x.k[n][kh][j] = z.k[n][kh][j]
      /\ \A i \in KHeads : i # kh => x.k[n][i] = z.k[n][i]
  BY <1>2
<1> QED
  BY <1>1, <1>6, <1>7

(* A query of it.                                                          *)
LEMMA NewQ ==
  ASSUME NEW z \in Tensors, NEW n \in Tokens, NEW kh \in KHeads, NEW c \in Cols, NEW e \in Int
  PROVE  LET x == [z EXCEPT !.q[n][kh][c] = e]
         IN  /\ SameElsewhere(z, x, n) /\ x.k = z.k /\ x.g = z.g /\ x.beta = z.beta /\ x.v = z.v
             /\ x.q[n][kh][c] = e
             /\ \A j \in Cols : j # c => x.q[n][kh][j] = z.q[n][kh][j]
             /\ \A i \in KHeads : i # kh => x.q[n][i] = z.q[n][i]
<1> DEFINE x == [z EXCEPT !.q[n][kh][c] = e]
<1>1. /\ x.k = z.k /\ x.g = z.g /\ x.beta = z.beta /\ x.v = z.v /\ x.state = z.state
      /\ x.mask = z.mask /\ x.dy = z.dy /\ x.ds = z.ds
  BY DEF Tensors
<1>2. x.q = [z.q EXCEPT ![n][kh][c] = e] /\ z.q \in [Tokens -> [KHeads -> [Cols -> Int]]]
  BY DEF Tensors
<1>3. x.q \in [Tokens -> [KHeads -> [Cols -> Int]]]
  BY <1>2
<1>4. x \in Tensors
  BY <1>1, <1>3 DEF Tensors
<1>5. \A m \in Tokens : m # n => x.q[m] = z.q[m]
  BY <1>2
<1>6. SameElsewhere(z, x, n)
  BY <1>1, <1>4, <1>5 DEF SameElsewhere
<1>7. /\ x.q[n][kh][c] = e /\ \A j \in Cols : j # c => x.q[n][kh][j] = z.q[n][kh][j]
      /\ \A i \in KHeads : i # kh => x.q[n][i] = z.q[n][i]
  BY <1>2
<1> QED
  BY <1>1, <1>6, <1>7

(* What gdn_vjp returns for a token, from the state S before it and the    *)
(* cotangent C of the state after it.                                      *)

Step(z, S, n) ==
  LET kr       == Repeat(z.k[n])
      decayed  == Scaled(z.g[n], S)
      residual == Minus(z.v[n], Apply(decayed, kr))
      delta0   == Times(z.beta[n], residual)
  IN  [prev |-> S, decayed |-> decayed, residual |-> residual,
       delta |-> delta0, updated |-> Plus(decayed, Outer(delta0, kr))]

CotG(z, C, n, S)    == Inner(Dp(z, C, n), S)
CotBeta(z, C, n, S) == Dot(Dd(z, C, n), Step(z, S, n).residual)
CotQ(z, C, n, S)    == Transposed(Step(z, S, n).updated, IF z.mask[n] THEN z.dy[n] ELSE NoRow)
CotK(z, C, n, S) ==
  LET direct   == Transposed(Du(z, C, n), Step(z, S, n).delta)
      residual == Transposed(Step(z, S, n).decayed, Dr(z, C, n))
  IN  [h \in Heads |-> [c \in Cols |-> direct[h][c] + residual[h][c]]]

(* A row of what _forward records of a turn.                               *)
LEMMA StepRow ==
  ASSUME NEW z \in Tensors, NEW S \in States, NEW n \in Tokens, NEW h \in Heads, NEW w \in Rows
  PROVE  LET Q == Row(S[h][w], Key(z, n, h))
         IN  /\ Q \in Int
             /\ \A c \in Cols : Step(z, S, n).decayed[h][w][c] = z.g[n][h] * S[h][w][c]
             /\ Step(z, S, n).residual[h][w] = z.v[n][h][w] - z.g[n][h] * Q
             /\ Step(z, S, n).delta[h][w] = z.beta[n][h] * (z.v[n][h][w] - z.g[n][h] * Q)
             /\ Step(z, S, n).updated = Recurrence(z, S, n)
<1> DEFINE Q == Row(S[h][w], Key(z, n, h))
           dec == Scaled(z.g[n], S)[h][w]
<1>0. S[h][w] \in Vectors /\ Key(z, n, h) \in Vectors /\ z.g[n][h] \in Int
  <2>1. S \in States
    OBVIOUS
  <2> QED
    BY <2>1, RowTypes
<1>1. Q \in Int
  BY <1>0, RowType
<1>2. dec = [c \in Cols |-> z.g[n][h] * S[h][w][c]]
  BY DEF Scaled
<1>3. Apply(Scaled(z.g[n], S), Repeat(z.k[n]))[h][w] = z.g[n][h] * Q
  <2>1. Repeat(z.k[n])[h] = Key(z, n, h)
    BY DEF Repeat, Key
  <2>2. Apply(Scaled(z.g[n], S), Repeat(z.k[n]))[h][w] = Row(dec, Key(z, n, h))
    BY <2>1 DEF Apply, Row
  <2> HIDE DEF dec
  <2>3. dec \in Vectors
    <3>1. \A c \in Cols : z.g[n][h] * S[h][w][c] \in Int
      BY <1>0 DEF Vectors
    <3> QED
      BY <1>2, <3>1 DEF Vectors
  <2> DEFINE x == S[h][w]
             G == z.g[n][h]
             key == Key(z, n, h)
  <2>4. Combines(dec, G, x, 0, x)
    <3>1. \A c \in Cols : x[c] \in Int /\ dec[c] = G * x[c]
      BY <1>0, <1>2 DEF Vectors
    <3>2. G \in Int
      BY <1>0
    <3> HIDE DEF x, G
    <3>3. \A c \in Cols : G * x[c] = G * x[c] + 0 * x[c]
      BY <3>1, <3>2
    <3> QED
      BY <3>1, <3>3 DEF Combines
  <2>5. x \in Vectors /\ key \in Vectors /\ G \in Int /\ 0 \in Int
    BY <1>0
  <2>6. Q = Row(x, key)
    OBVIOUS
  <2> HIDE DEF x, G, key
  <2>7. Row(key, dec) = G * Row(key, x) + 0 * Row(key, x)
    BY <2>3, <2>4, <2>5, RowCombined
  <2>8. Row(key, dec) = Row(dec, key) /\ Row(key, x) = Row(x, key) /\ Row(x, key) \in Int
    BY <2>3, <2>5, RowCommutes, RowType
  <2>9. Row(dec, key) = G * Row(x, key)
    BY <2>5, <2>7, <2>8
  <2> QED
    BY <2>2, <2>6, <2>9 DEF key, G
<1>4. Step(z, S, n).residual[h][w] = z.v[n][h][w] - z.g[n][h] * Q
  BY <1>3 DEF Step, Minus
<1>5. Step(z, S, n).delta[h][w] = z.beta[n][h] * (z.v[n][h][w] - z.g[n][h] * Q)
  BY <1>4 DEF Step, Times
<1>6. Step(z, S, n).updated = Recurrence(z, S, n)
  <2>1. Step(z, S, n).updated = Turn(z, S, n)
    BY DEF Step, Turn
  <2> QED
    BY <2>1, TurnIsRecurrence
<1>7. \A c \in Cols : Step(z, S, n).decayed[h][w][c] = z.g[n][h] * S[h][w][c]
  BY DEF Step, Scaled
<1> QED
  BY <1>1, <1>4, <1>5, <1>6, <1>7

\* The numbers of a row that the cotangents are made of.
LEMMA RowNumbers ==
  ASSUME NEW z \in Tensors, NEW S \in States, NEW C \in States, NEW n \in Tokens,
         NEW h \in Heads, NEW w \in Rows
  PROVE  LET A == Row(Du(z, C, n)[h][w], S[h][w])
             Q == Row(S[h][w], Key(z, n, h))
             D == Row(Du(z, C, n)[h][w], Key(z, n, h))
         IN  /\ A \in Int /\ Q \in Int /\ D \in Int
             /\ z.g[n][h] \in Int /\ z.beta[n][h] \in Int /\ z.v[n][h][w] \in Int
             /\ z.mask[n] => Value(z, S, C, n, h, w) = Product(z.g[n][h], A, z.beta[n][h], z.v[n][h][w], Q, D)
             /\ ~z.mask[n] => A = 0 /\ D = 0
<1>1. Du(z, C, n)[h][w] \in Vectors
  BY WeightIsDu
<1>2. S[h][w] \in Vectors /\ Key(z, n, h) \in Vectors
  BY RowTypes
<1>3. z.g[n][h] \in Int /\ z.beta[n][h] \in Int /\ z.v[n][h][w] \in Int
  BY RowTypes
<1>4. z.mask[n] => Du(z, C, n)[h][w] = Weight(z, C, n, h, w)
  BY WeightIsDu
<1>5. ASSUME ~z.mask[n] PROVE Row(Du(z, C, n)[h][w], S[h][w]) = 0 /\ Row(Du(z, C, n)[h][w], Key(z, n, h)) = 0
  <2>1. \A c \in Cols : Du(z, C, n)[h][w][c] = 0
    BY <1>5, WeightIsDu
  <2> QED
    BY <1>2, <2>1, RowOfZeros
<1> QED
  BY <1>1, <1>2, <1>3, <1>4, <1>5, RowType DEF Value

(* The cotangents are the derivatives.                                     *)

\* The row in tensors that differ from z in the scalars of token n only.
LEMMA RowOf ==
  ASSUME NEW z \in Tensors, NEW S \in States, NEW C \in States, NEW n \in Tokens, z.mask[n],
         NEW x, SameElsewhere(z, x, n), x.q = z.q, x.k = z.k, NEW h \in Heads, NEW w \in Rows
  PROVE  Value(x, S, C, n, h, w) =
           Product(x.g[n][h], Row(Du(z, C, n)[h][w], S[h][w]), x.beta[n][h], x.v[n][h][w],
                   Row(S[h][w], Key(z, n, h)), Row(Du(z, C, n)[h][w], Key(z, n, h)))
<1>1. x.dy = z.dy
  BY DEF SameElsewhere
<1>2. Weight(x, C, n, h, w) = Weight(z, C, n, h, w) /\ Key(x, n, h) = Key(z, n, h)
  BY <1>1 DEF Weight, Query, Key
<1>3. Du(z, C, n)[h][w] = Weight(z, C, n, h, w)
  BY WeightIsDu
<1> QED
  BY <1>2, <1>3 DEF Value

(* In the value,                                                           *)
LEMMA InV ==
  ASSUME NEW z \in Tensors, NEW n \in Tokens, NEW C, Adjoint(z, C, n), NEW h \in Heads, NEW w \in Rows
  PROVE  IsDerivative(DValue(z, C, n)[h][w],
                      [z EXCEPT !.v[n][h][w] = @ + 1], [z EXCEPT !.v[n][h][w] = @ - 1])
<1> DEFINE S == StateAfter(z, n - 1)
           x1 == [z EXCEPT !.v[n][h][w] = @ + 1]
           x2 == [z EXCEPT !.v[n][h][w] = @ - 1]
           D(i, j) == Row(Du(z, C, n)[i][j], Key(z, n, i))
           F == [i \in Heads |-> [j \in Rows |-> IF i = h /\ j = w THEN z.beta[n][i] * D(i, j) ELSE 0]]
<1>0. C \in States /\ z.mask[n] \in BOOLEAN /\ n - 1 \in 0..T
  BY TokensAre DEF Adjoint, Tensors
<1>1. S \in States
  BY <1>0, StateAfterType
<1>2. ASSUME NEW i \in Heads, NEW j \in Rows
      PROVE  D(i, j) \in Int /\ z.beta[n][i] \in Int /\ z.v[n][i][j] \in Int /\ (~z.mask[n] => D(i, j) = 0)
  BY <1>0, <1>1, RowNumbers
<1>3. F \in Grids
  BY <1>2 DEF Grids
<1>4. Grid(F) = DValue(z, C, n)[h][w]
  <2>1. F[h][w] = DValue(z, C, n)[h][w]
    BY <1>0, BackRow
  <2>2. \A i \in Heads, j \in Rows : i # h \/ j # w => F[i][j] = 0
    OBVIOUS
  <2> HIDE DEF F
  <2> QED
    BY <1>3, <2>1, <2>2, GridInRow
<1>5. /\ SameElsewhere(z, x1, n) /\ x1.q = z.q /\ x1.k = z.k /\ x1.g = z.g /\ x1.beta = z.beta
      /\ x1.v[n][h][w] = z.v[n][h][w] + 1
      /\ \A i \in Heads, j \in Rows : i # h \/ j # w => x1.v[n][i][j] = z.v[n][i][j]
  <2> DEFINE e == z.v[n][h][w] + 1
  <2>1. e \in Int
    BY <1>2
  <2>2. x1 = [z EXCEPT !.v[n][h][w] = e]
    OBVIOUS
  <2> HIDE DEF e, x1, S, F, D
  <2>3. /\ SameElsewhere(z, x1, n) /\ x1.q = z.q /\ x1.k = z.k /\ x1.g = z.g /\ x1.beta = z.beta
        /\ x1.v[n][h][w] = e
        /\ \A i \in Heads, j \in Rows : i # h \/ j # w => x1.v[n][i][j] = z.v[n][i][j]
    BY <2>1, <2>2, NewV
  <2> QED
    BY <2>3 DEF e
<1>6. /\ SameElsewhere(z, x2, n) /\ x2.q = z.q /\ x2.k = z.k /\ x2.g = z.g /\ x2.beta = z.beta
      /\ x2.v[n][h][w] = z.v[n][h][w] - 1
      /\ \A i \in Heads, j \in Rows : i # h \/ j # w => x2.v[n][i][j] = z.v[n][i][j]
  <2> DEFINE e == z.v[n][h][w] - 1
  <2>1. e \in Int
    BY <1>2
  <2>2. x2 = [z EXCEPT !.v[n][h][w] = e]
    OBVIOUS
  <2> HIDE DEF e, x2, S, F, D
  <2>3. /\ SameElsewhere(z, x2, n) /\ x2.q = z.q /\ x2.k = z.k /\ x2.g = z.g /\ x2.beta = z.beta
        /\ x2.v[n][h][w] = e
        /\ \A i \in Heads, j \in Rows : i # h \/ j # w => x2.v[n][i][j] = z.v[n][i][j]
    BY <2>1, <2>2, NewV
  <2> QED
    BY <2>3 DEF e
<1> HIDE DEF x1, x2
<1>7. Gains(z, C, n, x1, x2, F)
  <2> SUFFICES ASSUME NEW i \in Heads, NEW j \in Rows
               PROVE  IF z.mask[n] THEN Value(x1, S, C, n, i, j) = Value(x2, S, C, n, i, j) + 2 * F[i][j]
                                   ELSE F[i][j] = 0
    BY DEF Gains
  <2> DEFINE a == Row(Du(z, C, n)[i][j], S[i][j])
             Q == Row(S[i][j], Key(z, n, i))
             d == D(i, j)
             G == z.g[n][i]
             B == z.beta[n][i]
             V == z.v[n][i][j]
  <2>1. a \in Int /\ Q \in Int /\ d \in Int /\ G \in Int /\ B \in Int /\ V \in Int
    BY <1>0, <1>1, RowNumbers
  <2>2. CASE ~z.mask[n]
    <3>1. d = 0
      BY <1>2, <2>2
    <3> QED
      BY <2>1, <2>2, <3>1
  <2>3. CASE z.mask[n]
    <3>1. /\ Value(x1, S, C, n, i, j) = Product(G, a, B, x1.v[n][i][j], Q, d)
          /\ Value(x2, S, C, n, i, j) = Product(G, a, B, x2.v[n][i][j], Q, d)
      BY <1>0, <1>1, <1>5, <1>6, <2>3, RowOf
    <3>2. CASE i = h /\ j = w
      <4>1. x1.v[n][i][j] = V + 1 /\ x2.v[n][i][j] = V - 1 /\ F[i][j] = B * d
        BY <1>5, <1>6, <3>2
      <4> HIDE DEF a, Q, d, G, B, V, F, S, D
      <4>2. Product(G, a, B, V + 1, Q, d) = Product(G, a, B, V - 1, Q, d) + 2 * (B * d)
        BY <2>1 DEF Product
      <4> QED
        BY <2>3, <3>1, <4>1, <4>2
    <3>3. CASE i # h \/ j # w
      <4>1. x1.v[n][i][j] = V /\ x2.v[n][i][j] = V /\ F[i][j] = 0
        BY <1>5, <1>6, <3>3
      <4> HIDE DEF a, Q, d, G, B, V, F, S, D
      <4>2. Product(G, a, B, V, Q, d) \in Int
        BY <2>1 DEF Product
      <4> QED
        BY <2>3, <3>1, <4>1, <4>2
    <3> QED
      BY <3>2, <3>3
  <2> QED
    BY <1>0, <2>2, <2>3
<1> HIDE DEF F
<1>8. IsDerivative(Grid(F), x1, x2)
  BY <1>3, <1>5, <1>6, <1>7, TokenDerivative
<1> QED
  BY <1>4, <1>8 DEF x1, x2

(* in the rate,                                                            *)
LEMMA InBeta ==
  ASSUME NEW z \in Tensors, NEW n \in Tokens, NEW C, Adjoint(z, C, n), NEW h \in Heads
  PROVE  IsDerivative(CotBeta(z, C, n, StateAfter(z, n - 1))[h],
                      [z EXCEPT !.beta[n][h] = @ + 1], [z EXCEPT !.beta[n][h] = @ - 1])
<1> DEFINE S == StateAfter(z, n - 1)
           x1 == [z EXCEPT !.beta[n][h] = @ + 1]
           x2 == [z EXCEPT !.beta[n][h] = @ - 1]
           A(i, j) == Row(Du(z, C, n)[i][j], S[i][j])
           Q(i, j) == Row(S[i][j], Key(z, n, i))
           D(i, j) == Row(Du(z, C, n)[i][j], Key(z, n, i))
           F == [i \in Heads |-> [j \in Rows |->
                  IF i = h THEN D(i, j) * (z.v[n][i][j] - z.g[n][i] * Q(i, j)) ELSE 0]]
<1>0. C \in States /\ z.mask[n] \in BOOLEAN /\ n - 1 \in 0..T
  BY TokensAre DEF Adjoint, Tensors
<1>1. S \in States
  BY <1>0, StateAfterType
<1>2. ASSUME NEW i \in Heads, NEW j \in Rows
      PROVE  /\ A(i, j) \in Int /\ Q(i, j) \in Int /\ D(i, j) \in Int
             /\ z.g[n][i] \in Int /\ z.beta[n][i] \in Int /\ z.v[n][i][j] \in Int
             /\ (~z.mask[n] => A(i, j) = 0 /\ D(i, j) = 0)
  BY <1>0, <1>1, RowNumbers
<1>3. F \in Grids
  <2>1. ASSUME NEW i \in Heads, NEW j \in Rows
        PROVE  D(i, j) * (z.v[n][i][j] - z.g[n][i] * Q(i, j)) \in Int
    <3> HIDE DEF A, Q, D
    <3> QED
      BY <1>2
  <2> HIDE DEF A, Q, D
  <2> QED
    BY <2>1 DEF Grids
<1>4. Grid(F) = CotBeta(z, C, n, S)[h]
  <2> DEFINE f == [j \in Rows |-> Dd(z, C, n)[h][j] * Step(z, S, n).residual[h][j]]
  <2>1. CotBeta(z, C, n, S)[h] = SumFunction(f)
    BY DEF CotBeta, Dot
  <2>2. SumFunction(f) = Sum(f, Rows)
    BY SumFunctionIs
  <2>3. ASSUME NEW j \in Rows PROVE f[j] = F[h][j] /\ F[h][j] \in Int
    <3>1. Dd(z, C, n)[h][j] = D(h, j)
      BY <1>0, BackRow
    <3>2. Step(z, S, n).residual[h][j] = z.v[n][h][j] - z.g[n][h] * Q(h, j)
      BY <1>1, StepRow
    <3>3. F[h][j] \in Int
      BY <1>3 DEF Grids
    <3> HIDE DEF D, Q, S
    <3> QED
      BY <3>1, <3>2, <3>3
  <2>4. \A i \in Heads, j \in Rows : i # h => F[i][j] = 0
    OBVIOUS
  <2> HIDE DEF F, f
  <2>5. Sum(f, Rows) = Sum(F[h], Rows)
    BY <2>3, AllFinite, SumSame
  <2>6. Grid(F) = Sum(F[h], Rows)
    BY <1>3, <2>4, GridInHead
  <2> QED
    BY <2>1, <2>2, <2>5, <2>6
<1>5. /\ SameElsewhere(z, x1, n) /\ x1.q = z.q /\ x1.k = z.k /\ x1.g = z.g /\ x1.v = z.v
      /\ x1.beta[n][h] = z.beta[n][h] + 1
      /\ \A i \in Heads : i # h => x1.beta[n][i] = z.beta[n][i]
  <2> DEFINE e == z.beta[n][h] + 1
  <2>1. e \in Int
    BY DEF Tensors
  <2>2. x1 = [z EXCEPT !.beta[n][h] = e]
    OBVIOUS
  <2> HIDE DEF e, x1, S, F, A, Q, D
  <2>3. /\ SameElsewhere(z, x1, n) /\ x1.q = z.q /\ x1.k = z.k /\ x1.g = z.g /\ x1.v = z.v
        /\ x1.beta[n][h] = e
        /\ \A i \in Heads : i # h => x1.beta[n][i] = z.beta[n][i]
    BY <2>1, <2>2, NewBeta
  <2> QED
    BY <2>3 DEF e
<1>6. /\ SameElsewhere(z, x2, n) /\ x2.q = z.q /\ x2.k = z.k /\ x2.g = z.g /\ x2.v = z.v
      /\ x2.beta[n][h] = z.beta[n][h] - 1
      /\ \A i \in Heads : i # h => x2.beta[n][i] = z.beta[n][i]
  <2> DEFINE e == z.beta[n][h] - 1
  <2>1. e \in Int
    BY DEF Tensors
  <2>2. x2 = [z EXCEPT !.beta[n][h] = e]
    OBVIOUS
  <2> HIDE DEF e, x2, S, F, A, Q, D
  <2>3. /\ SameElsewhere(z, x2, n) /\ x2.q = z.q /\ x2.k = z.k /\ x2.g = z.g /\ x2.v = z.v
        /\ x2.beta[n][h] = e
        /\ \A i \in Heads : i # h => x2.beta[n][i] = z.beta[n][i]
    BY <2>1, <2>2, NewBeta
  <2> QED
    BY <2>3 DEF e
<1> HIDE DEF x1, x2
<1>7. Gains(z, C, n, x1, x2, F)
  <2> SUFFICES ASSUME NEW i \in Heads, NEW j \in Rows
               PROVE  IF z.mask[n] THEN Value(x1, S, C, n, i, j) = Value(x2, S, C, n, i, j) + 2 * F[i][j]
                                   ELSE F[i][j] = 0
    BY DEF Gains
  <2> DEFINE a == A(i, j)
             p == Q(i, j)
             d == D(i, j)
             G == z.g[n][i]
             B == z.beta[n][i]
             V == z.v[n][i][j]
  <2>1. a \in Int /\ p \in Int /\ d \in Int /\ G \in Int /\ B \in Int /\ V \in Int
    BY <1>2
  <2>2. CASE ~z.mask[n]
    <3>1. a = 0 /\ d = 0
      BY <1>2, <2>2
    <3>2. F[i][j] = IF i = h THEN d * (V - G * p) ELSE 0
      OBVIOUS
    <3> HIDE DEF a, p, d, G, B, V, F
    <3>3. d * (V - G * p) = 0
      BY <2>1, <3>1
    <3> QED
      BY <2>2, <3>2, <3>3
  <2>3. CASE z.mask[n]
    <3>1. /\ Value(x1, S, C, n, i, j) = Product(G, a, x1.beta[n][i], V, p, d)
          /\ Value(x2, S, C, n, i, j) = Product(G, a, x2.beta[n][i], V, p, d)
      BY <1>0, <1>1, <1>5, <1>6, <2>3, RowOf
    <3>2. CASE i = h
      <4>1. x1.beta[n][i] = B + 1 /\ x2.beta[n][i] = B - 1 /\ F[i][j] = d * (V - G * p)
        BY <1>5, <1>6, <3>2
      <4> HIDE DEF a, p, d, G, B, V, F, S, A, Q, D
      <4>2. Product(G, a, B + 1, V, p, d)
              = Product(G, a, B - 1, V, p, d) + 2 * (d * (V - G * p))
        BY <2>1 DEF Product
      <4> QED
        BY <2>3, <3>1, <4>1, <4>2
    <3>3. CASE i # h
      <4>1. x1.beta[n][i] = B /\ x2.beta[n][i] = B /\ F[i][j] = 0
        BY <1>5, <1>6, <3>3
      <4> HIDE DEF a, p, d, G, B, V, F, S, A, Q, D
      <4>2. Product(G, a, B, V, p, d) \in Int
        BY <2>1 DEF Product
      <4> QED
        BY <2>3, <3>1, <4>1, <4>2
    <3> QED
      BY <3>2, <3>3
  <2> QED
    BY <1>0, <2>2, <2>3
<1> HIDE DEF F
<1>8. IsDerivative(Grid(F), x1, x2)
  BY <1>3, <1>5, <1>6, <1>7, TokenDerivative
<1> QED
  BY <1>4, <1>8 DEF x1, x2

(* in the decay,                                                           *)
LEMMA InG ==
  ASSUME NEW z \in Tensors, NEW n \in Tokens, NEW C, Adjoint(z, C, n), NEW h \in Heads
  PROVE  IsDerivative(CotG(z, C, n, StateAfter(z, n - 1))[h],
                      [z EXCEPT !.g[n][h] = @ + 1], [z EXCEPT !.g[n][h] = @ - 1])
<1> DEFINE S == StateAfter(z, n - 1)
           x1 == [z EXCEPT !.g[n][h] = @ + 1]
           x2 == [z EXCEPT !.g[n][h] = @ - 1]
           A(i, j) == Row(Du(z, C, n)[i][j], S[i][j])
           Q(i, j) == Row(S[i][j], Key(z, n, i))
           D(i, j) == Row(Du(z, C, n)[i][j], Key(z, n, i))
           F == [i \in Heads |-> [j \in Rows |->
                  IF i = h THEN A(i, j) - z.beta[n][i] * Q(i, j) * D(i, j) ELSE 0]]
<1>0. C \in States /\ z.mask[n] \in BOOLEAN /\ n - 1 \in 0..T
  BY TokensAre DEF Adjoint, Tensors
<1>1. S \in States
  BY <1>0, StateAfterType
<1>2. ASSUME NEW i \in Heads, NEW j \in Rows
      PROVE  /\ A(i, j) \in Int /\ Q(i, j) \in Int /\ D(i, j) \in Int
             /\ z.g[n][i] \in Int /\ z.beta[n][i] \in Int /\ z.v[n][i][j] \in Int
             /\ (~z.mask[n] => A(i, j) = 0 /\ D(i, j) = 0)
  BY <1>0, <1>1, RowNumbers
<1>3. F \in Grids
  <2>1. ASSUME NEW i \in Heads, NEW j \in Rows
        PROVE  A(i, j) - z.beta[n][i] * Q(i, j) * D(i, j) \in Int
    <3> HIDE DEF A, Q, D
    <3> QED
      BY <1>2
  <2> HIDE DEF A, Q, D
  <2> QED
    BY <2>1 DEF Grids
<1>4. Grid(F) = CotG(z, C, n, S)[h]
  <2> DEFINE f == [j \in Rows |-> Row(Dp(z, C, n)[h][j], S[h][j])]
  <2>0. Dp(z, C, n) \in States
    BY <1>0, BeforeType
  <2>1. CotG(z, C, n, S)[h] = Sum(f, Rows)
    BY <1>1, <2>0, InnerIs DEF CotG
  <2>3. ASSUME NEW j \in Rows PROVE f[j] = F[h][j] /\ F[h][j] \in Int
    <3>1. S[h][j] \in Vectors
      BY <1>1 DEF States, Vectors
    <3>2. f[j] = A(h, j) - z.beta[n][h] * Q(h, j) * D(h, j)
      BY <1>0, <3>1, BackRow
    <3>3. F[h][j] \in Int
      BY <1>3 DEF Grids
    <3> QED
      BY <3>2, <3>3
  <2>4. \A i \in Heads, j \in Rows : i # h => F[i][j] = 0
    OBVIOUS
  <2> HIDE DEF F, f
  <2>5. Sum(f, Rows) = Sum(F[h], Rows)
    BY <2>3, AllFinite, SumSame
  <2>6. Grid(F) = Sum(F[h], Rows)
    BY <1>3, <2>4, GridInHead
  <2> QED
    BY <2>1, <2>5, <2>6
<1>5. /\ SameElsewhere(z, x1, n) /\ x1.q = z.q /\ x1.k = z.k /\ x1.beta = z.beta /\ x1.v = z.v
      /\ x1.g[n][h] = z.g[n][h] + 1
      /\ \A i \in Heads : i # h => x1.g[n][i] = z.g[n][i]
  <2> DEFINE e == z.g[n][h] + 1
  <2>1. e \in Int
    BY DEF Tensors
  <2>2. x1 = [z EXCEPT !.g[n][h] = e]
    OBVIOUS
  <2> HIDE DEF e, x1, S, F, A, Q, D
  <2>3. /\ SameElsewhere(z, x1, n) /\ x1.q = z.q /\ x1.k = z.k /\ x1.beta = z.beta /\ x1.v = z.v
        /\ x1.g[n][h] = e
        /\ \A i \in Heads : i # h => x1.g[n][i] = z.g[n][i]
    BY <2>1, <2>2, NewG
  <2> QED
    BY <2>3 DEF e
<1>6. /\ SameElsewhere(z, x2, n) /\ x2.q = z.q /\ x2.k = z.k /\ x2.beta = z.beta /\ x2.v = z.v
      /\ x2.g[n][h] = z.g[n][h] - 1
      /\ \A i \in Heads : i # h => x2.g[n][i] = z.g[n][i]
  <2> DEFINE e == z.g[n][h] - 1
  <2>1. e \in Int
    BY DEF Tensors
  <2>2. x2 = [z EXCEPT !.g[n][h] = e]
    OBVIOUS
  <2> HIDE DEF e, x2, S, F, A, Q, D
  <2>3. /\ SameElsewhere(z, x2, n) /\ x2.q = z.q /\ x2.k = z.k /\ x2.beta = z.beta /\ x2.v = z.v
        /\ x2.g[n][h] = e
        /\ \A i \in Heads : i # h => x2.g[n][i] = z.g[n][i]
    BY <2>1, <2>2, NewG
  <2> QED
    BY <2>3 DEF e
<1> HIDE DEF x1, x2
<1>7. Gains(z, C, n, x1, x2, F)
  <2> SUFFICES ASSUME NEW i \in Heads, NEW j \in Rows
               PROVE  IF z.mask[n] THEN Value(x1, S, C, n, i, j) = Value(x2, S, C, n, i, j) + 2 * F[i][j]
                                   ELSE F[i][j] = 0
    BY DEF Gains
  <2> DEFINE a == A(i, j)
             p == Q(i, j)
             d == D(i, j)
             G == z.g[n][i]
             B == z.beta[n][i]
             V == z.v[n][i][j]
  <2>1. a \in Int /\ p \in Int /\ d \in Int /\ G \in Int /\ B \in Int /\ V \in Int
    BY <1>2
  <2>2. CASE ~z.mask[n]
    <3>1. a = 0 /\ d = 0
      BY <1>2, <2>2
    <3>2. F[i][j] = IF i = h THEN a - B * p * d ELSE 0
      OBVIOUS
    <3> HIDE DEF a, p, d, G, B, V, F
    <3>3. a - B * p * d = 0
      BY <2>1, <3>1
    <3> QED
      BY <2>2, <3>2, <3>3
  <2>3. CASE z.mask[n]
    <3>1. /\ Value(x1, S, C, n, i, j) = Product(x1.g[n][i], a, B, V, p, d)
          /\ Value(x2, S, C, n, i, j) = Product(x2.g[n][i], a, B, V, p, d)
      BY <1>0, <1>1, <1>5, <1>6, <2>3, RowOf
    <3>2. CASE i = h
      <4>1. x1.g[n][i] = G + 1 /\ x2.g[n][i] = G - 1 /\ F[i][j] = a - B * p * d
        BY <1>5, <1>6, <3>2
      <4> HIDE DEF a, p, d, G, B, V, F, S, A, Q, D
      <4>2. Product(G + 1, a, B, V, p, d)
              = Product(G - 1, a, B, V, p, d) + 2 * (a - B * p * d)
        BY <2>1 DEF Product
      <4> QED
        BY <2>3, <3>1, <4>1, <4>2
    <3>3. CASE i # h
      <4>1. x1.g[n][i] = G /\ x2.g[n][i] = G /\ F[i][j] = 0
        BY <1>5, <1>6, <3>3
      <4> HIDE DEF a, p, d, G, B, V, F, S, A, Q, D
      <4>2. Product(G, a, B, V, p, d) \in Int
        BY <2>1 DEF Product
      <4> QED
        BY <2>3, <3>1, <4>1, <4>2
    <3> QED
      BY <3>2, <3>3
  <2> QED
    BY <1>0, <2>2, <2>3
<1> HIDE DEF F
<1>8. IsDerivative(Grid(F), x1, x2)
  BY <1>3, <1>5, <1>6, <1>7, TokenDerivative
<1> QED
  BY <1>4, <1>8 DEF x1, x2

(* Over the heads of a key head.                                           *)

(* The heads that a key head is repeated for.                              *)
LEMMA HeadsOfGroup ==
  ASSUME NEW kh \in KHeads
  PROVE  /\ r \in Nat \ {0} /\ kh * r \in Int
         /\ kh * r .. kh * r + r - 1 \in SUBSET Heads
         /\ \A i \in 0 .. r - 1 : kh * r + i \in Heads /\ (kh * r + i) \div r = kh
         /\ \A h \in Heads \ (kh * r .. kh * r + r - 1) : h \div r # kh
<1>1. r \in Nat \ {0} /\ Hv = Hk * r /\ kh \in Nat /\ kh \in 0..(Hk - 1) /\ Hk \in Nat /\ Hv \in Nat
  BY Groups, DimensionAssumption DEF KHeads
<1> DEFINE b0 == kh * r
<1>2. b0 \in Nat /\ b0 + r <= Hv
  <2>1. kh + 1 <= Hk /\ kh + 1 \in Int
    BY <1>1
  <2>2. (kh + 1) * r <= Hk * r
    BY <1>1, <2>1, TimesMonotone
  <2>3. (kh + 1) * r = kh * r + r /\ kh * r \in Int
    BY <1>1
  <2>4. kh * r \in Nat
    BY <1>1
  <2> QED
    BY <1>1, <2>2, <2>3, <2>4
<1>3. ASSUME NEW i \in 0..(r - 1) PROVE b0 + i \in Heads /\ (b0 + i) \div r = kh
  <2>1. (kh * r + i) \div r = kh
    BY <1>1, Decode
  <2> HIDE DEF b0
  <2>2. b0 + i \in Heads
    BY <1>1, <1>2 DEF Heads
  <2> QED
    BY <2>1, <2>2 DEF b0
<1>4. ASSUME NEW h \in Heads, h \div r = kh PROVE h \in b0 .. b0 + r - 1
  <2>1. h \in Int
    BY <1>1 DEF Heads
  <2>2. h \div r \in Int /\ h % r \in 0..(r - 1) /\ h = (h \div r) * r + (h % r)
    BY <1>1, <2>1, QuotientRemainder
  <2> DEFINE low == h % r
  <2>3. low \in 0..(r - 1) /\ h = b0 + low
    BY <1>4, <2>2
  <2> HIDE DEF b0, low
  <2> QED
    BY <1>1, <1>2, <2>3
<1>5. b0 .. b0 + r - 1 \in SUBSET Heads
  <2> HIDE DEF b0
  <2> QED
    BY <1>1, <1>2 DEF Heads
<1> QED
  BY <1>1, <1>2, <1>3, <1>4, <1>5

(* The sum over a group of what its heads have in a column.                *)
LEMMA GroupSum ==
  ASSUME NEW F \in Grids, NEW a, NEW kh \in KHeads, NEW c \in Cols,
         \A h \in Heads, w \in Rows : h \div r # kh => F[h][w] = 0,
         \A h \in Heads : h \div r = kh => a[h][c] = Sum(F[h], Rows)
  PROVE  OverGroup(a)[kh][c] = Grid(F)
<1> DEFINE H == kh * r .. kh * r + r - 1
           e == [h \in Heads |-> Sum(F[h], Rows)]
           f == [i \in 0 .. r - 1 |-> a[kh * r + i][c]]
<1>1. /\ r \in Nat \ {0} /\ kh * r \in Int /\ H \in SUBSET Heads
      /\ \A i \in 0 .. r - 1 : kh * r + i \in Heads /\ (kh * r + i) \div r = kh
      /\ \A h \in Heads \ H : h \div r # kh
  BY HeadsOfGroup
<1>2. Grid(F) = Sum(e, H)
  <2>1. \A h \in Heads \ H, w \in Rows : F[h][w] = 0
    BY <1>1
  <2> HIDE DEF H
  <2> QED
    BY <1>1, <2>1, GridInHeads
<1>3. OverGroup(a)[kh][c] = Sum(f, 0 .. r - 1)
  <2>1. OverGroup(a)[kh][c] = SumFunction(f)
    BY DEF OverGroup
  <2>2. DOMAIN f = 0 .. r - 1
    OBVIOUS
  <2> QED
    BY <2>1, <2>2, SumFunctionIs
<1>4. \A i \in 0 .. r - 1 : f[i] \in Int /\ e[kh * r + i] = f[i]
  <2> SUFFICES ASSUME NEW i \in 0 .. r - 1 PROVE f[i] \in Int /\ e[kh * r + i] = f[i]
    OBVIOUS
  <2> DEFINE h == kh * r + i
  <2>1. h \in Heads /\ h \div r = kh
    BY <1>1
  <2>2. f[i] = a[h][c]
    OBVIOUS
  <2> HIDE DEF h, f
  <2>3. f[i] = Sum(F[h], Rows) /\ Sum(F[h], Rows) \in Int
    BY <2>1, <2>2, GridTypes
  <2> QED
    BY <2>1, <2>3 DEF h
<1> DEFINE m == kh * r
<1> HIDE DEF e, f
<1>5. m \in Int /\ r \in Nat /\ \A i \in 0 .. (r - 1) : f[i] \in Int /\ e[m + i] = f[i]
  BY <1>1, <1>4
<1> DEFINE p == r
<1> HIDE DEF m, p
<1>6. m \in Int /\ p \in Nat /\ \A i \in 0 .. (p - 1) : f[i] \in Int /\ e[m + i] = f[i]
  BY <1>5 DEF p
<1>7. Sum(e, m .. (m + p - 1)) = Sum(f, 0 .. (p - 1))
  BY <1>6, SumRenumbered
<1> QED
  BY <1>2, <1>3, <1>7 DEF m, p

\* The row when the queries of the token differ.
LEMMA RowOfQuery ==
  ASSUME NEW z \in Tensors, NEW S \in States, NEW C \in States, NEW n \in Tokens,
         NEW x, SameElsewhere(z, x, n), x.k = z.k, x.g = z.g, x.beta = z.beta, x.v = z.v,
         NEW h \in Heads, NEW w \in Rows
  PROVE  LET U == Recurrence(z, S, n)[h][w]
         IN  Value(x, S, C, n, h, w) = z.dy[n][h][w] * Row(U, Query(x, n, h)) + Row(C[h][w], U)
<1>1. x.dy = z.dy /\ x \in Tensors
  BY DEF SameElsewhere
<1>2. Recurrence(x, S, n) = Recurrence(z, S, n)
  BY DEF Recurrence
<1> QED
  BY <1>1, <1>2, ValueIs

(* In the query of a key head, over the heads it is repeated for,          *)
LEMMA InQ ==
  ASSUME NEW z \in Tensors, NEW n \in Tokens, NEW C, Adjoint(z, C, n), NEW kh \in KHeads, NEW c \in Cols
  PROVE  IsDerivative(OverGroup(CotQ(z, C, n, StateAfter(z, n - 1)))[kh][c],
                      [z EXCEPT !.q[n][kh][c] = @ + 1], [z EXCEPT !.q[n][kh][c] = @ - 1])
<1> DEFINE S == StateAfter(z, n - 1)
           x1 == [z EXCEPT !.q[n][kh][c] = @ + 1]
           x2 == [z EXCEPT !.q[n][kh][c] = @ - 1]
           U(i, j) == Recurrence(z, S, n)[i][j]
           yt == IF z.mask[n] THEN z.dy[n] ELSE NoRow
           F == [i \in Heads |-> [j \in Rows |-> IF i \div r = kh THEN U(i, j)[c] * yt[i][j] ELSE 0]]
           a == CotQ(z, C, n, S)
<1>0. C \in States /\ z.mask[n] \in BOOLEAN /\ n - 1 \in 0..T
  BY TokensAre DEF Adjoint, Tensors
<1>1. S \in States
  BY <1>0, StateAfterType
<1>2. ASSUME NEW i \in Heads, NEW j \in Rows
      PROVE  /\ U(i, j) \in Vectors /\ U(i, j)[c] \in Int /\ yt[i][j] \in Int /\ z.dy[n][i][j] \in Int
             /\ yt[i][j] = IF z.mask[n] THEN z.dy[n][i][j] ELSE 0
  <2>1. U(i, j) \in Vectors
    BY <1>1, UpdatedRow
  <2>2. U(i, j)[c] \in Int
    BY <2>1 DEF Vectors
  <2>3. z.dy[n][i][j] \in Int
    BY DEF Tensors
  <2>4. yt[i][j] = IF z.mask[n] THEN z.dy[n][i][j] ELSE 0
    BY <1>0 DEF NoRow
  <2> QED
    BY <1>0, <2>1, <2>2, <2>3, <2>4
<1>3. F \in Grids
  <2>1. ASSUME NEW i \in Heads, NEW j \in Rows PROVE U(i, j)[c] * yt[i][j] \in Int
    <3> HIDE DEF U, yt
    <3> QED
      BY <1>2
  <2> HIDE DEF U, yt
  <2> QED
    BY <2>1 DEF Grids
<1>4. OverGroup(a)[kh][c] = Grid(F)
  <2>1. ASSUME NEW i \in Heads, i \div r = kh PROVE a[i][c] = Sum(F[i], Rows)
    <3> DEFINE f == [j \in Rows |-> U(i, j)[c] * yt[i][j]]
    <3>1. Rows # {} /\ \A j \in Rows : Step(z, S, n).updated = Recurrence(z, S, n)
      <4>1. 1 \in Rows
        BY DimensionAssumption DEF Rows
      <4> QED
        BY <1>1, <4>1, StepRow
    <3>2. a[i][c] = SumFunction(f)
      BY <3>1 DEF CotQ, Transposed
    <3>3. SumFunction(f) = Sum(f, Rows)
      BY SumFunctionIs
    <3>4. F[i] = f
      BY <2>1
    <3> QED
      BY <3>2, <3>3, <3>4
  <2>2. \A i \in Heads, j \in Rows : i \div r # kh => F[i][j] = 0
    OBVIOUS
  <2> HIDE DEF F, a
  <2> QED
    BY <1>3, <2>1, <2>2, GroupSum
<1>5. /\ SameElsewhere(z, x1, n) /\ x1.k = z.k /\ x1.g = z.g /\ x1.beta = z.beta /\ x1.v = z.v
      /\ x1.q[n][kh][c] = z.q[n][kh][c] + 1
      /\ \A j \in Cols : j # c => x1.q[n][kh][j] = z.q[n][kh][j]
      /\ \A i \in KHeads : i # kh => x1.q[n][i] = z.q[n][i]
  <2> DEFINE e == z.q[n][kh][c] + 1
  <2>1. e \in Int
    BY DEF Tensors
  <2>2. x1 = [z EXCEPT !.q[n][kh][c] = e]
    OBVIOUS
  <2> HIDE DEF e, x1, S, F, U, yt, a
  <2>3. /\ SameElsewhere(z, x1, n) /\ x1.k = z.k /\ x1.g = z.g /\ x1.beta = z.beta /\ x1.v = z.v
        /\ x1.q[n][kh][c] = e
        /\ \A j \in Cols : j # c => x1.q[n][kh][j] = z.q[n][kh][j]
        /\ \A i \in KHeads : i # kh => x1.q[n][i] = z.q[n][i]
    BY <2>1, <2>2, NewQ
  <2> QED
    BY <2>3 DEF e
<1>6. /\ SameElsewhere(z, x2, n) /\ x2.k = z.k /\ x2.g = z.g /\ x2.beta = z.beta /\ x2.v = z.v
      /\ x2.q[n][kh][c] = z.q[n][kh][c] - 1
      /\ \A j \in Cols : j # c => x2.q[n][kh][j] = z.q[n][kh][j]
      /\ \A i \in KHeads : i # kh => x2.q[n][i] = z.q[n][i]
  <2> DEFINE e == z.q[n][kh][c] - 1
  <2>1. e \in Int
    BY DEF Tensors
  <2>2. x2 = [z EXCEPT !.q[n][kh][c] = e]
    OBVIOUS
  <2> HIDE DEF e, x2, S, F, U, yt, a
  <2>3. /\ SameElsewhere(z, x2, n) /\ x2.k = z.k /\ x2.g = z.g /\ x2.beta = z.beta /\ x2.v = z.v
        /\ x2.q[n][kh][c] = e
        /\ \A j \in Cols : j # c => x2.q[n][kh][j] = z.q[n][kh][j]
        /\ \A i \in KHeads : i # kh => x2.q[n][i] = z.q[n][i]
    BY <2>1, <2>2, NewQ
  <2> QED
    BY <2>3 DEF e
<1> HIDE DEF x1, x2
<1>7. Gains(z, C, n, x1, x2, F)
  <2> SUFFICES ASSUME NEW i \in Heads, NEW j \in Rows
               PROVE  IF z.mask[n] THEN Value(x1, S, C, n, i, j) = Value(x2, S, C, n, i, j) + 2 * F[i][j]
                                   ELSE F[i][j] = 0
    BY DEF Gains
  <2>1. CASE ~z.mask[n]
    <3>1. yt[i][j] = 0 /\ U(i, j)[c] \in Int
      BY <1>2, <2>1
    <3>2. F[i][j] = IF i \div r = kh THEN U(i, j)[c] * yt[i][j] ELSE 0
      OBVIOUS
    <3> HIDE DEF U, yt, F
    <3>3. U(i, j)[c] * yt[i][j] = 0
      BY <3>1
    <3> QED
      BY <2>1, <3>2, <3>3
  <2>2. CASE z.mask[n]
    <3> DEFINE u == U(i, j)
               Y == z.dy[n][i][j]
               q0 == Query(z, n, i)
               q1 == Query(x1, n, i)
               q2 == Query(x2, n, i)
               R == Row(C[i][j], u)
    <3>1. /\ Value(x1, S, C, n, i, j) = Y * Row(u, q1) + R
          /\ Value(x2, S, C, n, i, j) = Y * Row(u, q2) + R
      BY <1>0, <1>1, <1>5, <1>6, RowOfQuery
    <3>2. x1 \in Tensors /\ x2 \in Tensors
      BY <1>5, <1>6 DEF SameElsewhere
    <3>3. u \in Vectors /\ Y \in Int /\ R \in Int /\ u[c] \in Int /\ q0 \in Vectors /\ q1 \in Vectors /\ q2 \in Vectors
      <4>1. C[i][j] \in Vectors /\ u \in Vectors /\ Y \in Int /\ u[c] \in Int
        BY <1>0, <1>2, RowTypes
      <4>2. q0 \in Vectors /\ q1 \in Vectors /\ q2 \in Vectors
        BY <1>0, <3>2, RowTypes
      <4>3. R \in Int
        BY <4>1, RowType
      <4> QED
        BY <4>1, <4>2, <4>3
    <3>4. i \div r \in KHeads
      BY KeyHeadIs
    <3>5. CASE i \div r = kh
      <4>1. /\ q1[c] = q0[c] + 1 /\ q2[c] = q0[c] - 1 /\ q0[c] \in Int
            /\ \A m \in Cols : m # c => q1[m] = q2[m]
        BY <1>5, <1>6, <3>3, <3>5 DEF Query, Vectors
      <4>2. F[i][j] = u[c] * Y
        BY <1>2, <2>2, <3>5
      <4> HIDE DEF u, Y, q0, q1, q2, R, F, S, U, yt
      <4>3. Row(u, q1) = Row(u, q2) + u[c] * (q1[c] - q2[c])
        BY <3>3, <4>1, RowBumped
      <4>4. q1[c] - q2[c] = 2
        BY <4>1
      <4>5. Row(u, q1) = Row(u, q2) + u[c] * 2 /\ Row(u, q2) \in Int
        BY <3>3, <4>3, <4>4, RowType
      <4>6. \A X, V \in Int : Y * (X + V * 2) + R = (Y * X + R) + 2 * (V * Y)
        BY <3>3
      <4> QED
        BY <2>2, <3>1, <3>3, <4>2, <4>5, <4>6
    <3>6. CASE i \div r # kh
      <4>1. q1 = q0 /\ q2 = q0 /\ F[i][j] = 0
        BY <1>5, <1>6, <3>4, <3>6 DEF Query
      <4> HIDE DEF u, Y, q0, q1, q2, R, F, S, U, yt
      <4>2. Row(u, q0) \in Int
        BY <3>3, RowType
      <4>3. Y * Row(u, q0) + R \in Int
        BY <3>3, <4>2
      <4> QED
        BY <2>2, <3>1, <4>1, <4>3
    <3> QED
      BY <3>5, <3>6
  <2> QED
    BY <1>0, <2>1, <2>2
<1> HIDE DEF F
<1>8. IsDerivative(Grid(F), x1, x2)
  BY <1>3, <1>5, <1>6, <1>7, TokenDerivative
<1> QED
  BY <1>4, <1>8 DEF x1, x2

\* The row when the keys of the token differ.
LEMMA RowOfKey ==
  ASSUME NEW z \in Tensors, NEW S \in States, NEW C \in States, NEW n \in Tokens, z.mask[n],
         NEW x, SameElsewhere(z, x, n), x.q = z.q, x.g = z.g, x.beta = z.beta, x.v = z.v,
         NEW h \in Heads, NEW w \in Rows
  PROVE  Value(x, S, C, n, h, w) =
           Product(z.g[n][h], Row(Du(z, C, n)[h][w], S[h][w]), z.beta[n][h], z.v[n][h][w],
                   Row(S[h][w], Key(x, n, h)), Row(Du(z, C, n)[h][w], Key(x, n, h)))
<1>1. x.dy = z.dy
  BY DEF SameElsewhere
<1>2. Weight(x, C, n, h, w) = Weight(z, C, n, h, w)
  BY <1>1 DEF Weight, Query
<1>3. Du(z, C, n)[h][w] = Weight(z, C, n, h, w)
  BY WeightIsDu
<1> QED
  BY <1>2, <1>3 DEF Value

\* A step up and a step down of the retrieved value and of the weight.
KeyGain(G, B, V, Q, D, s0, d0) == d0 * (B * (V - G * Q)) + (G * s0) * (0 - B * D)

LEMMA ProductBumped ==
  ASSUME NEW G \in Int, NEW A \in Int, NEW B \in Int, NEW V \in Int, NEW Q \in Int, NEW D \in Int,
         NEW s0 \in Int, NEW d0 \in Int
  PROVE  Product(G, A, B, V, Q + s0, D + d0)
           = Product(G, A, B, V, Q - s0, D - d0) + 2 * KeyGain(G, B, V, Q, D, s0, d0)
<1> DEFINE E == B * V - G * B * Q
           X == G * B * s0
<1>1. E \in Int /\ X \in Int /\ G * A \in Int
  OBVIOUS
<1>2. B * V - G * B * (Q + s0) = E - X /\ B * V - G * B * (Q - s0) = E + X
  <2>1. G * B \in Int
    OBVIOUS
  <2> DEFINE M == G * B
  <2>2. M * (Q + s0) = M * Q + M * s0 /\ M * (Q - s0) = M * Q - M * s0 /\ M * Q \in Int /\ M * s0 \in Int /\ B * V \in Int
    <3> HIDE DEF M
    <3>1. M \in Int
      BY <2>1 DEF M
    <3> QED
      BY <3>1
  <2> QED
    BY <2>2
<1>3. d0 * (B * (V - G * Q)) = d0 * E
  <2>1. B * (V - G * Q) = E
    OBVIOUS
  <2> QED
    BY <2>1
<1>4. (G * s0) * (0 - B * D) = 0 - X * D
  OBVIOUS
<1> HIDE DEF E, X
<1>5. (E - X) * (D + d0) = (E + X) * (D - d0) + 2 * (d0 * E + (0 - X * D))
  BY <1>1
<1>6. (E - X) * (D + d0) \in Int /\ (E + X) * (D - d0) \in Int /\ d0 * E + (0 - X * D) \in Int
  BY <1>1
<1> QED
  BY <1>1, <1>2, <1>3, <1>4, <1>5, <1>6 DEF Product, KeyGain

(* and in its key.                                                         *)
LEMMA InK ==
  ASSUME NEW z \in Tensors, NEW n \in Tokens, NEW C, Adjoint(z, C, n), NEW kh \in KHeads, NEW c \in Cols
  PROVE  IsDerivative(OverGroup(CotK(z, C, n, StateAfter(z, n - 1)))[kh][c],
                      [z EXCEPT !.k[n][kh][c] = @ + 1], [z EXCEPT !.k[n][kh][c] = @ - 1])
<1> DEFINE S == StateAfter(z, n - 1)
           x1 == [z EXCEPT !.k[n][kh][c] = @ + 1]
           x2 == [z EXCEPT !.k[n][kh][c] = @ - 1]
           W(i, j) == Du(z, C, n)[i][j]
           Q(i, j) == Row(S[i][j], Key(z, n, i))
           D(i, j) == Row(W(i, j), Key(z, n, i))
           Fd(i, j) == W(i, j)[c] * (z.beta[n][i] * (z.v[n][i][j] - z.g[n][i] * Q(i, j)))
           Fr(i, j) == (z.g[n][i] * S[i][j][c]) * (0 - z.beta[n][i] * D(i, j))
           F == [i \in Heads |-> [j \in Rows |-> IF i \div r = kh THEN Fd(i, j) + Fr(i, j) ELSE 0]]
           a == CotK(z, C, n, S)
<1>0. C \in States /\ z.mask[n] \in BOOLEAN /\ n - 1 \in 0..T
  BY TokensAre DEF Adjoint, Tensors
<1>1. S \in States
  BY <1>0, StateAfterType
<1>2. ASSUME NEW i \in Heads, NEW j \in Rows
      PROVE  /\ Q(i, j) \in Int /\ D(i, j) \in Int /\ Row(W(i, j), S[i][j]) \in Int
             /\ z.g[n][i] \in Int /\ z.beta[n][i] \in Int /\ z.v[n][i][j] \in Int
             /\ W(i, j) \in Vectors /\ S[i][j] \in Vectors /\ W(i, j)[c] \in Int /\ S[i][j][c] \in Int
             /\ (~z.mask[n] => W(i, j)[c] = 0 /\ D(i, j) = 0)
  <2>1. W(i, j) \in Vectors /\ (~z.mask[n] => W(i, j)[c] = 0)
    BY <1>0, WeightIsDu
  <2>2. S[i][j] \in Vectors
    BY <1>1 DEF States, Vectors
  <2>3. W(i, j)[c] \in Int /\ S[i][j][c] \in Int
    BY <2>1, <2>2 DEF Vectors
  <2> QED
    BY <1>0, <1>1, <2>1, <2>2, <2>3, RowNumbers
<1>3. ASSUME NEW i \in Heads, NEW j \in Rows PROVE Fd(i, j) \in Int /\ Fr(i, j) \in Int
  <2> HIDE DEF W, Q, D
  <2>1. z.v[n][i][j] - z.g[n][i] * Q(i, j) \in Int /\ z.beta[n][i] * D(i, j) \in Int
    BY <1>2
  <2> QED
    BY <1>2, <2>1
<1>4. F \in Grids
  <2> HIDE DEF Fd, Fr
  <2>1. \A i \in Heads, j \in Rows : Fd(i, j) + Fr(i, j) \in Int
    BY <1>3
  <2> QED
    BY <2>1 DEF Grids
<1>5. OverGroup(a)[kh][c] = Grid(F)
  <2>1. ASSUME NEW i \in Heads, i \div r = kh PROVE a[i][c] = Sum(F[i], Rows)
    <3> DEFINE fd == [j \in Rows |-> Du(z, C, n)[i][j][c] * Step(z, S, n).delta[i][j]]
               fr == [j \in Rows |-> Step(z, S, n).decayed[i][j][c] * Dr(z, C, n)[i][j]]
               f == [j \in Rows |-> Fd(i, j) + Fr(i, j)]
    <3>1. a[i][c] = SumFunction(fd) + SumFunction(fr)
      BY DEF CotK, Transposed
    <3>2. SumFunction(fd) = Sum(fd, Rows) /\ SumFunction(fr) = Sum(fr, Rows)
      BY SumFunctionIs
    <3>3. F[i] = f
      BY <2>1
    <3>4. ASSUME NEW j \in Rows PROVE fd[j] = Fd(i, j) /\ fr[j] = Fr(i, j)
      <4>1. /\ Step(z, S, n).delta[i][j] = z.beta[n][i] * (z.v[n][i][j] - z.g[n][i] * Q(i, j))
            /\ Step(z, S, n).decayed[i][j][c] = z.g[n][i] * S[i][j][c]
        BY <1>1, StepRow
      <4>2. Dr(z, C, n)[i][j] = 0 - z.beta[n][i] * D(i, j)
        BY <1>0, BackRow
      <4> QED
        BY <4>1, <4>2
    <3>5. \A j \in Rows : fd[j] \in Int /\ fr[j] \in Int /\ f[j] = fd[j] + fr[j]
      <4> SUFFICES ASSUME NEW j \in Rows PROVE fd[j] \in Int /\ fr[j] \in Int /\ f[j] = fd[j] + fr[j]
        OBVIOUS
      <4>1. fd[j] = Fd(i, j) /\ fr[j] = Fr(i, j)
        BY <3>4
      <4>2. f[j] = Fd(i, j) + Fr(i, j)
        OBVIOUS
      <4> HIDE DEF Fd, Fr, fd, fr, f
      <4> QED
        BY <1>3, <4>1, <4>2
    <3> HIDE DEF fd, fr, f, F, a
    <3>6. Sum(f, Rows) = Sum(fd, Rows) + Sum(fr, Rows)
      BY <3>5, AllFinite, SumAdded
    <3> QED
      BY <3>1, <3>2, <3>3, <3>6
  <2>2. \A i \in Heads, j \in Rows : i \div r # kh => F[i][j] = 0
    OBVIOUS
  <2> HIDE DEF F, a
  <2> QED
    BY <1>4, <2>1, <2>2, GroupSum
<1>6. /\ SameElsewhere(z, x1, n) /\ x1.q = z.q /\ x1.g = z.g /\ x1.beta = z.beta /\ x1.v = z.v
      /\ x1.k[n][kh][c] = z.k[n][kh][c] + 1
      /\ \A j \in Cols : j # c => x1.k[n][kh][j] = z.k[n][kh][j]
      /\ \A i \in KHeads : i # kh => x1.k[n][i] = z.k[n][i]
  <2> DEFINE e == z.k[n][kh][c] + 1
  <2>1. e \in Int
    BY DEF Tensors
  <2>2. x1 = [z EXCEPT !.k[n][kh][c] = e]
    OBVIOUS
  <2> HIDE DEF e, x1, S, F, W, Q, D, Fd, Fr, a
  <2>3. /\ SameElsewhere(z, x1, n) /\ x1.q = z.q /\ x1.g = z.g /\ x1.beta = z.beta /\ x1.v = z.v
        /\ x1.k[n][kh][c] = e
        /\ \A j \in Cols : j # c => x1.k[n][kh][j] = z.k[n][kh][j]
        /\ \A i \in KHeads : i # kh => x1.k[n][i] = z.k[n][i]
    BY <2>1, <2>2, NewK
  <2> QED
    BY <2>3 DEF e
<1>7. /\ SameElsewhere(z, x2, n) /\ x2.q = z.q /\ x2.g = z.g /\ x2.beta = z.beta /\ x2.v = z.v
      /\ x2.k[n][kh][c] = z.k[n][kh][c] - 1
      /\ \A j \in Cols : j # c => x2.k[n][kh][j] = z.k[n][kh][j]
      /\ \A i \in KHeads : i # kh => x2.k[n][i] = z.k[n][i]
  <2> DEFINE e == z.k[n][kh][c] - 1
  <2>1. e \in Int
    BY DEF Tensors
  <2>2. x2 = [z EXCEPT !.k[n][kh][c] = e]
    OBVIOUS
  <2> HIDE DEF e, x2, S, F, W, Q, D, Fd, Fr, a
  <2>3. /\ SameElsewhere(z, x2, n) /\ x2.q = z.q /\ x2.g = z.g /\ x2.beta = z.beta /\ x2.v = z.v
        /\ x2.k[n][kh][c] = e
        /\ \A j \in Cols : j # c => x2.k[n][kh][j] = z.k[n][kh][j]
        /\ \A i \in KHeads : i # kh => x2.k[n][i] = z.k[n][i]
    BY <2>1, <2>2, NewK
  <2> QED
    BY <2>3 DEF e
<1> HIDE DEF x1, x2
<1>8. Gains(z, C, n, x1, x2, F)
  <2> SUFFICES ASSUME NEW i \in Heads, NEW j \in Rows
               PROVE  IF z.mask[n] THEN Value(x1, S, C, n, i, j) = Value(x2, S, C, n, i, j) + 2 * F[i][j]
                                   ELSE F[i][j] = 0
    BY DEF Gains
  <2> DEFINE A == Row(W(i, j), S[i][j])
             G == z.g[n][i]
             B == z.beta[n][i]
             V == z.v[n][i][j]
             q0 == Q(i, j)
             p0 == D(i, j)
             d0 == W(i, j)[c]
             s0 == S[i][j][c]
  <2>1. /\ A \in Int /\ G \in Int /\ B \in Int /\ V \in Int /\ q0 \in Int /\ p0 \in Int /\ d0 \in Int /\ s0 \in Int
        /\ ~z.mask[n] => d0 = 0 /\ p0 = 0
    BY <1>2
  <2>2. F[i][j] = IF i \div r = kh THEN d0 * (B * (V - G * q0)) + (G * s0) * (0 - B * p0) ELSE 0
    OBVIOUS
  <2>3. CASE ~z.mask[n]
    <3> HIDE DEF A, G, B, V, q0, p0, d0, s0, F
    <3>1. d0 * (B * (V - G * q0)) + (G * s0) * (0 - B * p0) = 0
      <4>1. V - G * q0 \in Int /\ d0 = 0 /\ p0 = 0 /\ G * s0 \in Int
        BY <2>1, <2>3
      <4> QED
        BY <2>1, <4>1
    <3> QED
      BY <2>2, <2>3, <3>1
  <2>4. CASE z.mask[n]
    <3> DEFINE k0 == Key(z, n, i)
               k1 == Key(x1, n, i)
               k2 == Key(x2, n, i)
               u == W(i, j)
               x == S[i][j]
    <3>1. /\ Value(x1, S, C, n, i, j) = Product(G, A, B, V, Row(x, k1), Row(u, k1))
          /\ Value(x2, S, C, n, i, j) = Product(G, A, B, V, Row(x, k2), Row(u, k2))
      BY <1>0, <1>1, <1>6, <1>7, <2>4, RowOfKey
    <3>2. x1 \in Tensors /\ x2 \in Tensors
      BY <1>6, <1>7 DEF SameElsewhere
    <3>3. u \in Vectors /\ x \in Vectors /\ k0 \in Vectors /\ k1 \in Vectors /\ k2 \in Vectors
      <4>1. k0 \in Vectors /\ k1 \in Vectors /\ k2 \in Vectors
        BY <1>0, <3>2, RowTypes
      <4> QED
        BY <1>2, <4>1
    <3>4. i \div r \in KHeads
      BY KeyHeadIs
    <3>5. q0 = Row(x, k0) /\ p0 = Row(u, k0) /\ d0 = u[c] /\ s0 = x[c]
      OBVIOUS
    <3>6. CASE i \div r = kh
      <4>1. /\ k1[c] = k0[c] + 1 /\ k2[c] = k0[c] - 1 /\ k0[c] \in Int
            /\ \A m \in Cols : m # c => k1[m] = k0[m] /\ k2[m] = k0[m]
        BY <1>6, <1>7, <3>3, <3>6 DEF Key, Vectors
      <4> HIDE DEF A, G, B, V, q0, p0, d0, s0, F, k0, k1, k2, u, x
      <4>2. k1[c] - k0[c] = 1 /\ k2[c] - k0[c] = 0 - 1
        BY <4>1
      <4>3. /\ Row(x, k1) = Row(x, k0) + x[c] * (k1[c] - k0[c])
            /\ Row(x, k2) = Row(x, k0) + x[c] * (k2[c] - k0[c])
            /\ Row(u, k1) = Row(u, k0) + u[c] * (k1[c] - k0[c])
            /\ Row(u, k2) = Row(u, k0) + u[c] * (k2[c] - k0[c])
        BY <3>3, <4>1, RowBumped
      <4>4. s0 * 1 = s0 /\ s0 * (0 - 1) = 0 - s0 /\ d0 * 1 = d0 /\ d0 * (0 - 1) = 0 - d0
        BY <2>1
      <4>5. /\ Row(x, k1) = q0 + s0 /\ Row(x, k2) = q0 - s0
            /\ Row(u, k1) = p0 + d0 /\ Row(u, k2) = p0 - d0
        BY <2>1, <3>5, <4>2, <4>3, <4>4
      <4>6. Product(G, A, B, V, q0 + s0, p0 + d0) = Product(G, A, B, V, q0 - s0, p0 - d0)
              + 2 * KeyGain(G, B, V, q0, p0, s0, d0)
        BY <2>1, ProductBumped
      <4>7. F[i][j] = KeyGain(G, B, V, q0, p0, s0, d0)
        BY <2>2, <3>6 DEF KeyGain
      <4> QED
        BY <2>4, <3>1, <4>5, <4>6, <4>7
    <3>7. CASE i \div r # kh
      <4>1. k1 = k0 /\ k2 = k0
        BY <1>6, <1>7, <3>4, <3>7 DEF Key
      <4> HIDE DEF A, G, B, V, q0, p0, d0, s0, F, k0, k1, k2, u, x
      <4>2. Product(G, A, B, V, q0, p0) \in Int
        BY <2>1 DEF Product
      <4>3. F[i][j] = 0
        BY <2>2, <3>7
      <4> QED
        BY <2>4, <3>1, <3>5, <4>1, <4>2, <4>3
    <3> QED
      BY <3>6, <3>7
  <2> QED
    BY <1>0, <2>3, <2>4
<1> HIDE DEF F
<1>9. IsDerivative(Grid(F), x1, x2)
  BY <1>4, <1>6, <1>7, <1>8, TokenDerivative
<1> QED
  BY <1>5, <1>9 DEF x1, x2

(* The derivative in the state the first token is given.                   *)

\* S1 and S2 are the same but for one element.
SameBut(S1, S2, h, w, c) ==
  \A i \in Heads, j \in Rows, m \in Cols : i # h \/ j # w \/ m # c => S1[i][j][m] = S2[i][j][m]

(* What a state is worth when one element changes.                         *)
LEMMA PairBumped ==
  ASSUME NEW C \in States, NEW S1 \in States, NEW S2 \in States,
         NEW h \in Heads, NEW w \in Rows, NEW c \in Cols,
         SameBut(S1, S2, h, w, c)
  PROVE  Pair(C, S1) = Pair(C, S2) + C[h][w][c] * (S1[h][w][c] - S2[h][w][c])
<1>1. ASSUME NEW i \in Heads, NEW j \in Rows
      PROVE  /\ C[i][j] \in Vectors /\ S1[i][j] \in Vectors /\ S2[i][j] \in Vectors
             /\ Row(C[i][j], S1[i][j]) \in Int /\ Row(C[i][j], S2[i][j]) \in Int
             /\ i # h \/ j # w => S1[i][j] = S2[i][j]
  <2>1. C[i][j] \in Vectors /\ S1[i][j] \in Vectors /\ S2[i][j] \in Vectors
    BY DEF States, Vectors
  <2>2. ASSUME i # h \/ j # w PROVE S1[i][j] = S2[i][j]
    <3>1. \A m \in Cols : S1[i][j][m] = S2[i][j][m]
      BY <2>2 DEF SameBut
    <3> QED
      BY <2>1, <3>1 DEF Vectors
  <2> QED
    BY <2>1, <2>2, RowType
<1>2. Row(C[h][w], S1[h][w]) = Row(C[h][w], S2[h][w]) + C[h][w][c] * (S1[h][w][c] - S2[h][w][c])
  <2>1. C[h][w] \in Vectors /\ S1[h][w] \in Vectors /\ S2[h][w] \in Vectors
    BY <1>1
  <2>2. \A m \in Cols : m # c => S1[h][w][m] = S2[h][w][m]
    BY DEF SameBut
  <2> DEFINE x == C[h][w]
             s1 == S1[h][w]
             s2 == S2[h][w]
  <2> HIDE DEF x, s1, s2
  <2>3. Row(x, s1) = Row(x, s2) + x[c] * (s1[c] - s2[c])
    BY <2>1, <2>2, RowBumped DEF x, s1, s2
  <2> QED
    BY <2>3 DEF x, s1, s2
<1>3. Inner(C, S1)[h] = Inner(C, S2)[h] + (Row(C[h][w], S1[h][w]) - Row(C[h][w], S2[h][w]))
  <2> DEFINE f1 == [j \in Rows |-> Row(C[h][j], S1[h][j])]
             f2 == [j \in Rows |-> Row(C[h][j], S2[h][j])]
  <2>1. Inner(C, S1)[h] = Sum(f1, Rows) /\ Inner(C, S2)[h] = Sum(f2, Rows)
    BY InnerIs
  <2>2. \A j \in Rows : f1[j] \in Int /\ f2[j] \in Int /\ (j # w => f1[j] = f2[j])
    BY <1>1
  <2>3. f1[w] = Row(C[h][w], S1[h][w]) /\ f2[w] = Row(C[h][w], S2[h][w])
    OBVIOUS
  <2> HIDE DEF f1, f2
  <2>a. (\A j \in Rows : f2[j] \in Int /\ f1[j] \in Int) /\ (\A j \in Rows : j # w => f1[j] = f2[j])
    BY <2>2
  <2>4. Sum(f1, Rows) = Sum(f2, Rows) + (f1[w] - f2[w])
    BY <2>a, AllFinite, SumBumped
  <2> QED
    BY <2>1, <2>3, <2>4
<1>4. ASSUME NEW i \in Heads, i # h PROVE Inner(C, S1)[i] = Inner(C, S2)[i]
  <2>1. \A j \in Rows : S1[i][j] = S2[i][j]
    BY <1>1, <1>4
  <2>2. [j \in Rows |-> Row(C[i][j], S1[i][j])] = [j \in Rows |-> Row(C[i][j], S2[i][j])]
    BY <2>1
  <2>3. /\ Inner(C, S1)[i] = Sum([j \in Rows |-> Row(C[i][j], S1[i][j])], Rows)
        /\ Inner(C, S2)[i] = Sum([j \in Rows |-> Row(C[i][j], S2[i][j])], Rows)
    BY InnerIs
  <2> QED
    BY <2>2, <2>3
<1> DEFINE I1 == Inner(C, S1)
           I2 == Inner(C, S2)
<1>5. \A i \in Heads : I1[i] \in Int /\ I2[i] \in Int /\ (i # h => I1[i] = I2[i])
  BY <1>4, InnerIs
<1>6. Pair(C, S1) = Sum(I1, Heads) /\ Pair(C, S2) = Sum(I2, Heads)
  BY InnerIs
<1> DEFINE r1 == Row(C[h][w], S1[h][w])
           r2 == Row(C[h][w], S2[h][w])
           p == C[h][w][c] * (S1[h][w][c] - S2[h][w][c])
<1>7. r1 \in Int /\ r2 \in Int /\ r1 = r2 + p /\ I1[h] = I2[h] + (r1 - r2) /\ p \in Int
  <2>1. C[h][w][c] \in Int /\ S1[h][w][c] \in Int /\ S2[h][w][c] \in Int
    BY DEF States
  <2> QED
    BY <1>1, <1>2, <1>3, <2>1
<1> HIDE DEF I1, I2, r1, r2, p
<1>a. (\A i \in Heads : I2[i] \in Int /\ I1[i] \in Int) /\ (\A i \in Heads : i # h => I1[i] = I2[i])
  BY <1>5
<1>8. Sum(I1, Heads) = Sum(I2, Heads) + (I1[h] - I2[h])
  BY <1>a, AllFinite, SumBumped
<1>9. I1[h] - I2[h] = p
  BY <1>5, <1>7
<1> QED
  BY <1>6, <1>8, <1>9 DEF p

(* The state before the first token.                                       *)
LEMMA OtherState ==
  ASSUME NEW z \in Tensors, NEW h \in Heads, NEW w \in Rows, NEW c \in Cols, NEW e \in Int
  PROVE  LET x == [z EXCEPT !.state[h][w][c] = e]
         IN  /\ x \in Tensors /\ SameAfter(z, x, 0)
             /\ x.state \in States /\ x.state[h][w][c] = e
             /\ SameBut(x.state, z.state, h, w, c)
<1> DEFINE x == [z EXCEPT !.state[h][w][c] = e]
<1>1. /\ x.q = z.q /\ x.k = z.k /\ x.v = z.v /\ x.g = z.g /\ x.beta = z.beta
      /\ x.mask = z.mask /\ x.dy = z.dy /\ x.ds = z.ds
  BY DEF Tensors
<1>2. x.state = [z.state EXCEPT ![h][w][c] = e] /\ z.state \in States
  BY DEF Tensors
<1>3. x.state \in States
  BY <1>2 DEF States
<1>4. x \in Tensors
  BY <1>1, <1>3 DEF Tensors
<1>5. SameAfter(z, x, 0)
  BY <1>1 DEF SameAfter
<1>6. x.state[h][w][c] = e /\ SameBut(x.state, z.state, h, w, c)
  BY <1>2 DEF States, SameBut
<1> QED
  BY <1>3, <1>4, <1>5, <1>6

LEMMA InState ==
  ASSUME NEW z \in Tensors, NEW C, Adjoint(z, C, 0), NEW h \in Heads, NEW w \in Rows, NEW c \in Cols
  PROVE  IsDerivative(C[h][w][c],
                      [z EXCEPT !.state[h][w][c] = @ + 1], [z EXCEPT !.state[h][w][c] = @ - 1])
<1> DEFINE x1 == [z EXCEPT !.state[h][w][c] = @ + 1]
           x2 == [z EXCEPT !.state[h][w][c] = @ - 1]
           v0 == z.state[h][w][c]
<1>0. C \in States /\ v0 \in Int /\ C[h][w][c] \in Int
  BY DEF Adjoint, Tensors, States
<1>1. /\ x1 \in Tensors /\ SameAfter(z, x1, 0) /\ x1.state \in States /\ x1.state[h][w][c] = v0 + 1
      /\ SameBut(x1.state, z.state, h, w, c)
  <2> DEFINE e == v0 + 1
  <2>1. e \in Int
    BY <1>0
  <2>2. x1 = [z EXCEPT !.state[h][w][c] = e]
    OBVIOUS
  <2> HIDE DEF e, x1, v0
  <2>3. /\ x1 \in Tensors /\ SameAfter(z, x1, 0) /\ x1.state \in States /\ x1.state[h][w][c] = e
        /\ SameBut(x1.state, z.state, h, w, c)
    BY <2>1, <2>2, OtherState
  <2> QED
    BY <2>3 DEF e
<1>2. /\ x2 \in Tensors /\ SameAfter(z, x2, 0) /\ x2.state \in States /\ x2.state[h][w][c] = v0 - 1
      /\ SameBut(x2.state, z.state, h, w, c)
  <2> DEFINE e == v0 - 1
  <2>1. e \in Int
    BY <1>0
  <2>2. x2 = [z EXCEPT !.state[h][w][c] = e]
    OBVIOUS
  <2> HIDE DEF e, x2, v0
  <2>3. /\ x2 \in Tensors /\ SameAfter(z, x2, 0) /\ x2.state \in States /\ x2.state[h][w][c] = e
        /\ SameBut(x2.state, z.state, h, w, c)
    BY <2>1, <2>2, OtherState
  <2> QED
    BY <2>3 DEF e
<1> HIDE DEF x1, x2, v0
<1>3. Loss(x1) - Loss(x2) = Pair(C, x1.state) - Pair(C, x2.state)
  BY <1>1, <1>2, LossIs, NoToken DEF Adjoint
<1> DEFINE S1 == x1.state
           S2 == x2.state
<1>4. /\ S1 \in States /\ S2 \in States /\ S1[h][w][c] = v0 + 1 /\ S2[h][w][c] = v0 - 1
      /\ SameBut(S1, S2, h, w, c)
  BY <1>1, <1>2 DEF SameBut
<1> HIDE DEF S1, S2
<1>5. Pair(C, S1) = Pair(C, S2) + C[h][w][c] * (S1[h][w][c] - S2[h][w][c])
  BY <1>0, <1>4, PairBumped
<1>6. S1[h][w][c] - S2[h][w][c] = 2
  BY <1>0, <1>4
<1>7. Pair(C, S1) - Pair(C, S2) = 2 * C[h][w][c]
  <2>1. Pair(C, S2) \in Int
    BY <1>0, <1>4, InnerIs
  <2> QED
    BY <1>0, <1>5, <1>6, <2>1
<1>8. 2 * C[h][w][c] = Loss(x1) - Loss(x2)
  BY <1>3, <1>7 DEF S1, S2
<1> QED
  BY <1>8 DEF IsDerivative, x1, x2

----------------------------------------------------------------------------
(* The calls of gdn_vjp.                                                   *)

Steps == {Step(z, S, n) : z \in Tensors, S \in States, n \in Tokens}

\* carry is the cotangent of the state after token Frontier, and the tokens
\* after Frontier have theirs; those after Finished have been returned.
Frontier == IF ~Recording THEN T
            ELSE IF phase = "forward" THEN Piece.hi
            ELSE IF phase = "backward" THEN t
            ELSE Piece.lo - 1
Finished == IF ~Recording THEN T
            ELSE IF phase \in {"forward", "backward"} THEN Piece.hi
            ELSE Piece.lo - 1

PiecesMeet == /\ \A i \in 1..Len(pieces) : pieces[i].lo = IF i = 1 THEN 1 ELSE pieces[i - 1].hi + 1
              /\ Recording => Processed = T
              /\ phase = "done" => at = 1

\* The states that are recorded are those of the one pass.
TraceRight ==
  /\ trace \in Seq(Steps)
  /\ Recording /\ phase = "forward" => Len(trace) = t - Piece.lo
  /\ phase = "backward" => Len(trace) = Piece.hi - Piece.lo + 1 /\ t \in Piece.lo - 1 .. Piece.hi
  /\ Recording /\ phase \in {"forward", "backward"} =>
       \A i \in 1..Len(trace) :
         trace[i] = Step(args, StateAfter(args, Piece.lo + i - 2), Piece.lo + i - 1)

CarryRight == Adjoint(args, carry, Frontier)

CotsType ==
  /\ cots = [qr |-> cots.qr, kr |-> cots.kr, v |-> cots.v, g |-> cots.g, beta |-> cots.beta]
  /\ cots.qr = [n \in Tokens |-> cots.qr[n]] /\ cots.kr = [n \in Tokens |-> cots.kr[n]]
  /\ cots.v = [n \in Tokens |-> cots.v[n]] /\ cots.g = [n \in Tokens |-> cots.g[n]]
  /\ cots.beta = [n \in Tokens |-> cots.beta[n]]

CotsOf(C, n) ==
  LET S == StateAfter(args, n - 1)
  IN  /\ Adjoint(args, C, n)
      /\ cots.qr[n] = CotQ(args, C, n, S) /\ cots.kr[n] = CotK(args, C, n, S)
      /\ cots.v[n] = DValue(args, C, n)
      /\ cots.g[n] = CotG(args, C, n, S) /\ cots.beta[n] = CotBeta(args, C, n, S)

CotsRight == CotsType /\ \A n \in Tokens : n > Frontier => \E C : CotsOf(C, n)

GradsRight == \A n \in Tokens : n > Finished =>
                grads.q[n] = OverGroup(cots.qr[n]) /\ grads.k[n] = OverGroup(cots.kr[n])

BackInv == PiecesMeet /\ TraceRight /\ CarryRight /\ CotsRight /\ GradsRight

\* What a state and one of its successors need to know of the calls.
LEMMA Facts ==
  ASSUME OracleInv
  PROVE  /\ args \in Tensors /\ T \in Nat \ {0} /\ Tokens = 1..T
         /\ Len(pieces) \in Nat /\ at \in 0..Len(pieces) /\ t \in Int
         /\ Processed = (IF Len(pieces) = 0 THEN 0 ELSE pieces[Len(pieces)].hi)
         /\ \A i \in 1..Len(pieces) : /\ pieces[i].lo \in Tokens /\ pieces[i].hi \in Tokens
                                      /\ pieces[i].lo <= pieces[i].hi
         /\ Recording => Piece = pieces[at] /\ at \in 1..Len(pieces)
         /\ phase \in {"idle", "forward", "backward", "done"}
         /\ phase = "backward" => Recording
<1>1. OracleType /\ CallsRight /\ AtToken
  BY DEF OracleInv
<1>2. Len(pieces) \in Nat /\ at \in 0..Len(pieces) /\ t \in Int /\ phase \in {"idle", "forward", "backward", "done"}
  BY <1>1 DEF OracleType
<1>3. Recording => Piece = pieces[at] /\ at \in 1..Len(pieces)
  BY <1>2 DEF Recording, Piece
<1>4. \A i \in 1..Len(pieces) : pieces[i].lo <= pieces[i].hi
  BY <1>1 DEF CallsRight
<1>5. phase = "backward" => Recording
  BY <1>1 DEF AtToken
<1>6. /\ args \in Tensors /\ T \in Nat \ {0} /\ Tokens = 1..T
      /\ Processed = (IF Len(pieces) = 0 THEN 0 ELSE pieces[Len(pieces)].hi)
      /\ \A i \in 1..Len(pieces) : pieces[i].lo \in Tokens /\ pieces[i].hi \in Tokens
  BY <1>1, ProcessedIs
<1> QED
  BY <1>2, <1>3, <1>4, <1>5, <1>6

(* Before any call.                                                        *)
LEMMA BackBegins == ASSUME OracleInit PROVE BackInv
<1>1. /\ pieces = <<>> /\ at = 0 /\ phase = "idle" /\ trace = <<>> /\ carry = args.ds /\ args \in Inputs
      /\ cots = [qr |-> [n \in Tokens |-> NoCol], kr |-> [n \in Tokens |-> NoCol],
                 v |-> [n \in Tokens |-> NoRow], g |-> [n \in Tokens |-> NoGate],
                 beta |-> [n \in Tokens |-> NoGate]]
  BY DEF OracleInit
<1>2. ~Recording /\ Len(pieces) = 0 /\ Len(trace) = 0
  BY <1>1 DEF Recording
<1>3. PiecesMeet
  BY <1>1, <1>2 DEF PiecesMeet
<1>4. TraceRight
  BY <1>1, <1>2 DEF TraceRight
<1>5. Frontier = T /\ Finished = T
  BY <1>2 DEF Frontier, Finished
<1>6. CarryRight
  <2>1. args \in Tensors
    BY <1>1, InputAssumption
  <2> QED
    BY <1>1, <1>5, <2>1, AdjointAtEnd DEF CarryRight
<1>7. \A n \in Tokens : ~(n > T)
  BY TokensAre
<1>8. CotsType
  BY <1>1 DEF CotsType
<1> QED
  BY <1>3, <1>4, <1>5, <1>6, <1>7, <1>8 DEF BackInv, CotsRight, GradsRight

(* The caller's calls leave the cotangents alone.                          *)
LEMMA AttendBack ==
  ASSUME OracleInv, BackInv, OracleInv', NEW hi \in Tokens, Attend(hi)
  PROVE  BackInv'
<1> DEFINE lo == Processed + 1
           call == [lo |-> lo, hi |-> hi, state |-> running]
<1>0. PiecesMeet /\ TraceRight /\ CarryRight /\ CotsRight /\ GradsRight
  BY DEF BackInv
<1>1. /\ phase = "idle" /\ ~Recording /\ hi \in lo..T
      /\ pieces' = Append(pieces, call) /\ phase' = "forward"
      /\ args' = args /\ at' = at /\ trace' = trace /\ carry' = carry /\ cots' = cots /\ grads' = grads
  BY DEF Attend
<1>2. ~Recording' /\ Frontier = T /\ Frontier' = T /\ Finished' = T
  BY <1>1 DEF Recording, Frontier, Finished
<1>3. /\ Len(pieces) \in Nat /\ Len(pieces') = Len(pieces) + 1
      /\ Processed = (IF Len(pieces) = 0 THEN 0 ELSE pieces[Len(pieces)].hi)
      /\ \A i \in 1..Len(pieces) : pieces'[i] = pieces[i]
      /\ pieces'[Len(pieces) + 1] = call
  <2>1. pieces \in Seq(Calls)
    BY DEF OracleInv, OracleType
  <2>2. running \in States
    <3>1. running = StateAfter(args, Processed) /\ Processed \in 0..T /\ args \in Tensors
      BY <1>1, ProcessedIs DEF OracleInv, AtToken
    <3> QED
      BY <3>1, StateAfterType
  <2>3. call \in Calls
    <3>1. lo \in Tokens
      BY <1>1, ProcessedIs DEF OracleInv
    <3> QED
      BY <2>2, <3>1 DEF Calls
  <2> HIDE DEF call
  <2>4. /\ Len(pieces) \in Nat /\ Len(pieces') = Len(pieces) + 1
        /\ \A i \in 1..Len(pieces) : pieces'[i] = pieces[i]
        /\ pieces'[Len(pieces) + 1] = call
    BY <1>1, <2>1, <2>3, Appended
  <2> QED
    BY <2>4, Facts
<1>4. PiecesMeet'
  <2>1. ASSUME NEW i \in 1..Len(pieces') PROVE pieces'[i].lo = IF i = 1 THEN 1 ELSE pieces'[i - 1].hi + 1
    <3>1. CASE i = Len(pieces) + 1
      <4>1. pieces'[i].lo = Processed + 1
        BY <1>3, <3>1
      <4>2. i # 1 => i - 1 \in 1..Len(pieces) /\ i - 1 = Len(pieces)
        BY <1>3, <3>1
      <4> QED
        BY <1>3, <3>1, <4>1, <4>2
    <3>2. CASE i # Len(pieces) + 1
      <4>1. i \in 1..Len(pieces) /\ (i # 1 => i - 1 \in 1..Len(pieces))
        BY <1>3, <3>2
      <4> QED
        BY <1>0, <1>3, <4>1 DEF PiecesMeet
    <3> QED
      BY <3>1, <3>2
  <2> QED
    BY <1>1, <1>2, <2>1 DEF PiecesMeet
<1>5. TraceRight'
  BY <1>0, <1>1, <1>2 DEF TraceRight
<1>6. CarryRight'
  BY <1>0, <1>1, <1>2 DEF CarryRight
<1>7. \A n \in Tokens : ~(n > T)
  BY TokensAre
<1>8. CotsRight'
  BY <1>0, <1>1, <1>2, <1>7 DEF CotsRight, CotsType
<1>9. GradsRight'
  BY <1>2, <1>7 DEF GradsRight
<1> QED
  BY <1>4, <1>5, <1>6, <1>8, <1>9 DEF BackInv

(* A turn that is recorded is one of the one pass.                         *)
LEMMA ForwardBack ==
  ASSUME OracleInv, BackInv, ForwardStep
  PROVE  BackInv'
<1>0. PiecesMeet /\ TraceRight /\ CarryRight /\ CotsRight /\ GradsRight
  BY DEF BackInv
<1>1. /\ phase = "forward" /\ t <= Piece.hi
      /\ t' = t + 1 /\ args' = args /\ pieces' = pieces /\ at' = at
      /\ phase' = phase /\ carry' = carry /\ cots' = cots /\ grads' = grads
      /\ trace' = IF Recording THEN Append(trace, Step(args, running, t)) ELSE trace
  BY DEF ForwardStep, Step
<1>2. Recording' = Recording /\ Piece' = Piece /\ Processed' = Processed /\ Recording \in BOOLEAN
  BY <1>1 DEF Recording, Piece, Processed, Last
<1>3. Frontier' = Frontier /\ Finished' = Finished
  BY <1>1, <1>2 DEF Frontier, Finished
<1>4. PiecesMeet'
  BY <1>0, <1>1, <1>2 DEF PiecesMeet
<1>5. TraceRight'
  <2>1. CASE ~Recording
    BY <1>0, <1>1, <1>2, <2>1 DEF TraceRight
  <2>2. CASE Recording
    <3>1. /\ args \in Tensors /\ Tokens = 1..T /\ T \in Nat \ {0}
          /\ Piece.lo \in Tokens /\ Piece.hi \in Tokens
      BY <2>2, Facts
    <3>2. t \in Piece.lo .. Piece.hi + 1 /\ running = StateAfter(args, t - 1)
      BY <1>1 DEF OracleInv, AtToken
    <3>3. t \in Tokens /\ running \in States
      <4>1. t \in Tokens /\ t - 1 \in 0..T
        BY <1>1, <3>1, <3>2
      <4> QED
        BY <3>1, <3>2, <4>1, StateAfterType
    <3> DEFINE st == Step(args, running, t)
    <3>4. st \in Steps
      BY <3>1, <3>3 DEF Steps
    <3>5. trace \in Seq(Steps) /\ Len(trace) = t - Piece.lo
      BY <1>0, <1>1, <2>2 DEF TraceRight
    <3>6. trace' = Append(trace, st)
      BY <1>1, <2>2
    <3>7. /\ trace' \in Seq(Steps) /\ Len(trace') = Len(trace) + 1 /\ Len(trace) \in Nat
          /\ \A i \in 1..Len(trace) : trace'[i] = trace[i]
          /\ trace'[Len(trace) + 1] = st
      <4> HIDE DEF st
      <4> QED
        BY <3>4, <3>5, <3>6, Appended
    <3>8. Len(trace') = t' - Piece.lo
      BY <1>1, <3>1, <3>3, <3>5, <3>7
    <3>9. ASSUME NEW i \in 1..Len(trace')
          PROVE  trace'[i] = Step(args, StateAfter(args, Piece.lo + i - 2), Piece.lo + i - 1)
      <4>1. CASE i = Len(trace) + 1
        <5>1. Piece.lo \in Int /\ t \in Int /\ i = t - Piece.lo + 1
          BY <3>1, <3>3, <3>5, <4>1
        <5>2. Piece.lo + i - 1 = t /\ Piece.lo + i - 2 = t - 1
          BY <5>1
        <5> QED
          BY <3>2, <3>7, <4>1, <5>2
      <4>2. CASE i # Len(trace) + 1
        <5>1. i \in 1..Len(trace)
          BY <3>7, <4>2
        <5> QED
          BY <1>0, <1>1, <2>2, <3>7, <5>1 DEF TraceRight
      <4> QED
        BY <4>1, <4>2
    <3> QED
      BY <1>1, <1>2, <2>2, <3>7, <3>8, <3>9 DEF TraceRight
  <2> QED
    BY <2>1, <2>2
<1>6. CarryRight'
  BY <1>0, <1>1, <1>3 DEF CarryRight
<1>7. CotsRight'
  BY <1>0, <1>1, <1>3 DEF CotsRight, CotsType, CotsOf
<1>8. GradsRight'
  BY <1>0, <1>1, <1>3 DEF GradsRight
<1> QED
  BY <1>4, <1>5, <1>6, <1>7, <1>8 DEF BackInv

LEMMA ReturnBack ==
  ASSUME OracleInv, BackInv, Return
  PROVE  BackInv'
<1>0. PiecesMeet /\ TraceRight /\ CarryRight /\ CotsRight /\ GradsRight
  BY DEF BackInv
<1>1. /\ phase = "forward" /\ t > Piece.hi
      /\ \/ Recording /\ phase' = "backward" /\ t' = Piece.hi
         \/ ~Recording /\ phase' = "idle" /\ t' = t
      /\ args' = args /\ pieces' = pieces /\ at' = at /\ carry' = carry /\ cots' = cots
      /\ grads' = grads /\ trace' = trace
  BY DEF Return
<1>2. Recording' = Recording /\ Piece' = Piece /\ Processed' = Processed
  BY <1>1 DEF Recording, Piece, Processed, Last
<1>3. Frontier' = Frontier /\ Finished' = Finished
  BY <1>1, <1>2 DEF Frontier, Finished
<1>4. PiecesMeet'
  BY <1>0, <1>1, <1>2 DEF PiecesMeet
<1>5. TraceRight'
  <2>1. CASE ~Recording
    BY <1>0, <1>1, <1>2, <2>1 DEF TraceRight
  <2>2. CASE Recording
    <3>1. Piece.lo \in Int /\ Piece.hi \in Int /\ Piece.lo <= Piece.hi
      BY <2>2, Facts
    <3>2. t \in Piece.lo .. Piece.hi + 1
      BY <1>1 DEF OracleInv, AtToken
    <3>3. t = Piece.hi + 1
      BY <1>1, <3>1, <3>2
    <3>4. Len(trace) = Piece.hi - Piece.lo + 1
      BY <1>0, <1>1, <2>2, <3>1, <3>3 DEF TraceRight
    <3>5. t' \in Piece.lo - 1 .. Piece.hi
      BY <1>1, <2>2, <3>1
    <3> QED
      BY <1>0, <1>1, <1>2, <2>2, <3>4, <3>5 DEF TraceRight
  <2> QED
    BY <2>1, <2>2
<1>6. CarryRight'
  BY <1>0, <1>1, <1>3 DEF CarryRight
<1>7. CotsRight'
  BY <1>0, <1>1, <1>3 DEF CotsRight, CotsType, CotsOf
<1>8. GradsRight'
  BY <1>0, <1>1, <1>3 DEF GradsRight
<1> QED
  BY <1>4, <1>5, <1>6, <1>7, <1>8 DEF BackInv

(* The next call continues where the one before it stopped.                *)
LEMMA VjpBack ==
  ASSUME OracleInv, BackInv, Vjp
  PROVE  BackInv'
<1> DEFINE p == IF Recording THEN at - 1 ELSE Len(pieces)
<1>0. PiecesMeet /\ TraceRight /\ CarryRight /\ CotsRight /\ GradsRight
  BY DEF BackInv
<1>1. /\ phase = "idle" /\ Processed = T
      /\ at' = p /\ t' = pieces[p].lo /\ phase' = "forward" /\ trace' = <<>>
      /\ args' = args /\ pieces' = pieces /\ carry' = carry /\ cots' = cots /\ grads' = grads
  BY DEF Vjp
<1>2. /\ T \in Nat \ {0} /\ Tokens = 1..T /\ Len(pieces) \in Nat /\ at \in 0..Len(pieces)
      /\ Processed = (IF Len(pieces) = 0 THEN 0 ELSE pieces[Len(pieces)].hi)
      /\ \A i \in 1..Len(pieces) : pieces[i].lo \in Tokens /\ pieces[i].hi \in Tokens
      /\ Recording => Piece = pieces[at] /\ at \in 1..Len(pieces)
  BY Facts
<1>3. Recording => at >= 2
  BY <1>1 DEF OracleInv, AtToken
<1>4. p \in 1..Len(pieces)
  BY <1>1, <1>2, <1>3
<1>5. pieces[p].hi = Frontier /\ Finished = Frontier
  <2>1. CASE ~Recording
    BY <1>1, <1>2, <2>1 DEF Frontier, Finished
  <2>2. CASE Recording
    <3>1. Frontier = pieces[at].lo - 1 /\ Finished = Frontier
      BY <1>1, <1>2, <2>2 DEF Frontier, Finished
    <3>2. pieces[at].lo = pieces[at - 1].hi + 1
      BY <1>0, <1>2, <1>3, <2>2 DEF PiecesMeet
    <3>3. pieces[at - 1].hi \in Int
      BY <1>2, <1>4, <2>2
    <3> QED
      BY <2>2, <3>1, <3>2, <3>3
  <2> QED
    BY <2>1, <2>2
<1> HIDE DEF p
<1>6. Recording' /\ Piece' = pieces[p] /\ Processed' = Processed
  <2>1. Recording'
    BY <1>1, <1>4 DEF Recording
  <2>2. Processed' = Processed
    BY <1>1 DEF Processed, Last
  <2> QED
    BY <1>1, <2>1, <2>2 DEF Piece
<1>7. Frontier' = Frontier /\ Finished' = Finished
  BY <1>1, <1>5, <1>6 DEF Frontier, Finished
<1>8. PiecesMeet'
  BY <1>0, <1>1, <1>6 DEF PiecesMeet
<1>9. TraceRight'
  <2>1. <<>> \in Seq(Steps) /\ Len(<<>>) = 0
    OBVIOUS
  <2>2. t' - Piece'.lo = 0
    BY <1>1, <1>2, <1>4, <1>6
  <2> QED
    BY <1>1, <2>1, <2>2 DEF TraceRight
<1>10. CarryRight'
  BY <1>0, <1>1, <1>7 DEF CarryRight
<1>11. CotsRight'
  BY <1>0, <1>1, <1>7 DEF CotsRight, CotsType, CotsOf
<1>12. GradsRight'
  BY <1>0, <1>1, <1>7 DEF GradsRight
<1> QED
  BY <1>8, <1>9, <1>10, <1>11, <1>12 DEF BackInv

\* One turn of gdn_vjp, as its code has it.
LEMMA BackTurn ==
  ASSUME BackwardStep, NEW S, trace[t - Piece.lo + 1] = Step(args, S, t)
  PROVE  /\ carry' = Before(args, carry, t)
         /\ cots' = [cots EXCEPT !.qr[t] = CotQ(args, carry, t, S), !.kr[t] = CotK(args, carry, t, S),
                                 !.v[t] = DValue(args, carry, t), !.g[t] = CotG(args, carry, t, S),
                                 !.beta[t] = CotBeta(args, carry, t, S)]
<1> DEFINE st == Step(args, S, t)
           qr == Repeat(args.q[t])
           kr == Repeat(args.k[t])
           yt == IF args.mask[t] THEN args.dy[t] ELSE NoRow
           du == Plus(IF args.mask[t] THEN carry ELSE NoState, Outer(yt, qr))
           dd == Apply(du, kr)
           dv == Times(args.beta[t], dd)
           dr == Minus(NoRow, dv)
           dp == Plus(du, Outer(dr, kr))
           direct   == Transposed(du, st.delta)
           residual == Transposed(st.decayed, dr)
<1>1. du = Du(args, carry, t) /\ dd = Dd(args, carry, t) /\ dv = DValue(args, carry, t)
  BY DEF Du, Dd, DValue
<1>2. dr = Dr(args, carry, t) /\ dp = Dp(args, carry, t)
  BY <1>1 DEF Dr, Dp
<1>3. carry' = IF args.mask[t] THEN Scaled(args.g[t], dp) ELSE carry
  BY DEF BackwardStep
<1>4. st.prev = S
  BY DEF Step
<1>5. cots' = [cots EXCEPT
           !.qr[t]   = Transposed(st.updated, yt),
           !.kr[t]   = [h \in Heads |-> [c \in Cols |-> direct[h][c] + residual[h][c]]],
           !.v[t]    = dv,
           !.g[t]    = Inner(dp, st.prev),
           !.beta[t] = Dot(dd, st.residual)]
  BY DEF BackwardStep, GateCotangent
<1>6. Transposed(st.updated, yt) = CotQ(args, carry, t, S)
  BY DEF CotQ
<1>7. [h \in Heads |-> [c \in Cols |-> direct[h][c] + residual[h][c]]] = CotK(args, carry, t, S)
  BY <1>1, <1>2 DEF CotK
<1>8. Inner(dp, st.prev) = CotG(args, carry, t, S) /\ Dot(dd, st.residual) = CotBeta(args, carry, t, S)
  BY <1>1, <1>2, <1>4 DEF CotG, CotBeta
<1>9. carry' = Before(args, carry, t)
  BY <1>2, <1>3 DEF Before
<1> HIDE DEF st, qr, kr, yt, du, dd, dv, dr, dp, direct, residual
<1> QED
  BY <1>1, <1>5, <1>6, <1>7, <1>8, <1>9

(* A turn of gdn_vjp gives a token its cotangents.                         *)
LEMMA BackwardBack ==
  ASSUME OracleInv, BackInv, BackwardStep
  PROVE  BackInv'
<1>0. PiecesMeet /\ TraceRight /\ CarryRight /\ CotsRight /\ GradsRight
  BY DEF BackInv
<1>1. /\ phase = "backward" /\ t >= Piece.lo /\ t' = t - 1
      /\ phase' = phase /\ args' = args /\ pieces' = pieces /\ at' = at /\ grads' = grads /\ trace' = trace
  BY DEF BackwardStep
<1>2. Recording' = Recording /\ Piece' = Piece /\ Processed' = Processed
  BY <1>1 DEF Recording, Piece, Processed, Last
<1>3. /\ T \in Nat \ {0} /\ Tokens = 1..T /\ Recording /\ args \in Tensors
      /\ Piece.lo \in Tokens /\ Piece.hi \in Tokens /\ Piece.lo <= Piece.hi
  BY <1>1, Facts
<1>4. Len(trace) = Piece.hi - Piece.lo + 1 /\ t \in Piece.lo - 1 .. Piece.hi
  BY <1>0, <1>1 DEF TraceRight
<1>5. t \in Tokens /\ t \in Int
  BY <1>1, <1>3, <1>4
<1> DEFINE S == StateAfter(args, t - 1)
<1>6. trace[t - Piece.lo + 1] = Step(args, S, t)
  <2> DEFINE i == t - Piece.lo + 1
  <2>1. i \in 1..Len(trace) /\ Piece.lo + i - 2 = t - 1 /\ Piece.lo + i - 1 = t
    <3>1. Piece.lo \in Nat /\ Piece.hi \in Nat /\ Len(trace) = Piece.hi - Piece.lo + 1
      BY <1>3, <1>4
    <3>2. Piece.lo <= t /\ t <= Piece.hi /\ t \in Int
      BY <1>1, <1>3, <1>4, <1>5, <3>1
    <3> QED
      BY <3>1, <3>2
  <2> HIDE DEF i
  <2>2. trace[i] = Step(args, StateAfter(args, Piece.lo + i - 2), Piece.lo + i - 1)
    BY <1>0, <1>1, <1>3, <2>1 DEF TraceRight
  <2> QED
    BY <2>1, <2>2 DEF i
<1> HIDE DEF S
<1>7. /\ carry' = Before(args, carry, t)
      /\ cots' = [cots EXCEPT !.qr[t] = CotQ(args, carry, t, S), !.kr[t] = CotK(args, carry, t, S),
                              !.v[t] = DValue(args, carry, t), !.g[t] = CotG(args, carry, t, S),
                              !.beta[t] = CotBeta(args, carry, t, S)]
  BY <1>6, BackTurn
<1>8. Frontier = t /\ Frontier' = t - 1 /\ Finished' = Finished /\ Finished = Piece.hi
  BY <1>1, <1>2, <1>3 DEF Frontier, Finished
<1>9. PiecesMeet'
  BY <1>0, <1>1, <1>2 DEF PiecesMeet
<1>10. TraceRight'
  <2>1. t' \in Piece'.lo - 1 .. Piece'.hi
    BY <1>1, <1>2, <1>3, <1>4, <1>5
  <2> QED
    BY <1>0, <1>1, <1>2, <1>4, <2>1 DEF TraceRight
<1>11. Adjoint(args, carry, t)
  BY <1>0, <1>8 DEF CarryRight
<1>12. CarryRight'
  <2>1. Adjoint(args, carry', t - 1)
    BY <1>3, <1>5, <1>7, <1>11, AdjointBefore
  <2> QED
    BY <1>1, <1>8, <2>1 DEF CarryRight
<1>13. CotsType
  BY <1>0 DEF CotsRight
<1>14. /\ cots'.qr = [cots.qr EXCEPT ![t] = CotQ(args, carry, t, S)]
       /\ cots'.kr = [cots.kr EXCEPT ![t] = CotK(args, carry, t, S)]
       /\ cots'.v = [cots.v EXCEPT ![t] = DValue(args, carry, t)]
       /\ cots'.g = [cots.g EXCEPT ![t] = CotG(args, carry, t, S)]
       /\ cots'.beta = [cots.beta EXCEPT ![t] = CotBeta(args, carry, t, S)]
       /\ cots' = [qr |-> cots'.qr, kr |-> cots'.kr, v |-> cots'.v, g |-> cots'.g, beta |-> cots'.beta]
  BY <1>7, <1>13 DEF CotsType
<1>15. CotsType'
  BY <1>13, <1>14 DEF CotsType
<1>16. /\ cots'.qr[t] = CotQ(args, carry, t, S) /\ cots'.kr[t] = CotK(args, carry, t, S)
       /\ cots'.v[t] = DValue(args, carry, t) /\ cots'.g[t] = CotG(args, carry, t, S)
       /\ cots'.beta[t] = CotBeta(args, carry, t, S)
       /\ \A n \in Tokens : n # t => /\ cots'.qr[n] = cots.qr[n] /\ cots'.kr[n] = cots.kr[n]
                                     /\ cots'.v[n] = cots.v[n] /\ cots'.g[n] = cots.g[n]
                                     /\ cots'.beta[n] = cots.beta[n]
  BY <1>5, <1>13, <1>14 DEF CotsType
<1>17. ASSUME NEW n \in Tokens, n > t - 1 PROVE \E C : CotsOf(C, n)'
  <2>1. CASE n = t
    <3>1. PICK C : C = carry
      OBVIOUS
    <3>2. /\ Adjoint(args, C, n)
          /\ cots'.qr[n] = CotQ(args, C, n, S) /\ cots'.kr[n] = CotK(args, C, n, S)
          /\ cots'.v[n] = DValue(args, C, n)
          /\ cots'.g[n] = CotG(args, C, n, S) /\ cots'.beta[n] = CotBeta(args, C, n, S)
      BY <1>11, <1>16, <2>1, <3>1
    <3>3. S = StateAfter(args, n - 1)
      BY <2>1 DEF S
    <3>4. CotsOf(C, n)'
      BY <1>1, <3>2, <3>3 DEF CotsOf
    <3> QED
      BY <3>4
  <2>2. CASE n # t
    <3>1. n > t
      BY <1>3, <1>5, <1>17, <2>2
    <3>2. PICK C : CotsOf(C, n)
      BY <1>0, <1>8, <3>1 DEF CotsRight
    <3>3. CotsOf(C, n)'
      BY <1>1, <1>16, <2>2, <3>2 DEF CotsOf
    <3> QED
      BY <3>3
  <2> QED
    BY <2>1, <2>2
<1>18. CotsRight'
  BY <1>8, <1>15, <1>17 DEF CotsRight
<1>19. GradsRight'
  <2> SUFFICES ASSUME NEW n \in Tokens, n > Piece.hi
               PROVE  grads'.q[n] = OverGroup(cots'.qr[n]) /\ grads'.k[n] = OverGroup(cots'.kr[n])
    BY <1>8 DEF GradsRight
  <2>1. n # t
    BY <1>3, <1>4
  <2> QED
    BY <1>0, <1>1, <1>8, <1>16, <2>1 DEF GradsRight
<1> QED
  BY <1>9, <1>10, <1>12, <1>18, <1>19 DEF BackInv

(* A call returns those of its piece.                                      *)
LEMMA ReturnVjpBack ==
  ASSUME OracleInv, BackInv, ReturnVjp
  PROVE  BackInv'
<1>0. PiecesMeet /\ TraceRight /\ CarryRight /\ CotsRight /\ GradsRight
  BY DEF BackInv
<1>1. /\ phase = "backward" /\ t < Piece.lo /\ t' = t
      /\ phase' = (IF at = 1 THEN "done" ELSE "idle")
      /\ args' = args /\ pieces' = pieces /\ at' = at /\ trace' = trace
      /\ carry' = carry /\ cots' = cots
      /\ grads' = [q |-> [n \in Tokens |-> IF n \in Piece.lo .. Piece.hi THEN OverGroup(cots.qr[n]) ELSE grads.q[n]],
                   k |-> [n \in Tokens |-> IF n \in Piece.lo .. Piece.hi THEN OverGroup(cots.kr[n]) ELSE grads.k[n]]]
  BY DEF ReturnVjp
<1>2. Recording' = Recording /\ Piece' = Piece /\ Processed' = Processed
  BY <1>1 DEF Recording, Piece, Processed, Last
<1>3. /\ T \in Nat \ {0} /\ Tokens = 1..T /\ Recording
      /\ Piece.lo \in Tokens /\ Piece.hi \in Tokens /\ Piece.lo <= Piece.hi
  BY <1>1, Facts
<1>4. t \in Piece.lo - 1 .. Piece.hi
  BY <1>0, <1>1 DEF TraceRight
<1>5. t = Piece.lo - 1
  BY <1>1, <1>3, <1>4
<1>6. Frontier = t /\ Frontier' = t /\ Finished = Piece.hi /\ Finished' = Piece.lo - 1
  BY <1>1, <1>2, <1>3, <1>5 DEF Frontier, Finished
<1>7. PiecesMeet'
  BY <1>0, <1>1, <1>2 DEF PiecesMeet
<1>8. TraceRight'
  BY <1>0, <1>1, <1>2 DEF TraceRight
<1>9. CarryRight'
  BY <1>0, <1>1, <1>6 DEF CarryRight
<1>10. CotsRight'
  BY <1>0, <1>1, <1>6 DEF CotsRight, CotsType, CotsOf
<1>11. GradsRight'
  <2> SUFFICES ASSUME NEW n \in Tokens, n > Piece.lo - 1
               PROVE  grads'.q[n] = OverGroup(cots.qr[n]) /\ grads'.k[n] = OverGroup(cots.kr[n])
    BY <1>1, <1>6 DEF GradsRight
  <2>1. CASE n \in Piece.lo .. Piece.hi
    BY <1>1, <2>1
  <2>2. CASE n \notin Piece.lo .. Piece.hi
    <3>1. n > Piece.hi
      BY <1>3, <2>2
    <3>2. grads'.q[n] = grads.q[n] /\ grads'.k[n] = grads.k[n]
      BY <1>1, <2>2
    <3> QED
      BY <1>0, <1>6, <3>1, <3>2 DEF GradsRight
  <2> QED
    BY <2>1, <2>2
<1> QED
  BY <1>7, <1>8, <1>9, <1>10, <1>11 DEF BackInv

(* In every state, the cotangents gdn_vjp holds are the derivatives of the *)
(* loss as far back as it has gone.                                        *)
THEOREM BackwardInvariant == OracleSpec => []BackInv
<1>1. OracleInit => BackInv
  BY BackBegins
<1>2. OracleInv /\ OracleInv' /\ BackInv /\ [OracleNext]_oracleVars => BackInv'
  <2> SUFFICES ASSUME OracleInv, OracleInv', BackInv, [OracleNext]_oracleVars PROVE BackInv'
    OBVIOUS
  <2>1. ASSUME NEW hi \in Tokens, Attend(hi) PROVE BackInv'
    BY <2>1, AttendBack
  <2>2. CASE ForwardStep
    BY <2>2, ForwardBack
  <2>3. CASE Return
    BY <2>3, ReturnBack
  <2>4. CASE Vjp
    BY <2>4, VjpBack
  <2>5. CASE BackwardStep
    BY <2>5, BackwardBack
  <2>6. CASE ReturnVjp
    BY <2>6, ReturnVjpBack
  <2>7. CASE UNCHANGED oracleVars
    BY <2>7 DEF oracleVars, BackInv, PiecesMeet, TraceRight, CarryRight, CotsRight, CotsType, CotsOf,
       GradsRight, Frontier, Finished, Recording, Piece, Processed, Last
  <2> QED
    BY <2>1, <2>2, <2>3, <2>4, <2>5, <2>6, <2>7 DEF OracleNext
<1> QED
  BY <1>1, <1>2, OracleInvariant, PTL DEF OracleSpec

(* When gdn_vjp has been called on all pieces, what it returned are the    *)
(* derivatives of the loss of the whole sequence in every element of every *)
(* input, for all tensors of all shapes, all masks and all cuts.           *)
THEOREM GradientsAreExact == OracleSpec => []GradientsAreDerivatives
<1>1. OracleInv /\ BackInv => GradientsAreDerivatives
  <2> SUFFICES ASSUME OracleInv, BackInv, phase = "done" PROVE GradientsAreDerivatives
    BY DEF GradientsAreDerivatives
  <2>0. PiecesMeet /\ CarryRight /\ CotsRight /\ GradsRight
    BY DEF BackInv
  <2>1. at = 1 /\ Recording
    BY <2>0 DEF PiecesMeet, Recording
  <2>2. Piece = pieces[1] /\ 1 \in 1..Len(pieces) /\ args \in Tensors /\ Tokens = 1..T /\ T \in Nat \ {0}
    BY <2>1, Facts
  <2>3. Piece.lo = 1
    BY <2>0, <2>2 DEF PiecesMeet
  <2>4. Frontier = 0 /\ Finished = 0
    BY <2>1, <2>3 DEF Frontier, Finished
  <2>5. \A n \in Tokens : n > 0
    BY <2>2
  <2>6. Adjoint(args, carry, 0)
    BY <2>0, <2>4 DEF CarryRight
  <2>7. ASSUME NEW n \in Tokens
        PROVE  /\ \A h \in KHeads, k0 \in Cols :
                    /\ IsDerivative(grads.q[n][h][k0], [args EXCEPT !.q[n][h][k0] = @ + 1], [args EXCEPT !.q[n][h][k0] = @ - 1])
                    /\ IsDerivative(grads.k[n][h][k0], [args EXCEPT !.k[n][h][k0] = @ + 1], [args EXCEPT !.k[n][h][k0] = @ - 1])
               /\ \A h \in Heads :
                    /\ IsDerivative(cots.g[n][h], [args EXCEPT !.g[n][h] = @ + 1], [args EXCEPT !.g[n][h] = @ - 1])
                    /\ IsDerivative(cots.beta[n][h], [args EXCEPT !.beta[n][h] = @ + 1], [args EXCEPT !.beta[n][h] = @ - 1])
                    /\ \A w \in Rows :
                         IsDerivative(cots.v[n][h][w], [args EXCEPT !.v[n][h][w] = @ + 1], [args EXCEPT !.v[n][h][w] = @ - 1])
    <3>1. PICK C : CotsOf(C, n)
      BY <2>0, <2>4, <2>5 DEF CotsRight
    <3> DEFINE S == StateAfter(args, n - 1)
    <3>2. /\ Adjoint(args, C, n)
          /\ cots.qr[n] = CotQ(args, C, n, S) /\ cots.kr[n] = CotK(args, C, n, S)
          /\ cots.v[n] = DValue(args, C, n)
          /\ cots.g[n] = CotG(args, C, n, S) /\ cots.beta[n] = CotBeta(args, C, n, S)
      BY <3>1 DEF CotsOf
    <3>3. grads.q[n] = OverGroup(CotQ(args, C, n, S)) /\ grads.k[n] = OverGroup(CotK(args, C, n, S))
      BY <2>0, <2>4, <2>5, <3>2 DEF GradsRight
    <3>4. ASSUME NEW h \in KHeads, NEW k0 \in Cols
          PROVE  /\ IsDerivative(grads.q[n][h][k0], [args EXCEPT !.q[n][h][k0] = @ + 1], [args EXCEPT !.q[n][h][k0] = @ - 1])
                 /\ IsDerivative(grads.k[n][h][k0], [args EXCEPT !.k[n][h][k0] = @ + 1], [args EXCEPT !.k[n][h][k0] = @ - 1])
      BY <2>2, <3>2, <3>3, InQ, InK
    <3>5. ASSUME NEW h \in Heads
          PROVE  /\ IsDerivative(cots.g[n][h], [args EXCEPT !.g[n][h] = @ + 1], [args EXCEPT !.g[n][h] = @ - 1])
                 /\ IsDerivative(cots.beta[n][h], [args EXCEPT !.beta[n][h] = @ + 1], [args EXCEPT !.beta[n][h] = @ - 1])
      BY <2>2, <3>2, InG, InBeta
    <3>6. ASSUME NEW h \in Heads, NEW w \in Rows
          PROVE  IsDerivative(cots.v[n][h][w], [args EXCEPT !.v[n][h][w] = @ + 1], [args EXCEPT !.v[n][h][w] = @ - 1])
      BY <2>2, <3>2, InV
    <3> QED
      BY <3>4, <3>5, <3>6
  <2>8. ASSUME NEW h \in Heads, NEW w \in Rows, NEW c \in Cols
        PROVE  IsDerivative(carry[h][w][c], [args EXCEPT !.state[h][w][c] = @ + 1], [args EXCEPT !.state[h][w][c] = @ - 1])
    BY <2>2, <2>6, InState
  <2> QED
    BY <2>7, <2>8 DEF GradientsAreDerivatives
<1> QED
  BY <1>1, OracleInvariant, BackwardInvariant, PTL

----------------------------------------------------------------------------
(* The kernel and the oracle.                                              *)

(* The numbering of the terms does not matter, from 0 or from 1.           *)
LEMMA SumShifted ==
  ASSUME NEW n \in Nat, NEW f, NEW e, \A i \in 0..(n - 1) : f[i] \in Int /\ e[i + 1] = f[i]
  PROVE  Sum(e, 1..n) = SumTo(f, n)
<1> DEFINE Good == {m \in Nat : m <= n => Sum(e, 1..m) = SumTo(f, m)}
<1>1. 0 \in Good
  <2>1. 1..0 = {}
    OBVIOUS
  <2>2. Sum(e, {}) = 0
    BY FS_EmptySet, SumEquation
  <2> QED
    BY <2>1, <2>2, SumToNone
<1>2. ASSUME NEW m \in Good PROVE m + 1 \in Good
  <2> SUFFICES ASSUME m + 1 <= n PROVE Sum(e, 1..(m + 1)) = SumTo(f, m + 1)
    OBVIOUS
  <2>0. m \in Nat /\ m <= n /\ Sum(e, 1..m) = SumTo(f, m)
    OBVIOUS
  <2>1. SumTo(f, m) \in Int /\ f[m] \in Int /\ SumTo(f, m + 1) = SumTo(f, m) + f[m]
    <3>1. \A i \in 0..m : f[i] \in Int
      BY <2>0
    <3> QED
      BY <2>0, <3>1, SumToMore
  <2>a. m + 1 \in 1..(m + 1) /\ (1..(m + 1)) \ {m + 1} = 1..m
    BY <2>0
  <2>2. IsFiniteSet(1..(m + 1))
    BY <2>0, ColsFinite
  <2>3. \A i \in 1..(m + 1) : e[i] \in Int
    <3> SUFFICES ASSUME NEW i \in 1..(m + 1) PROVE e[i] \in Int
      OBVIOUS
    <3>1. i - 1 \in 0..(n - 1) /\ (i - 1) + 1 = i
      BY <2>0
    <3> QED
      BY <3>1
  <2>4. Sum(e, 1..(m + 1)) = e[m + 1] + Sum(e, 1..m)
    <3>1. \A i \in 1..(m + 1) : Sum(e, 1..(m + 1)) = e[i] + Sum(e, (1..(m + 1)) \ {i})
      BY <2>2, <2>3, SumOneOut
    <3>2. Sum(e, 1..(m + 1)) = e[m + 1] + Sum(e, (1..(m + 1)) \ {m + 1})
      BY <2>a, <3>1
    <3> QED
      BY <2>a, <3>2
  <2>5. e[m + 1] = f[m]
    BY <2>0
  <2> QED
    BY <2>0, <2>1, <2>2, <2>4, <2>5
<1>3. Good = Nat
  <2> HIDE DEF Good
  <2>1. Good \in SUBSET Nat
    BY DEF Good
  <2> QED
    BY <1>1, <1>2, <2>1, Induction
<1> QED
  BY <1>3

\* The arrays of the launch hold, for the batch of the block, token n of z
\* and the state S before it, row by row as NumPy does.
LaidOut(z, S, n) ==
  /\ dims.Hk = Hk /\ dims.Hv = Hv /\ Width = Dk /\ dims.Dv = Dv
  /\ masked <=> ~z.mask[n]
  /\ \A h \in KHeads, c \in Cols :
       /\ q[(cell.b * Hk + h) * Dk + (c - 1)] = z.q[n][h][c]
       /\ k[(cell.b * Hk + h) * Dk + (c - 1)] = z.k[n][h][c]
  /\ \A h \in Heads : g[cell.b * Hv + h] = z.g[n][h] /\ beta[cell.b * Hv + h] = z.beta[n][h]
  /\ \A h \in Heads, w \in Rows :
       /\ v[(cell.b * Hv + h) * Dv + (w - 1)] = z.v[n][h][w]
       /\ \A c \in Cols : state[((cell.b * Hv + h) * Dv + (w - 1)) * Dk + (c - 1)] = S[h][w][c]

\* What the oracle's turn on that token leaves and returns for the block's
\* row, and the block so far.
BlockAgrees(z, S, n) ==
  LET U == IF z.mask[n] THEN Recurrence(z, S, n) ELSE S
      yield == IF z.mask[n] THEN Reading(z, U, n) ELSE NoRow
      w == cell.dv + 1
  IN  /\ \A d \in Thread : pc[d] = "done" => out[d] = U[cell.h][w][d + 1]
      /\ pc[0] = "done" => y = yield[cell.h][w]

LEMMA RowLaidOut ==
  ASSUME IInv, launched = "yes", NEW z \in Tensors, NEW S \in States, NEW n \in Tokens, LaidOut(z, S, n),
         NEW h, h = cell.h, NEW w, w = cell.dv + 1
  PROVE  /\ h \in Heads /\ w \in Rows /\ Thread = 0..(Dk - 1) /\ 0 \in Thread /\ Width = Dk
         /\ g[gate] = z.g[n][h] /\ beta[gate] = z.beta[n][h] /\ v[row] = z.v[n][h][w]
         /\ \A d \in Thread : /\ d + 1 \in Cols /\ state[si(d)] = S[h][w][d + 1]
                              /\ k[keyAt(d)] = z.k[n][h \div r][d + 1]
                              /\ q[keyAt(d)] = z.q[n][h \div r][d + 1]
<1>1. /\ dims.Hk = Hk /\ dims.Hv = Hv /\ Width = Dk /\ dims.Dv = Dv
  BY DEF LaidOut
<1>2. /\ cell.h \in 0..(dims.Hv - 1) /\ cell.dv \in 0..(dims.Dv - 1) /\ cell.dv \in Nat
  BY DEF IInv, InGrid
<1>3. Dk \in Nat \ {0} /\ Dv \in Nat \ {0}
  BY DimensionAssumption
<1>4. h \in Heads /\ w \in Rows /\ w - 1 = cell.dv
  BY <1>1, <1>2, <1>3 DEF Heads, Rows
<1>5. Thread = 0..(Dk - 1) /\ 0 \in Thread
  BY <1>1, <1>3 DEF Thread
<1>6. \A d \in Thread : d + 1 \in Cols /\ (d + 1) - 1 = d
  BY <1>3, <1>5 DEF Cols
<1>7. gate = cell.b * Hv + h /\ row = (cell.b * Hv + h) * Dv + (w - 1)
  BY <1>1, <1>4 DEF gate, row
<1>8. g[gate] = z.g[n][h] /\ beta[gate] = z.beta[n][h] /\ v[row] = z.v[n][h][w]
  BY <1>4, <1>7 DEF LaidOut
<1>9. headOf = h \div r /\ h \div r \in KHeads
  BY <1>1, <1>4, KeyHeadIs DEF headOf, r
<1>10. ASSUME NEW d \in Thread
       PROVE  /\ state[si(d)] = S[h][w][d + 1]
              /\ k[keyAt(d)] = z.k[n][h \div r][d + 1] /\ q[keyAt(d)] = z.q[n][h \div r][d + 1]
  <2> DEFINE c == d + 1
  <2>1. c \in Cols /\ d = c - 1
    BY <1>6
  <2> HIDE DEF c
  <2>2. si(d) = ((cell.b * Hv + h) * Dv + (w - 1)) * Dk + (c - 1)
    BY <1>1, <1>7, <2>1 DEF si
  <2>3. keyAt(d) = (cell.b * Hk + h \div r) * Dk + (c - 1)
    BY <1>1, <1>9, <2>1 DEF keyAt
  <2>4. state[si(d)] = S[h][w][c]
    BY <1>4, <2>1, <2>2 DEF LaidOut
  <2> DEFINE kh == h \div r
  <2>5. kh \in KHeads
    BY <1>9
  <2> HIDE DEF kh
  <2>6. \A e : e = (cell.b * Hk + kh) * Dk + (c - 1) => k[e] = z.k[n][kh][c] /\ q[e] = z.q[n][kh][c]
    BY <2>1, <2>5 DEF LaidOut
  <2>7. k[keyAt(d)] = z.k[n][kh][c] /\ q[keyAt(d)] = z.q[n][kh][c]
    BY <2>3, <2>6 DEF kh
  <2> QED
    BY <2>4, <2>7 DEF c, kh
<1> QED
  BY <1>1, <1>4, <1>5, <1>6, <1>8, <1>10

(* The recurrence of the row as the kernel has it is the oracle's turn.    *)
LEMMA RowIsTurn ==
  ASSUME IInv, launched = "yes", NEW z \in Tensors, NEW S \in States, NEW n \in Tokens, LaidOut(z, S, n),
         NEW h, h = cell.h, NEW w, w = cell.dv + 1
  PROVE  /\ \A d \in Thread : NewState(d) = Recurrence(z, S, n)[h][w][d + 1]
         /\ Answer = Reading(z, Recurrence(z, S, n), n)[h][w]
<1>1. /\ h \in Heads /\ w \in Rows /\ Thread = 0..(Dk - 1) /\ 0 \in Thread /\ Width = Dk
      /\ g[gate] = z.g[n][h] /\ beta[gate] = z.beta[n][h] /\ v[row] = z.v[n][h][w]
      /\ \A d \in Thread : /\ d + 1 \in Cols /\ state[si(d)] = S[h][w][d + 1]
                           /\ k[keyAt(d)] = z.k[n][h \div r][d + 1]
                           /\ q[keyAt(d)] = z.q[n][h \div r][d + 1]
  BY RowLaidOut
<1>2. /\ Retrieved \in Int /\ Correction \in Int
      /\ \A d \in Thread : NewState(d) \in Int /\ Decayed(d) \in Int /\ Decayed(d) * k[keyAt(d)] \in Int
                           /\ NewState(d) * q[keyAt(d)] \in Int
  BY Terms
<1>3. \A d \in Thread : Decayed(d) = z.g[n][h] * S[h][w][d + 1]
  <2> SUFFICES ASSUME NEW d \in Thread PROVE Decayed(d) = z.g[n][h] * S[h][w][d + 1]
    OBVIOUS
  <2>1. S[h][w][d + 1] \in Int /\ z.g[n][h] \in Int
    <3>1. d + 1 \in Cols /\ h \in Heads /\ w \in Rows
      BY <1>1
    <3>2. \A c \in Cols : S[h][w][c] \in Int /\ z.g[n][h] \in Int
      BY <3>1, Element
    <3> QED
      BY <3>1, <3>2
  <2>2. Decayed(d) = S[h][w][d + 1] * z.g[n][h]
    BY <1>1 DEF Decayed
  <2> QED
    BY <2>1, <2>2, Commutes
<1>4. Retrieved = SumFunction(Retrieval(z, S, n, h, w))
  <2> DEFINE f == [d \in Thread |-> Decayed(d) * k[keyAt(d)]]
             e == Retrieval(z, S, n, h, w)
  <2>1. DOMAIN f = Thread /\ DOMAIN e = 1..Dk /\ Dk \in Nat
    BY DimensionAssumption DEF Retrieval, Cols
  <2>2. \A d \in Thread : f[d] \in Int /\ e[d + 1] = f[d]
    BY <1>1, <1>2, <1>3 DEF Retrieval
  <2>3. Retrieved = Total(f)
    BY DEF Retrieved
  <2> HIDE DEF e, f
  <2>4. Total(f) = SumTo(f, Dk)
    BY <1>1, <2>1, TotalIs
  <2>5. Sum(e, 1..Dk) = SumTo(f, Dk)
    BY <1>1, <2>1, <2>2, SumShifted
  <2>6. SumFunction(e) = Sum(e, 1..Dk)
    BY <2>1, SumFunctionIs
  <2> QED
    BY <2>3, <2>4, <2>5, <2>6 DEF e
<1>5. Turn(z, S, n) = Recurrence(z, S, n)
  BY TurnIsRecurrence
<1>6. ASSUME NEW d \in Thread PROVE NewState(d) = Recurrence(z, S, n)[h][w][d + 1]
  <2>1. Turn(z, S, n)[h][w][d + 1] =
          z.g[n][h] * S[h][w][d + 1] + (z.beta[n][h] * (z.v[n][h][w] - Retrieved)) * z.k[n][h \div r][d + 1]
    BY <1>1, <1>4, TurnElement
  <2>2. Correction = z.beta[n][h] * (z.v[n][h][w] - Retrieved)
    BY <1>1 DEF Correction, Retrieved
  <2>3. NewState(d) = z.g[n][h] * S[h][w][d + 1] + Correction * z.k[n][h \div r][d + 1]
    BY <1>1, <1>3 DEF NewState
  <2> QED
    BY <1>5, <2>1, <2>2, <2>3
<1>7. Answer = Reading(z, Recurrence(z, S, n), n)[h][w]
  <2> DEFINE f == [d \in Thread |-> NewState(d) * q[keyAt(d)]]
             e == [c \in Cols |-> Recurrence(z, S, n)[h][w][c] * z.q[n][KeyHead(h)][c]]
  <2>1. DOMAIN f = Thread /\ DOMAIN e = 1..Dk /\ Dk \in Nat
    BY DimensionAssumption DEF Cols
  <2>2. KeyHead(h) = h \div r
    BY <1>1, KeyHeadIs
  <2>3. ASSUME NEW d \in Thread PROVE f[d] \in Int /\ e[d + 1] = f[d]
    <3>1. d + 1 \in Cols
      BY <1>1
    <3>2. f[d] = NewState(d) * q[keyAt(d)] /\ f[d] \in Int
      BY <1>2
    <3>3. e[d + 1] = Recurrence(z, S, n)[h][w][d + 1] * z.q[n][h \div r][d + 1]
      BY <2>2, <3>1
    <3>4. NewState(d) = Recurrence(z, S, n)[h][w][d + 1] /\ q[keyAt(d)] = z.q[n][h \div r][d + 1]
      BY <1>1, <1>6
    <3> QED
      BY <3>2, <3>3, <3>4
  <2>4. Answer = Total(f)
    BY DEF Answer
  <2>5. Reading(z, Recurrence(z, S, n), n)[h][w] = SumFunction(e)
    BY <1>1 DEF Reading
  <2> HIDE DEF e, f
  <2>6. Total(f) = SumTo(f, Dk)
    BY <1>1, <2>1, TotalIs
  <2>7. Sum(e, 1..Dk) = SumTo(f, Dk)
    BY <1>1, <2>1, <2>3, SumShifted
  <2>8. SumFunction(e) = Sum(e, 1..Dk)
    BY <2>1, SumFunctionIs
  <2> QED
    BY <2>4, <2>5, <2>6, <2>7, <2>8
<1> QED
  BY <1>6, <1>7

(* The kernel is what the oracle says it should be: on arrays that hold a  *)
(* token and the state before it, a block that has run has left the state  *)
(* after it, and the row _forward returns, or, masked, the state and zero. *)
THEOREM KernelAgreesWithOracle ==
  ASSUME NEW z \in Tensors, NEW S \in States, NEW n \in Tokens
  PROVE  Spec => [](launched = "yes" /\ LaidOut(z, S, n) => BlockAgrees(z, S, n))
<1>1. IInv /\ ResultCorrect => (launched = "yes" /\ LaidOut(z, S, n) => BlockAgrees(z, S, n))
  <2> SUFFICES ASSUME IInv, ResultCorrect, launched = "yes", LaidOut(z, S, n) PROVE BlockAgrees(z, S, n)
    OBVIOUS
  <2>0. PICK h, w : h = cell.h /\ w = cell.dv + 1
    OBVIOUS
  <2>1. /\ h \in Heads /\ w \in Rows /\ 0 \in Thread
        /\ \A d \in Thread : state[si(d)] = S[h][w][d + 1]
    BY <2>0, RowLaidOut
  <2>2. /\ \A d \in Thread : NewState(d) = Recurrence(z, S, n)[h][w][d + 1]
        /\ Answer = Reading(z, Recurrence(z, S, n), n)[h][w]
    BY <2>0, RowIsTurn
  <2>3. /\ \A d \in Thread : pc[d] = "done" => out[d] = IF masked THEN state[si(d)] ELSE NewState(d)
        /\ pc[0] = "done" => y = IF masked THEN 0 ELSE Answer
    BY DEF ResultCorrect, Answer
  <2>4. masked <=> ~z.mask[n]
    BY DEF LaidOut
  <2>5. NoRow[h][w] = 0
    BY <2>1 DEF NoRow
  <2> QED
    BY <2>0, <2>1, <2>2, <2>3, <2>4, <2>5 DEF BlockAgrees
<1> QED
  BY <1>1, IInvariant, BlockComputesRecurrence, PTL
=============================================================================
