-------------------------- MODULE GdnDecodeKernel --------------------------
(***************************************************************************)
(* launch_gdn_decode_reference and the CUDA kernel step of                 *)
(* native/cuda/gdn_decode_reference.cu: the checks of the launch, then the *)
(* Dk threads of one block, interleaved access by access, with the shared  *)
(* array tmp and the block barrier __syncthreads.  Blocks share no memory  *)
(* they write, so one block, for any row of the grid, stands for all.      *)
(*                                                                         *)
(* Numbers are integers: the rounding of float is not modelled.  Arrays    *)
(* are functions on flat indices, as in the code.                          *)
(***************************************************************************)
EXTENDS Integers, FiniteSets, Functions

CONSTANTS Dims,       \* argument tuples [B, Hk, Hv, Dk, Dv] of a launch
          Widths,     \* the values of Dk the launch accepts, powers of two
          MaxDim, IntMax,  \* bounds the launch checks
          q, k, v, g, beta, state,   \* contents of the input arrays
          Garbage     \* contents of memory nobody has written

ASSUME WidthAssumption == Widths \subseteq {2, 4, 8, 16, 32, 64, 128, 256}
ASSUME DimsAssumption ==
  Dims \subseteq [B : Int, Hk : Int, Hv : Int, Dk : 1..256, Dv : Int]
ASSUME BoundAssumption == MaxDim \in Nat /\ IntMax \in Nat
ASSUME GarbageAssumption == Garbage \in Int

\* The header's contract with the caller: an array holds as many numbers as
\* its shape says.
Holds(a, n) == \A i \in 0..(n - 1) : i \in DOMAIN a /\ a[i] \in Int
ASSUME ArrayAssumption ==
  \A D \in Dims : /\ Holds(q, D.B * D.Hk * D.Dk) /\ Holds(k, D.B * D.Hk * D.Dk)
                  /\ Holds(v, D.B * D.Hv * D.Dv) /\ Holds(g, D.B * D.Hv)
                  /\ Holds(beta, D.B * D.Hv) /\ Holds(state, D.B * D.Hv * D.Dv * D.Dk)

VARIABLES dims,      \* the arguments of the launch
          pointersOk,\* no pointer is null, no checked pair is aliased
          cell,      \* the batch, value head and value row of the block
          masked,    \* mask && !mask[b]
          launched,  \* "no", "refused" or "yes"
          pc,        \* next access of each thread
          round,     \* which of the two reduction loops it is in or before
          offset,    \* its loop variable
          s,         \* its register s
          sum,       \* tmp[d] + tmp[d + offset] on its way from load to store
          delta,     \* its register delta
          tmp,       \* the shared array
          out, y     \* next_state and y of this row

arguments == <<dims, pointersOk, cell, masked>>
registers == <<round, offset, s, sum, delta>>
memory == <<tmp, out, y>>
vars == <<arguments, launched, pc, registers, memory>>

Width == dims.Dk  \* Dk of the code
Thread == 0..(Width - 1)
Waiting == {"sync_store", "sync_reduce", "sync_delta"}

\* blockIdx.x of the block that the cell is for.
row == (cell.b * dims.Hv + cell.h) * dims.Dv + cell.dv

Init == /\ dims \in Dims
        /\ pointersOk \in BOOLEAN
        /\ cell = [b |-> 0, h |-> 0, dv |-> 0]
        /\ masked = FALSE
        /\ launched = "no"
        /\ pc = [d \in Thread |-> "mask"]
        /\ round = [d \in Thread |-> 1]
        /\ offset = [d \in Thread |-> 0]
        /\ s = [d \in Thread |-> Garbage]
        /\ sum = [d \in Thread |-> Garbage]
        /\ delta = [d \in Thread |-> Garbage]
        /\ tmp = [d \in Thread |-> Garbage]
        /\ out = [d \in Thread |-> Garbage]
        /\ y = Garbage

\* The kernel's decoding of blockIdx.x, and the indices it derives.
hv == (row \div dims.Dv) % dims.Hv
b  == row \div (dims.Hv * dims.Dv)
\* A defect, not part of Next: value heads interleaved over the key heads.
HeadByModulo == hv % dims.Hk
hk == hv \div (dims.Hv \div dims.Hk)
si(d) == row * Width + d
qi(d) == (b * dims.Hk + hk) * Width + d
gi == b * dims.Hv + hv

Goto(d, l) == pc' = [pc EXCEPT ![d] = l]

----------------------------------------------------------------------------
(* Defects the properties below must catch.  None of them is part of Next. *)

\* Halving that rounds up.
HalvesUp(n) == (n + 1) \div 2

\* The barrier after reading tmp[0] is missing.
DeltaWithoutBarrier(d) ==
  /\ pc[d] = "delta"
  /\ delta' = [delta EXCEPT ![d] = (v[row] - tmp[0]) * beta[gi]]
  /\ Goto(d, "update")
  /\ UNCHANGED <<arguments, launched, round, offset, s, sum, memory>>

\* __syncthreads inside the if: threads that do not add go on to the end.
LoopSkipsBarrier(d, n, r) ==
  IF d < n THEN "load" ELSE IF r = 1 THEN "delta" ELSE IF d = 0 THEN "result" ELSE "done"

\* The head counts are not checked against each other.
AcceptsAnyHeads ==
  pointersOk /\ dims.B > 0 /\ dims.Hk > 0 /\ dims.Hv > 0 /\ dims.Dv > 0 /\ Width \in Widths

----------------------------------------------------------------------------
(* The checks of launch_gdn_decode_reference; Hv % Hk is only evaluated    *)
(* for a positive Hk.                                                      *)
Accepts == /\ pointersOk
           /\ dims.B > 0 /\ dims.Hk > 0 /\ dims.Hv > 0 /\ dims.Dv > 0
           /\ dims.Hv % dims.Hk = 0
           /\ Width \in Widths
           /\ dims.B <= MaxDim /\ dims.Hv <= MaxDim /\ dims.Dv <= MaxDim
           /\ dims.B * dims.Hv * dims.Dv <= IntMax

Launch ==
  /\ launched = "no" /\ Accepts
  /\ launched' = "yes"
  /\ cell' \in [b : 0..(dims.B - 1), h : 0..(dims.Hv - 1), dv : 0..(dims.Dv - 1)]
  /\ masked' \in BOOLEAN
  /\ UNCHANGED <<dims, pointersOk, pc, registers, memory>>

Refuse ==
  /\ launched = "no" /\ ~Accepts
  /\ launched' = "refused"
  /\ UNCHANGED <<arguments, pc, registers, memory>>

\* A masked row is copied and the thread returns; mask[b] is the block's.
Mask(d) ==
  /\ pc[d] = "mask"
  /\ IF masked
     THEN /\ out' = [out EXCEPT ![d] = state[si(d)]]
          /\ Goto(d, IF d = 0 THEN "zero" ELSE "done")
     ELSE /\ Goto(d, "store")
          /\ UNCHANGED out
  /\ UNCHANGED <<arguments, launched, registers, tmp, y>>

Zero(d) ==
  /\ pc[d] = "zero"
  /\ y' = 0
  /\ Goto(d, "done")
  /\ UNCHANGED <<arguments, launched, registers, tmp, out>>

\* tmp[d] = s * k[qi], before the first reduction.
Store(d) ==
  /\ pc[d] = "store"
  /\ s' = [s EXCEPT ![d] = state[si(d)] * g[gi]]
  /\ tmp' = [tmp EXCEPT ![d] = s'[d] * k[qi(d)]]
  /\ Goto(d, "sync_store")
  /\ UNCHANGED <<arguments, launched, round, offset, sum, delta, out, y>>

Halve(n) == n \div 2

\* The head of a reduction loop with loop variable n: the threads below n add,
\* the others go to the barrier; after the loop, the two sites differ.
LoopHead(d, n, r) ==
  IF n > 0 THEN IF d < n THEN "load" ELSE "sync_reduce"
  ELSE IF r = 1 THEN "delta"
  ELSE IF d = 0 THEN "result" ELSE "done"

\* tmp[d] += tmp[d + offset] is two loads and a store.
Load(d) ==
  /\ pc[d] = "load"
  /\ sum' = [sum EXCEPT ![d] = tmp[d] + tmp[d + offset[d]]]
  /\ Goto(d, "add")
  /\ UNCHANGED <<arguments, launched, round, offset, s, delta, memory>>

Add(d) ==
  /\ pc[d] = "add"
  /\ tmp' = [tmp EXCEPT ![d] = sum[d]]
  /\ Goto(d, "sync_reduce")
  /\ UNCHANGED <<arguments, launched, registers, out, y>>

Delta(d) ==
  /\ pc[d] = "delta"
  /\ delta' = [delta EXCEPT ![d] = (v[row] - tmp[0]) * beta[gi]]
  /\ Goto(d, "sync_delta")
  /\ UNCHANGED <<arguments, launched, round, offset, s, sum, memory>>

\* The new state, and tmp[d] = s * q[qi] for the second reduction.
Update(d) ==
  /\ pc[d] = "update"
  /\ s' = [s EXCEPT ![d] = @ + delta[d] * k[qi(d)]]
  /\ out' = [out EXCEPT ![d] = s'[d]]
  /\ tmp' = [tmp EXCEPT ![d] = s'[d] * q[qi(d)]]
  /\ round' = [round EXCEPT ![d] = 2]
  /\ Goto(d, "sync_store")
  /\ UNCHANGED <<arguments, launched, offset, sum, delta, y>>

Result(d) ==
  /\ pc[d] = "result"
  /\ y' = tmp[0]
  /\ Goto(d, "done")
  /\ UNCHANGED <<arguments, launched, registers, tmp, out>>

(* __syncthreads: when every thread that has not returned waits, all go    *)
(* on, each from the barrier it waits at.                                  *)
Sync ==
  /\ \A d \in Thread : pc[d] \in Waiting \cup {"done"}
  /\ \E d \in Thread : pc[d] \in Waiting
  /\ offset' = [d \in Thread |-> CASE pc[d] = "sync_store"  -> Halve(Width)
                                   [] pc[d] = "sync_reduce" -> Halve(offset[d])
                                   [] OTHER -> offset[d]]
  /\ pc' = [d \in Thread |-> CASE pc[d] \in {"sync_store", "sync_reduce"} ->
                                    LoopHead(d, offset'[d], round[d])
                               [] pc[d] = "sync_delta" -> "update"
                               [] OTHER -> "done"]
  /\ UNCHANGED <<arguments, launched, round, s, sum, delta, memory>>

Execute(d) ==
  /\ launched = "yes"
  /\ \/ Mask(d) \/ Zero(d) \/ Store(d) \/ Load(d) \/ Add(d)
     \/ Delta(d) \/ Update(d) \/ Result(d)

Next == Launch \/ Refuse \/ Sync \/ \E d \in Thread : Execute(d)

Spec == Init /\ [][Next]_vars

\* The device goes on while a thread of a resident block can.
FairSpec == Spec /\ WF_vars(Next)

----------------------------------------------------------------------------
Offsets == {0, 1, 2, 4, 8, 16, 32, 64, 128}

(* Type correctness; the loop variable only takes powers of two.           *)
TypeOK == /\ dims \in Dims /\ pointersOk \in BOOLEAN /\ masked \in BOOLEAN
          /\ cell \in [b : Nat, h : Nat, dv : Nat]
          /\ launched \in {"no", "refused", "yes"}
          /\ pc \in [Thread -> {"mask", "zero", "store", "load", "add", "delta",
                               "update", "result", "done"} \cup Waiting]
          /\ round \in [Thread -> {1, 2}]
          /\ offset \in [Thread -> Offsets]
          /\ s \in [Thread -> Int] /\ sum \in [Thread -> Int]
          /\ delta \in [Thread -> Int] /\ tmp \in [Thread -> Int]
          /\ out \in [Thread -> Int] /\ y \in Int

\* The elements of tmp that the next access of a thread reads and writes.
Reads(d)  == CASE pc[d] = "load" -> {d, d + offset[d]}
               [] pc[d] \in {"delta", "result"} -> {0}
               [] OTHER -> {}
Writes(d) == IF pc[d] \in {"store", "add", "update"} THEN {d} ELSE {}

(* The grid index fits an int, as the narrowing to dv, hv and b needs, it  *)
(* decodes to the cell it was made for, and every index derived from it    *)
(* lies in its array, as does every access to the shared array, for every  *)
(* launch that is accepted.                                                *)
IndicesInRange ==
  launched = "yes" =>
    /\ <<b, hv, row % dims.Dv>> = <<cell.b, cell.h, cell.dv>>
    /\ hk \in 0..(dims.Hk - 1)
    /\ row \in 0..(dims.B * dims.Hv * dims.Dv - 1) /\ row < IntMax
    /\ gi \in 0..(dims.B * dims.Hv - 1)
    /\ \A d \in Thread : /\ si(d) \in 0..(dims.B * dims.Hv * dims.Dv * Width - 1)
                         /\ qi(d) \in 0..(dims.B * dims.Hk * Width - 1)
                         /\ Reads(d) \cup Writes(d) \subseteq Thread

(* No data race on the shared array: whenever two threads may access it    *)
(* next, neither writes what the other accesses.                           *)
RaceFree ==
  launched = "yes" =>
    \A d, e \in Thread : d # e => Writes(d) \cap (Reads(e) \cup Writes(e)) = {}

(* Threads of a block never wait at different barriers, nor at one that a  *)
(* thread has left by returning.                                           *)
BarrierUniform ==
  \A d, e \in Thread : pc[d] \in Waiting /\ pc[e] \in Waiting \cup {"done"}
                         => pc[d] = pc[e] /\ offset[d] = offset[e]

\* The recurrence of the row, as the host test computes it from the cell.
headOf == cell.h \div (dims.Hv \div dims.Hk)
gate == cell.b * dims.Hv + cell.h
keyAt(d) == (cell.b * dims.Hk + headOf) * Width + d
Total(f) == FoldFunction(LAMBDA x, z : x + z, 0, f)
Decayed(d) == state[si(d)] * g[gate]
Correction == beta[gate] * (v[row] - Total([d \in Thread |-> Decayed(d) * k[keyAt(d)]]))
NewState(d) == Decayed(d) + Correction * k[keyAt(d)]

(* The block computes the recurrence of its row, whatever the order of its *)
(* threads: each element of the new state once its thread has returned,    *)
(* and y; a masked row keeps its state and yields 0.                       *)
ResultCorrect ==
  launched = "yes" =>
    /\ \A d \in Thread : pc[d] = "done" =>
         out[d] = IF masked THEN state[si(d)] ELSE NewState(d)
    /\ pc[0] = "done" =>
         y = IF masked THEN 0 ELSE Total([d \in Thread |-> NewState(d) * q[keyAt(d)]])

(* An accepted launch runs to the end: no thread is left at a barrier.     *)
Terminates == <>(launched = "refused" \/ \A d \in Thread : pc[d] = "done")
=============================================================================
