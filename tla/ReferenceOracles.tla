-------------------------- MODULE ReferenceOracles --------------------------
(***************************************************************************)
(* The oracles a production kernel is compared with, called as their tests *)
(* call them: a sequence of tokens is cut into pieces; each piece goes     *)
(* through causal_gqa (reference/attention.py) with the keys and values so *)
(* far, and through gdn_forward (reference/gdn.py) with the state the      *)
(* previous piece returned.  After the last piece gdn_vjp is called on the *)
(* pieces from last to first, each with the state cotangent the piece      *)
(* after it returned.                                                      *)
(*                                                                         *)
(* One turn of a loop is one action, and the actions keep the names of the *)
(* code's arrays.  Numbers are integers, so that equality is exact; float  *)
(* rounding is not modelled.  The batch axis is left out: no operation     *)
(* mixes two of its indices.  In place of the softmax of causal_gqa stands *)
(* the set of keys it ranges over.                                         *)
(***************************************************************************)
EXTENDS Integers, Sequences, SequencesExt

CONSTANTS T, Hk, Hv, Dk, Dv,  \* tokens, key and value heads, their widths
          Inputs              \* tensors of these shapes, see Tensors

ASSUME DimensionAssumption == /\ {T, Hk, Hv, Dk, Dv} \subseteq Nat \ {0}
                              /\ Hv % Hk = 0

Tokens == 1 .. T
Heads  == 0 .. Hv - 1
KHeads == 0 .. Hk - 1
Rows   == 1 .. Dv
Cols   == 1 .. Dk
r      == Hv \div Hk

States  == [Heads -> [Rows -> [Cols -> Int]]]
Tensors == [q : [Tokens -> [KHeads -> [Cols -> Int]]],
            k : [Tokens -> [KHeads -> [Cols -> Int]]],
            v : [Tokens -> [Heads -> [Rows -> Int]]],
            g : [Tokens -> [Heads -> Int]],
            beta : [Tokens -> [Heads -> Int]],
            state : States,
            mask : [Tokens -> BOOLEAN],
            dy : [Tokens -> [Heads -> [Rows -> Int]]],  \* cotangents of the
            ds : States]                                \* outputs and the state

ASSUME InputAssumption == Inputs \subseteq Tensors

VARIABLES args,         \* the caller's tensors
          pieces,       \* the calls of the forward pass: first and last token, state given
          at,           \* the piece gdn_vjp is called on, 0 before its first call
          phase, t,     \* where the current call is, and its loop variable
          running, ys,  \* s and y of _forward; ys holds what every piece has returned
          trace,        \* of _forward with record set
          attended,     \* for each token and head, the <<token, head>> of each key it attends to
          carry, cots,  \* of gdn_vjp; cots holds dqr, dkr, dv, dg and db of all pieces
          grads         \* what gdn_vjp has returned for q and k

oracleVars ==
  <<args, pieces, at, phase, t, running, ys, trace, attended, carry, cots, grads>>

----------------------------------------------------------------------------
(* The array expressions of the code, on one token.                        *)

\* np.repeat(a, r, axis=2)
Repeat(a) == [h \in Heads |-> a[h \div r]]

\* einsum('bhvk,bhk->bhv') and einsum('bhvk,bhv->bhk')
Apply(S, a)      == [h \in Heads |-> [v \in Rows |-> SumFunction([k \in Cols |-> S[h][v][k] * a[h][k]])]]
Transposed(S, b) == [h \in Heads |-> [k \in Cols |-> SumFunction([v \in Rows |-> S[h][v][k] * b[h][v]])]]

Outer(b, a)  == [h \in Heads |-> [v \in Rows |-> [k \in Cols |-> b[h][v] * a[h][k]]]]
Plus(S, U)   == [h \in Heads |-> [v \in Rows |-> [k \in Cols |-> S[h][v][k] + U[h][v][k]]]]
Scaled(c, S) == [h \in Heads |-> [v \in Rows |-> [k \in Cols |-> c[h] * S[h][v][k]]]]
Minus(b, e)  == [h \in Heads |-> [v \in Rows |-> b[h][v] - e[h][v]]]
Times(c, b)  == [h \in Heads |-> [v \in Rows |-> c[h] * b[h][v]]]

\* np.sum(b*e, axis=-1) and np.sum(S*U, axis=(-2,-1))
Dot(b, e)   == [h \in Heads |-> SumFunction([v \in Rows |-> b[h][v] * e[h][v]])]
Inner(S, U) == [h \in Heads |-> SumFunction([v \in Rows |-> SumFunction([k \in Cols |-> S[h][v][k] * U[h][v][k]])])]

NoRow   == [h \in Heads |-> [v \in Rows |-> 0]]
NoCol   == [h \in Heads |-> [k \in Cols |-> 0]]
NoState == [h \in Heads |-> [v \in Rows |-> [k \in Cols |-> 0]]]
NoGate  == [h \in Heads |-> 0]

----------------------------------------------------------------------------
OracleInit ==
  /\ args \in Inputs
  /\ pieces = <<>>
  /\ at = 0
  /\ phase = "idle"
  /\ t = 0
  /\ running = args.state
  /\ ys = [n \in Tokens |-> NoRow]
  /\ trace = <<>>
  /\ attended = [n \in Tokens |-> [h \in Heads |-> {}]]
  /\ carry = args.ds
  /\ cots = [qr |-> [n \in Tokens |-> NoCol], kr |-> [n \in Tokens |-> NoCol],
             v |-> [n \in Tokens |-> NoRow], g |-> [n \in Tokens |-> NoGate],
             beta |-> [n \in Tokens |-> NoGate]]
  /\ grads = [q |-> [n \in Tokens |-> [h \in KHeads |-> [k \in Cols |-> 0]]],
              k |-> [n \in Tokens |-> [h \in KHeads |-> [k \in Cols |-> 0]]]]

Processed == IF pieces = <<>> THEN 0 ELSE Last(pieces).hi
Recording == at > 0
Piece     == pieces[IF Recording THEN at ELSE Len(pieces)]

\* Query i of n, with m keys and values cached, sees key j: by the index
\* of the query in its piece (a defect), and as the code has it.
SeesByIndex(j, i, n, m) == j <= i
Sees(j, i, n, m) == j <= m - n + i

\* The caller's next piece: causal_gqa(q[lo..hi], k[1..hi], v[1..hi]).
Attend(hi) ==
  LET lo == Processed + 1
      Keys(n) == {j \in 0 .. hi - 1 : Sees(j, n - lo, hi - lo + 1, hi)}
  IN  /\ phase = "idle" /\ ~Recording
      /\ hi \in lo .. T
      /\ attended' = [n \in Tokens |->
           IF n \in lo .. hi THEN [h \in Heads |-> {<<j + 1, h \div r>> : j \in Keys(n)}]
                             ELSE attended[n]]
      /\ pieces' = Append(pieces, [lo |-> lo, hi |-> hi, state |-> running])
      /\ t' = lo
      /\ phase' = "forward"
      /\ UNCHANGED <<args, at, running, ys, trace, carry, cots, grads>>

----------------------------------------------------------------------------
(* The loop of _forward.                                                   *)

\* The state a turn leaves: one that decays at a masked token too (a
\* defect), and the code's.
NextStateDecays(st) == IF args.mask[t] THEN st.updated ELSE st.decayed
NextState(st) == IF args.mask[t] THEN st.updated ELSE st.prev

ForwardStep ==
  LET kr       == Repeat(args.k[t])
      decayed  == Scaled(args.g[t], running)
      residual == Minus(args.v[t], Apply(decayed, kr))
      delta    == Times(args.beta[t], residual)
      step     == [prev |-> running, decayed |-> decayed, residual |-> residual,
                   delta |-> delta, updated |-> Plus(decayed, Outer(delta, kr))]
  IN  /\ phase = "forward" /\ t <= Piece.hi
      /\ running' = NextState(step)
      /\ ys' = [ys EXCEPT ![t] = IF args.mask[t] THEN Apply(step.updated, Repeat(args.q[t])) ELSE NoRow]
      /\ trace' = IF Recording THEN Append(trace, step) ELSE trace
      /\ t' = t + 1
      /\ UNCHANGED <<args, pieces, at, phase, attended, carry, cots, grads>>

\* _forward returns: to gdn_vjp, or through gdn_forward to the caller.
Return ==
  /\ phase = "forward" /\ t > Piece.hi
  /\ \/ Recording /\ phase' = "backward" /\ t' = Piece.hi
     \/ ~Recording /\ phase' = "idle" /\ UNCHANGED t
  /\ UNCHANGED <<args, pieces, at, running, ys, trace, attended, carry, cots, grads>>

----------------------------------------------------------------------------
(* gdn_vjp.                                                                *)

\* It is called on the last piece that is left, with the state that piece
\* was given and ds_final = carry; it first runs _forward again, recording.
Vjp ==
  LET p == IF Recording THEN at - 1 ELSE Len(pieces)
  IN  /\ phase = "idle" /\ Processed = T
      /\ at' = p
      /\ running' = pieces[p].state
      /\ t' = pieces[p].lo
      /\ trace' = <<>>
      /\ phase' = "forward"
      /\ UNCHANGED <<args, pieces, ys, attended, carry, cots, grads>>

\* The cotangent of a gate: by the state after the decay (a defect), and
\* by the one before it.
GateCotangentDecayed(dp, st) == Inner(dp, st.decayed)
GateCotangent(dp, st) == Inner(dp, st.prev)

BackwardStep ==
  LET st == trace[t - Piece.lo + 1]
      qr == Repeat(args.q[t])
      kr == Repeat(args.k[t])
      yt == IF args.mask[t] THEN args.dy[t] ELSE NoRow
      du == Plus(IF args.mask[t] THEN carry ELSE NoState, Outer(yt, qr))
      dd == Apply(du, kr)
      dv == Times(args.beta[t], dd)
      dr == Minus(NoRow, dv)
      dp == Plus(du, Outer(dr, kr))
      direct   == Transposed(du, st.delta)
      residual == Transposed(st.decayed, dr)
  IN  /\ phase = "backward" /\ t >= Piece.lo
      /\ cots' = [cots EXCEPT
           !.qr[t]   = Transposed(st.updated, yt),
           !.kr[t]   = [h \in Heads |-> [k \in Cols |-> direct[h][k] + residual[h][k]]],
           !.v[t]    = dv,
           !.g[t]    = GateCotangent(dp, st),
           !.beta[t] = Dot(dd, st.residual)]
      /\ carry' = IF args.mask[t] THEN Scaled(args.g[t], dp) ELSE carry
      /\ t' = t - 1
      /\ UNCHANGED <<args, pieces, at, phase, running, ys, trace, attended, grads>>

\* reshape(B,T,Hk,r,Dk).sum(axis=3)
OverGroup(a) == [h \in KHeads |-> [k \in Cols |->
                   SumFunction([i \in 0 .. r - 1 |-> a[h * r + i][k]])]]

ReturnVjp ==
  LET Summed(old, a) == [n \in Tokens |-> IF n \in Piece.lo .. Piece.hi THEN OverGroup(a[n]) ELSE old[n]]
  IN  /\ phase = "backward" /\ t < Piece.lo
      /\ grads' = [q |-> Summed(grads.q, cots.qr), k |-> Summed(grads.k, cots.kr)]
      /\ phase' = IF at = 1 THEN "done" ELSE "idle"
      /\ UNCHANGED <<args, pieces, at, t, running, ys, trace, attended, carry, cots>>

OracleNext == \/ \E hi \in Tokens : Attend(hi)
              \/ ForwardStep \/ Return
              \/ Vjp \/ BackwardStep \/ ReturnVjp

OracleSpec == OracleInit /\ [][OracleNext]_oracleVars

----------------------------------------------------------------------------
(* What the oracles are meant to compute, over the whole sequence at once: *)
(* the recurrence over the tokens that are not masked, an element at a     *)
(* time and with its two updates of the state multiplied out,              *)
(*     S[v][k] <- g (S[v][k] - beta k_k <S[v], k>) + beta v_v k_k          *)
(* and as the gradient the derivative of                                   *)
(*     Loss = <dy, y> + <ds, final state>.                                 *)

\* The key head of a value head: heads are grouped in runs of r.
KeyHead(h) == CHOOSE kh \in KHeads : h \in kh * r .. kh * r + r - 1

Unmasked(z, n) == {i \in 1 .. n : z.mask[i]}

Recurrence(z, S, n) ==
  [h \in Heads |-> [v \in Rows |->
    LET key == z.k[n][KeyHead(h)]
        SK  == SumFunction([j \in Cols |-> S[h][v][j] * key[j]])
    IN  [k \in Cols |-> z.g[n][h] * (S[h][v][k] - z.beta[n][h] * key[k] * SK)
                          + z.beta[n][h] * z.v[n][h][v] * key[k]]]]

\* The last of the tokens comes last.
StateAfter(z, n) ==
  MapThenFoldSet(LAMBDA i, S : Recurrence(z, S, i), z.state, LAMBDA i : i, Max, Unmasked(z, n))

\* The row a state yields.
Reading(z, S, n) ==
  [h \in Heads |-> [v \in Rows |->
     SumFunction([k \in Cols |-> S[h][v][k] * z.q[n][KeyHead(h)][k]])]]

Readout(z, n) == Reading(z, StateAfter(z, n), n)

Loss(z) ==
  SumFunction([n \in Unmasked(z, T) |-> SumFunction(Dot(z.dy[n], Readout(z, n)))])
    + SumFunction(Inner(z.ds, StateAfter(z, T)))

\* The loss is a polynomial of degree at most two in each single element, so
\* half its symmetric difference over one step up and one down is exactly
\* its derivative.
IsDerivative(cotangent, up, down) == 2 * cotangent = Loss(up) - Loss(down)

----------------------------------------------------------------------------
(* Wherever the sequence is cut and whatever is masked, a piece is given   *)
(* the state, and returns the rows, that one pass over the unmasked tokens *)
(* yields; a masked token's row is zero (gdn.py:43-50).  This holds of the *)
(* pass gdn_vjp records as well.                                           *)
PiecesAgree ==
  /\ phase = "forward" => running = StateAfter(args, t - 1)
  /\ phase = "idle" /\ ~Recording => running = StateAfter(args, Processed)
  /\ \A n \in 1 .. (IF phase = "forward" /\ ~Recording THEN t - 1 ELSE Processed) :
        ys[n] = IF args.mask[n] THEN Readout(args, n) ELSE NoRow

\* A token attends to itself and to every token before it, in the key head
\* of its group, and never to a later token, in whatever piece of the
\* sequence it is and however much is cached before that piece
\* (attention.py:11-14).
AttendsToPast ==
  \A n \in 1 .. Processed, h \in Heads : attended[n][h] = (1 .. n) \X {KeyHead(h)}

\* When gdn_vjp has been called on all pieces, the cotangents it returned
\* are the derivatives of the loss of the whole sequence, in every element
\* of every input (gdn.py:63-88).
GradientsAreDerivatives ==
  phase = "done" =>
    /\ \A n \in Tokens, h \in KHeads, k \in Cols :
         /\ IsDerivative(grads.q[n][h][k], [args EXCEPT !.q[n][h][k] = @ + 1], [args EXCEPT !.q[n][h][k] = @ - 1])
         /\ IsDerivative(grads.k[n][h][k], [args EXCEPT !.k[n][h][k] = @ + 1], [args EXCEPT !.k[n][h][k] = @ - 1])
    /\ \A n \in Tokens, h \in Heads :
         /\ IsDerivative(cots.g[n][h], [args EXCEPT !.g[n][h] = @ + 1], [args EXCEPT !.g[n][h] = @ - 1])
         /\ IsDerivative(cots.beta[n][h], [args EXCEPT !.beta[n][h] = @ + 1], [args EXCEPT !.beta[n][h] = @ - 1])
         /\ \A v \in Rows :
              IsDerivative(cots.v[n][h][v], [args EXCEPT !.v[n][h][v] = @ + 1], [args EXCEPT !.v[n][h][v] = @ - 1])
    /\ \A h \in Heads, v \in Rows, k \in Cols :
         IsDerivative(carry[h][v][k], [args EXCEPT !.state[h][v][k] = @ + 1], [args EXCEPT !.state[h][v][k] = @ - 1])
=============================================================================
