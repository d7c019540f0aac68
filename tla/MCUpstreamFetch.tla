--------------------------- MODULE MCUpstreamFetch ---------------------------
(* Two revisions; locks that are approved, not yet reviewed, approved      *)
(* without evidence, of another repository and with a branch name.         *)
EXTENDS UpstreamFetch

CONSTANTS r1, r2

Approved(r) == [review_state |-> "approved", review_evidence |-> TRUE,
                ours |-> TRUE, revision |-> r]

MCLocks == {Approved(r1), Approved(r2),
            [Approved(r2) EXCEPT !.review_state = "resolved_unreviewed"],
            [Approved(r2) EXCEPT !.review_evidence = FALSE],
            [Approved(r2) EXCEPT !.ours = FALSE],
            Approved(NotSha)}
=============================================================================
