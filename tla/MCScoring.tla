----------------------------- MODULE MCScoring ------------------------------
(* Scoring on small instances: the identifiers are model values. *)
EXTENDS Scoring, TLC

CONSTANTS c1, c2, t1, t2, r1, r2, p1, p2, e1

=============================================================================
