----------------------------- MODULE MCCollapse -----------------------------
(* Collapse on small instances: the identifiers are model values. *)
EXTENDS Collapse, TLC

CONSTANTS c1, c2, t1, t2, r1, r2, p1, p2, e1

Symmetry == Permutations(Cand) \cup Permutations(Tx) \cup Permutations(Path)
              \cup Permutations(Recon)
=============================================================================
