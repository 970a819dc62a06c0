------------------------------- MODULE Eager -------------------------------
(***************************************************************************)
(* A value that is used several times, computed once.                      *)
(***************************************************************************)
EXTENDS Integers, Sequences, SequencesExt

(* Op(x), with x computed before Op.                                       *)
Once(Op(_), x) == CHOOSE r \in {Op(v) : v \in {x}} : TRUE

(* A fold that computes what it has so far at each step.                   *)
Fold(Op(_, _), base, s) == FoldLeft(LAMBDA r, x : Once(LAMBDA v : Op(v, x), r), base, s)
=============================================================================
