--------------------------- MODULE MCBufferedWriter ---------------------------
(* Small instances of BufferedWriter for TLC; the configurations give the  *)
(* numbers.  Producers are interchangeable.                                *)
EXTENDS BufferedWriter, TLC

Symmetry == Permutations(Producers)
===============================================================================
