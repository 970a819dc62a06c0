-------------------------------- MODULE Lists --------------------------------
(* Walks over linked lists, written with a recursive function.             *)
EXTENDS Integers, Sequences

(* No element comes twice.                                                 *)
Distinct(list) == \A j, k \in 1..Len(list) : list[j] = list[k] => j = k

(* The elements of list that are in T, in their order.                     *)
Kept(list, T) ==
  LET copied[n \in 0..Len(list)] ==
        IF n = 0 THEN << >>
        ELSE IF list[n] \in T THEN Append(copied[n - 1], list[n]) ELSE copied[n - 1]
  IN  copied[Len(list)]
=============================================================================
