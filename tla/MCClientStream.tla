---------------------------- MODULE MCClientStream ----------------------------
(* Small instances of ClientStream for TLC; the configurations give the    *)
(* numbers.                                                                *)
EXTENDS ClientStream, TLC
===============================================================================
