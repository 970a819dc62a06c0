--------------------------- MODULE MeasurementQueue ---------------------------
(***************************************************************************)
(* What a BufferedWriter promises to the producers of measurements: a      *)
(* lossy FIFO queue.  Rows are numbered in the order in which they are     *)
(* accepted.  The queue hands rows on, each for the first time in that     *)
(* order, may hand a row on again, and under pressure drops its oldest     *)
(* rows; a row that was dropped before it was handed on never reappears.   *)
(***************************************************************************)
EXTENDS Integers

VARIABLES
  accepted,   \* rows 1..accepted were accepted
  delivered,  \* rows handed to the out stream at least once
  dropped     \* rows taken out of the queue to make room

vars == <<accepted, delivered, dropped>>

Init ==
  /\ accepted = 0
  /\ delivered = {}
  /\ dropped = {}

Accept ==
  /\ accepted' = accepted + 1
  /\ UNCHANGED <<delivered, dropped>>

(* Rows are first handed on in order: each is newer than all before it.    *)
Deliver ==
  /\ \E rows \in SUBSET ((1..accepted) \ (delivered \cup dropped)) :
       /\ \A m \in rows, n \in delivered : n < m
       /\ delivered' = delivered \cup rows
  /\ UNCHANGED <<accepted, dropped>>

(* Everything older than a row that is dropped was handed on or dropped.   *)
Drop ==
  /\ \E rows \in SUBSET ((1..accepted) \ dropped) :
       /\ \A m \in rows, n \in 1..accepted :
            n < m => n \in delivered \cup dropped \cup rows
       /\ dropped' = dropped \cup rows
  /\ UNCHANGED <<accepted, delivered>>

Next == Accept \/ Deliver \/ Drop

Spec == Init /\ [][Next]_vars
===============================================================================
