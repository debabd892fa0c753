----------------------------- MODULE MCFixedRC -----------------------------
(***************************************************************************)
(* The converter with a window of a few samples: both modes of kind 1, the *)
(* two modes between 8000 and 9600, the two between 8000 and 48000, and    *)
(* two whose factors have no 1 among them.                      *)
(***************************************************************************)
EXTENDS FixedRC

MCTaps == [m \in 0 .. 19 |-> IF m % 2 = 0 THEN 3 ELSE 4]

=============================================================================
