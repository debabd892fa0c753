------------------------------- MODULE MCV22 -------------------------------
(***************************************************************************)
(* A V.22bis call for TLC.  Durations keep the order they have in the      *)
(* source, and the relations that the handshake rests on: S1 is longer     *)
(* than the run that counts, 1200 bit/s ones last longer than it takes to  *)
(* believe them, and the waits of a retrain outlast its S1.                *)
(***************************************************************************)
EXTENDS V22Call

MCScaled(ms) ==
  CASE ms \in {59, 135, 3000} -> 1
    [] ms \in {97, 99, 230, 416} -> 2
    [] ms = 449 -> 4
    [] ms = 536 -> 5
    [] ms \in {599, 600} -> 6
    [] ms \in {755, 790, 799} -> 7
    [] ms \in {1300, 1470} -> 9
    [] ms = 1926 -> 11
    [] ms = 1999 -> 12

MCHosts == [Sides -> BOOLEAN]
MCBps == {1200, 2400}

=============================================================================
