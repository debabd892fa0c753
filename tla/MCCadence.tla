----------------------------- MODULE MCCadence -----------------------------
(***************************************************************************)
(* The cadence matcher with windows of a few intervals.  Line rhythms are  *)
(* steady, alternating, broken by a long silence, or out of the windows.   *)
(***************************************************************************)
EXTENDS Cadence

Setup(tone, min, max, cycles, loose) ==
  [ tone |-> tone, min_on |-> min, max_on |-> max, min_off |-> min,
    max_off |-> max, cycles |-> cycles, diff |-> 0, loose |-> loose,
    voice |-> FALSE ]

\* 4 and 6 in units of 10 ms are 2 and 3 intervals.
MCSetups ==
  { Setup("BUSY", 4, 6, 3, FALSE), Setup("BUSY", 4, 6, 2, TRUE),
    Setup("BUSY", 4, 6, 4, TRUE), Setup("BUSY", 0, 0, 3, FALSE),
    Setup("CONG", 4, 6, 2, FALSE), Setup("RING", 0, 6, 2, FALSE),
    Setup("DIAL", 0, 0, 3, FALSE),
    [Setup("DIAL", 0, 0, 3, FALSE) EXCEPT !.voice = TRUE] }

Line(first, bursts, gaps) == [first |-> first, bursts |-> bursts, gaps |-> gaps]

MCLines ==
  { Line({1, 9}, {4}, {3}),
    Line({1}, {3}, {3, 7}),
    Line({3}, {3, 7}, {4}),
    Line({3}, {3}, {4, 14}),
    Line({2}, {6}, {6}),
    Line({5}, {12}, {12}) }

=============================================================================
