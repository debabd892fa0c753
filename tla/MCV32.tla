------------------------------- MODULE MCV32 -------------------------------
(***************************************************************************)
(* A V.32 call with blocks of three symbols.  A word of 8 symbols is two   *)
(* thirds of a block, as in the source; long durations are a few blocks.   *)
(***************************************************************************)
EXTENDS V32Call

\* Durations and thresholds of the source, in the order of the source.
MCScaled(n) ==
  CASE n = 8 -> 2
    [] n = 16 -> 4
    [] n \in {60, 72, 95} -> 3
    [] n = 128 -> 4
    [] n = 139 -> 5
    [] n = 180 -> 3
    [] n = 256 -> 6
    [] n \in {1024, 1232, 1280, 1552} -> 6
    [] n = 2399 -> 6
    [] n = 2400 -> 7
    [] n = 2656 -> 16
    [] n \in {6764, 6912, 7100} -> 9
    [] n = 7920 -> 24

\* Two stations of every rate, of every rate and of 12000 only, of 12000
\* only, and of rates that have none in common because the answering one was
\* asked for a rate V.32 does not have.
Of(own) == [own |-> own, named |-> own]
MCCalls ==
  { [org |-> Of(5), ans |-> Of(5)], [org |-> Of(5), ans |-> Of(4)],
    [org |-> Of(4), ans |-> Of(4)],
    [org |-> Of(4), ans |-> [own |-> 0, named |-> NONE]] }

=============================================================================
