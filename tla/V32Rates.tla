------------------------------ MODULE V32Rates ------------------------------
(***************************************************************************)
(* src/pump/v32/V32int.c: the rate words two V.32 stations exchange.       *)
(*                                                                         *)
(* A rate index is 0 .. 6, as in V32_RATE_4800 .. V32_RATE_NONE, and a     *)
(* sequence word is the set of its rate bits: 0x0008 is "14400", 0x0020    *)
(* "12000", 0x0040 "7200", 0x0080 "T" (trellis), 0x0200 "9600", 0x0400     *)
(* "4800".  The bits that are the same in every word (0x0111, and 0xf000   *)
(* in an E word) are what a detector frames on and are left to the kind of *)
(* the signal.                                                             *)
(***************************************************************************)
EXTENDS Integers

Bits == { "4800", "7200", "T", "9600", "12000", "14400" }
NONE == 6
Rates == 0 .. 5
AnyRate == 0 .. NONE

\* V32_RATE_SEQ: only a 14400 station names more than one rate.
V32_RATE_SEQ ==
  [ r \in AnyRate |->
      CASE r = 0 -> {"4800"}
        [] r = 1 -> {"9600"}
        [] r = 2 -> {"9600", "T"}
        [] r = 3 -> {"7200", "T"}
        [] r = 4 -> {"12000", "T"}
        [] r = 5 -> Bits
        [] r = 6 -> {"T"} ]

\* V32_FINAL_RATE_SEQ and V32_ESEQ have the same rate bits.
V32_FINAL_RATE_SEQ ==
  [V32_RATE_SEQ EXCEPT ![5] = {"14400", "T"}]

\* The best rate of the station with index `own' and the word seq.
common_rate_theirs(own, seq) ==
  IF "14400" \in seq THEN 5 ELSE IF "12000" \in seq THEN 4 ELSE own
common_rate(own, seq) ==
  LET both(b) == b \in seq /\ b \in V32_RATE_SEQ[own]
  IN CASE both("14400") -> 5
       [] ~both("14400") /\ both("12000") -> 4
       [] ~both("14400") /\ ~both("12000") /\ both("9600") ->
            IF both("T") THEN 2 ELSE 1
       [] ~(\E b \in {"14400", "12000", "9600"} : both(b)) /\ both("7200") -> 3
       [] ~(\E b \in Bits \ {"T", "4800"} : both(b)) /\ both("4800") -> 0
       [] OTHER -> NONE

\* V32_RATE_SEQ_NONE and V32_ESEQ_NONE have no rate bit at all.
CodeRateSeq(own, seq) ==
  LET r == common_rate(own, seq) IN IF r = NONE THEN {} ELSE V32_RATE_SEQ[r]

CodeFinalRateSeq(own, seq) ==
  LET r == common_rate(own, seq)
  IN IF r = NONE THEN {} ELSE V32_FINAL_RATE_SEQ[r]

CodeESeq(own, seq) ==
  LET r == common_rate(own, seq)
  IN IF r = NONE THEN {} ELSE V32_FINAL_RATE_SEQ[r]

\* V32FP_control: the rate a station falls back to from `rate' (fp->short_2e).
Fallback(own, rate) ==
  CASE rate = 5 -> 4
    [] rate = 4 -> 2
    [] rate \in {1, 2} -> 3
    [] rate = 3 -> 0
    [] OTHER -> own

=============================================================================
