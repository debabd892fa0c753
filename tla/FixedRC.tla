------------------------------ MODULE FixedRC ------------------------------
(***************************************************************************)
(* src/core/FixedRC.c: the fixed-ratio sample-rate converter that stands   *)
(* between the host's rate and the rate of a datapump.                     *)
(*                                                                         *)
(* A sample is its position in the input stream.  Of the polyphase filter  *)
(* what is kept is which samples an output is computed from and how many   *)
(* outputs there are; the coefficients are left out.  Modes 2 to 19 keep a *)
(* flat window of the input (kind 0), modes 0 and 1 multiply and divide by *)
(* four in stages (kind 1).  One step is a sample pushed or an output, and *)
(* the caller passes whole or odd counts and an output limit.              *)
(***************************************************************************)
EXTENDS Integers, Sequences

CONSTANTS
  Modes,               \* the modes the host creates converters for
  Taps,                \* taps[mode], the branch length of its filter
  History,             \* RCFIXED_HISTORY
  Counts,              \* numbers of samples passed to one call
  Limits,              \* output limits passed to one call
  MaxSamples           \* bound: samples a converter is given since its reset

\* fixedRc_UpFact and fixedRc_DownFact.
UpFact   == << 4, 1, 6, 5, 6, 1, 5, 1, 4, 1, 24, 5, 5, 4, 3, 2, 10, 3, 10, 9 >>
DownFact == << 1, 4, 5, 6, 1, 6, 1, 5, 1, 4, 5, 24, 4, 5, 2, 3, 3, 10, 9, 10 >>

ASSUME ModeAssumption == Modes \subseteq 0 .. 19

ASSUME WindowAssumption ==
  /\ History \in Nat /\ History > 1
  /\ \A m \in Modes : Taps[m] \in Nat \ {0} /\ Taps[m] < History

ASSUME CallAssumption ==
  Counts \subseteq Nat /\ Limits \subseteq Nat /\ MaxSamples \in Nat

VARIABLES
  live, mode,
  up, down, taps,                     \* struct rc_state
  phase, input_needed, pos, history,
  pc,                                 \* where RcFixed_Resample is
  remaining, limit, out_count,        \* its variables
  take,                               \* samples this turn has yet to push
  group,                              \* 2 * second + first
  ring,                               \* pos6, pos174 and pos30
  out,                                \* the branch and the samples of an output
  due,                                \* history: samples passed since reset
  fed,                                \* history: samples used since reset
  emitted,                            \* history: outputs since reset
  whole                               \* history: every call was a whole block

design == << mode, up, down, taps >>
object == << phase, input_needed, pos, history, ring >>
call == << pc, remaining, limit, out_count, take, group, out >>
ghost == << due, fed, emitted, whole >>
vars == << live, design, object, call, ghost >>

Silence == -1
NoOutput == [branch |-> 0, of |-> << >>]
Sample(p) == IF p < 0 THEN Silence ELSE p

\* kind 1 is modes 0 and 1.
Polyphase == mode > 1

-----------------------------------------------------------------------------
(***************************************************************************)
(* RcFixed_Create, RcFixed_Reset and RcFixed_Delete.                       *)
(***************************************************************************)

\* What rc_reset_state gives input_needed and phase: an interpolator can
\* emit before it has consumed anything.
FirstNeed(u, d)  == IF u <= d THEN 1 ELSE 0
FirstPhase(u, d) == d % u

\* RcFixed_Reset.  Each kind has a record of its own: the fields of the other
\* are not read and rest at their reset values.  What the rings of kind 1
\* hold is left out, only their positions are kept.
ResetState(u, d, t) ==
  /\ history' = [i \in 0 .. History - 1 |-> Silence]
  /\ pos' = t
  /\ input_needed' = FirstNeed(u, d)
  /\ phase' = FirstPhase(u, d)
  /\ ring' = << 0, 0, 0 >>
  /\ due' = 0 /\ fed' = 0 /\ emitted' = 0 /\ whole' = TRUE

RcFixed_Create(m) ==
  /\ ~live
  /\ live' = TRUE
  /\ mode' = m /\ up' = UpFact[m + 1] /\ down' = DownFact[m + 1] /\ taps' = Taps[m]
  /\ ResetState(UpFact[m + 1], DownFact[m + 1], Taps[m])
  /\ UNCHANGED call

RcFixed_Reset ==
  /\ live /\ pc = "idle"
  /\ ResetState(up, down, taps)
  /\ UNCHANGED << live, design, call >>

RcFixed_Delete ==
  /\ live /\ pc = "idle"
  /\ live' = FALSE
  /\ UNCHANGED << design, object, call, ghost >>

-----------------------------------------------------------------------------
(***************************************************************************)
(* RcFixed_Resample of n samples with room for l.                          *)
(***************************************************************************)
RcFixed_Resample(n, l) ==
  /\ live /\ pc = "idle"
  /\ due + n <= MaxSamples
  /\ pc' = "turn"
  /\ remaining' = n /\ limit' = l /\ out_count' = 0 /\ group' = 0
  /\ due' = due + n
  /\ whole' = (whole /\ n % down = 0 /\ n * up <= l * down)
  /\ UNCHANGED << live, design, object, take, out, fed, emitted >>

Min2(a, b) == IF a < b THEN a ELSE b

\* The test of the polyphase loop, and how much of the need there is.
BeginTurn ==
  /\ pc = "turn" /\ Polyphase /\ remaining # 0
  /\ take' = Min2(input_needed, remaining)
  /\ pc' = "push"
  /\ UNCHANGED << live, design, object, remaining, limit, out_count, group, out, ghost >>

\* The window is moved to the front one sample late.
CompactedShort(h) ==
  [i \in 0 .. History - 1 |-> IF i < taps THEN h[History - 1 - taps + i] ELSE h[i]]

\* The last taps samples are copied to the front.
Compacted(h) ==
  [i \in 0 .. History - 1 |-> IF i < taps THEN h[History - taps + i] ELSE h[i]]

rc_push ==
  /\ pc = "push" /\ take > 0
  /\ LET h == [history EXCEPT ![pos] = fed]
     IN IF pos + 1 = History
          THEN history' = Compacted(h) /\ pos' = taps
          ELSE history' = h /\ pos' = pos + 1
  /\ take' = take - 1
  /\ fed' = fed + 1
  /\ UNCHANGED << live, design, phase, input_needed, ring, pc, remaining, limit,
                  out_count, group, out, due, emitted, whole >>

\* What the starved turn did push is forgotten.
OwedAll == input_needed

\* What the next call has to bring before there is an output.
Owed == input_needed - remaining

\* Less input than the next output needs: the loop is left.
Starved ==
  /\ pc = "push" /\ take = 0 /\ input_needed > remaining
  /\ input_needed' = Owed
  /\ pc' = "done"
  /\ UNCHANGED << live, design, phase, pos, history, ring, remaining, limit,
                  out_count, take, group, out, ghost >>

\* rc_advance: the phase goes on by down, and every up of it is a sample.
AdvancedPhase == (phase + down) % up
AdvancedNeed  == (phase + down) \div up

\* The limit tested one output early, and one output late.
EndedEarly == IF out_count + 2 = limit THEN "done" ELSE "turn"

\* The limit is tested after the output; a limit of 0 is never met.
Ended == IF out_count + 1 = limit THEN "done" ELSE "turn"

\* rc_output and rc_advance.
Output ==
  /\ pc = "push" /\ take = 0 /\ input_needed <= remaining
  /\ remaining' = remaining - input_needed
  /\ out' = [branch |-> phase, of |-> [k \in 1 .. taps |-> history[pos - taps + k - 1]]]
  /\ out_count' = out_count + 1
  /\ emitted' = emitted + 1
  /\ phase' = AdvancedPhase
  /\ input_needed' = AdvancedNeed
  /\ pc' = Ended
  /\ UNCHANGED << live, design, pos, history, ring, limit, take, group, due, fed, whole >>

\* rc_circular_advance, of each ring by as many places as given.
Turned(p6, p174, p30) ==
  << (ring[1] + p6) % 3, (ring[2] + p174) % 87, (ring[3] + p30) % 15 >>

\* Mode 0: four outputs for every sample, the limit tested after the four.
TimesFour ==
  /\ pc = "turn" /\ mode = 0 /\ remaining # 0
  /\ ring' = Turned(1, 2, 4)
  /\ remaining' = remaining - 1 /\ fed' = fed + 1
  /\ out_count' = out_count + 4 /\ emitted' = emitted + 4
  /\ pc' = IF out_count + 4 >= limit THEN "done" ELSE "turn"
  /\ UNCHANGED << live, design, phase, input_needed, pos, history, limit, take,
                  group, out, due, whole >>

\* Mode 1: one output for every fourth sample of the call.
OverFour ==
  /\ pc = "turn" /\ mode = 1 /\ remaining # 0
  /\ ring' = Turned(IF group = 3 THEN 1 ELSE 0, group % 2, 1)
  /\ fed' = fed + 1
  /\ group' = (group + 1) % 4
  /\ IF group = 3
       THEN /\ out_count' = out_count + 1 /\ emitted' = emitted + 1
            /\ IF out_count + 1 >= limit
                 THEN pc' = "done" /\ UNCHANGED remaining
                 ELSE remaining' = remaining - 1 /\ UNCHANGED pc
       ELSE remaining' = remaining - 1 /\ UNCHANGED << out_count, emitted, pc >>
  /\ UNCHANGED << live, design, phase, input_needed, pos, history, limit, take,
                  out, due, whole >>

\* The call is over and its variables are gone; what input is left is not
\* looked at any more.
Return ==
  /\ pc = "done" \/ (pc = "turn" /\ remaining = 0)
  /\ pc' = "idle"
  /\ remaining' = 0 /\ limit' = 0 /\ out_count' = 0 /\ take' = 0 /\ group' = 0
  /\ out' = NoOutput
  /\ UNCHANGED << live, design, object, ghost >>

-----------------------------------------------------------------------------
Init ==
  /\ live = FALSE
  /\ mode = 2 /\ up = 1 /\ down = 1 /\ taps = 1
  /\ phase = 0 /\ input_needed = 1 /\ pos = 1 /\ ring = << 0, 0, 0 >>
  /\ history = [i \in 0 .. History - 1 |-> Silence]
  /\ pc = "idle" /\ remaining = 0 /\ limit = 0 /\ out_count = 0 /\ take = 0 /\ group = 0
  /\ out = NoOutput
  /\ due = 0 /\ fed = 0 /\ emitted = 0 /\ whole = TRUE

Next ==
  \/ \E m \in Modes : RcFixed_Create(m)
  \/ RcFixed_Reset
  \/ RcFixed_Delete
  \/ \E n \in Counts, l \in Limits : RcFixed_Resample(n, l)
  \/ BeginTurn \/ rc_push \/ Starved \/ Output
  \/ TimesFour \/ OverFour
  \/ Return

Spec == Init /\ [][Next]_vars

-----------------------------------------------------------------------------
(***************************************************************************)
(* Properties.                                                             *)
(***************************************************************************)

\* Types; the phase names a branch of the filter (rc_output indexes the
\* coefficients with it), and the window lies inside the history.
TypeOK ==
  /\ live \in BOOLEAN /\ whole \in BOOLEAN
  /\ mode \in 0 .. 19 /\ up \in Nat \ {0} /\ down \in Nat \ {0} /\ taps \in Nat \ {0}
  /\ phase \in 0 .. up - 1
  /\ input_needed \in Nat
  /\ pos \in taps .. History - 1
  /\ history \in [0 .. History - 1 -> Int]
  /\ ring \in (0 .. 2) \X (0 .. 86) \X (0 .. 14)
  /\ pc \in {"idle", "turn", "push", "done"}
  /\ remaining \in Nat /\ limit \in Nat /\ out_count \in Nat /\ take \in Nat
  /\ due \in Nat /\ fed \in Nat /\ emitted \in Nat
  /\ group \in 0 .. 3

(***************************************************************************)
(* Every output is computed from the last taps samples of the input, in    *)
(* order, whatever calls they came in and wherever rc_push moved the       *)
(* window to the front; before the first sample there is silence.          *)
(***************************************************************************)
LastTaps ==
  [][Output => out'.of = [k \in 1 .. taps |-> Sample(fed - taps + k - 1)]]_vars

(***************************************************************************)
(* The n-th output of a polyphase converter stands at the instant          *)
(* n * down / up of the input, counted in branches from the first output:  *)
(* the samples used and the branch are exactly those of that instant, over *)
(* any calls, odd counts, starved turns and limits since the reset.        *)
(***************************************************************************)
OutputInstants ==
  [][Output => up * fed + out'.branch
                 = up * FirstNeed(up, down) + FirstPhase(up, down) + down * emitted]_vars

(***************************************************************************)
(* Whole blocks in, whole blocks out: as long as every call passes a       *)
(* multiple of down samples with room for what they become, exactly up     *)
(* outputs have come for every down samples after every call.  The adapter *)
(* and the call datapump, which never look at the count that comes back    *)
(* for the host, take this for granted; the first call of a decimator may  *)
(* meet its limit with input left, and the outputs are still whole.        *)
(***************************************************************************)
WholeBlocks ==
  live /\ pc = "idle" /\ whole => down * emitted = up * due

(***************************************************************************)
(* A call reads no sample its caller did not pass, and, limit 0 apart,     *)
(* writes no more than the limit.  (Mode 0 writes four at a time and tests *)
(* the limit afterwards, so there the limit is met to the next four.)      *)
(***************************************************************************)
InBounds ==
  /\ fed <= due
  /\ limit > 0 => out_count <= limit + (IF mode = 0 THEN 3 ELSE 0)

=============================================================================
