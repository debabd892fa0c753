--------------------------- MODULE FixedRC_proofs ---------------------------
(***************************************************************************)
(* The converter keeps its window, its instants and its bounds, and whole  *)
(* blocks whole, for every filter length, window size and sequence of      *)
(* calls.                                                                  *)
(***************************************************************************)
EXTENDS FixedRC, TLAPS

-----------------------------------------------------------------------------
(***************************************************************************)
(* The inductive invariant.  OutputInstants speaks of the moment of an     *)
(* output only; between outputs the samples the next one still waits for   *)
(* have to be counted as well, and within a turn they are being pushed.    *)
(***************************************************************************)

\* What the turn has pushed of input_needed.
Pushed == IF pc = "push" THEN Min2(input_needed, remaining) - take ELSE 0

\* The window rc_output would read now.
WindowInv ==
  \A k \in 1 .. taps : history[pos - taps + k - 1] = Sample(fed - taps + k - 1)

\* The instant of the next output.
First == up * FirstNeed(up, down) + FirstPhase(up, down)

InstantInv ==
  up * (fed + input_needed - Pushed) + phase = First + down * emitted

\* Where the call stands with its input and its limit.
CallInv ==
  /\ ~live => pc = "idle"
  /\ pc = "push" => Polyphase /\ take <= Min2(input_needed, remaining)
  /\ pc = "turn" => fed + remaining <= due
  /\ pc = "push" => fed + remaining <= due + Pushed
  /\ pc = "idle" => limit = 0
  /\ limit > 0 /\ pc \in {"turn", "push"} => out_count < limit

IInv == TypeOK /\ InBounds /\ CallInv /\ (Polyphase => WindowInv /\ InstantInv)

-----------------------------------------------------------------------------
(***************************************************************************)
(* Arithmetic.                                                             *)
(***************************************************************************)

\* Division with remainder, as rc_advance does it by subtraction.
LEMMA DivMod ==
  ASSUME NEW a \in Nat, NEW b \in Nat \ {0}
  PROVE  /\ a \div b \in Nat
         /\ a % b \in 0 .. b - 1
         /\ a = b * (a \div b) + (a % b)
<1>1. a \div b \in Nat
  OBVIOUS
<1>2. a % b \in 0 .. b - 1
  OBVIOUS
<1>3. a = b * (a \div b) + (a % b)
  OBVIOUS
<1> QED
  BY <1>1, <1>2, <1>3

\* A product with a sum.
LEMMA Distribute ==
  ASSUME NEW a \in Int, NEW b \in Int, NEW c \in Int
  PROVE  a * (b + c) = a * b + a * c
  OBVIOUS

\* The factors of every mode are positive.
LEMMA Factors ==
  ASSUME NEW m \in Modes
  PROVE  /\ UpFact[m + 1] \in Nat \ {0}
         /\ DownFact[m + 1] \in Nat \ {0}
         /\ m \in 0 .. 19
<1>1. m \in 0 .. 19
  BY ModeAssumption
<1>2. \/ m = 0 \/ m = 1 \/ m = 2 \/ m = 3 \/ m = 4 \/ m = 5 \/ m = 6
      \/ m = 7 \/ m = 8 \/ m = 9 \/ m = 10 \/ m = 11 \/ m = 12 \/ m = 13
      \/ m = 14 \/ m = 15 \/ m = 16 \/ m = 17 \/ m = 18 \/ m = 19
  BY <1>1
<1> QED
  BY <1>1, <1>2 DEF UpFact, DownFact

-----------------------------------------------------------------------------
(***************************************************************************)
(* The steps.                                                              *)
(***************************************************************************)

\* A reset leaves a window of silence and the first instant.
LEMMA ResetInv ==
  ASSUME NEW u \in Nat \ {0}, NEW d \in Nat \ {0}, NEW t \in Nat \ {0},
         t < History, ResetState(u, d, t),
         up' = u, down' = d, taps' = t, mode' \in 0 .. 19, live' = TRUE,
         TypeOK, CallInv, pc = "idle", UNCHANGED call
  PROVE  IInv'
<1>1. /\ FirstPhase(u, d) \in 0 .. u - 1
      /\ FirstNeed(u, d) \in Nat
  BY DivMod DEF FirstPhase, FirstNeed
<1>2. TypeOK'
  BY <1>1, WindowAssumption DEF ResetState, TypeOK, call, Silence
<1>3. InBounds' /\ CallInv'
  BY DEF ResetState, TypeOK, InBounds, CallInv, call, Pushed
<1>4. WindowInv'
  BY WindowAssumption DEF ResetState, WindowInv, Sample, Silence
<1>5. InstantInv'
  <2>1. Pushed' = 0
    BY DEF call, Pushed
  <2>2. /\ fed' + input_needed' - Pushed' = FirstNeed(u, d)
        /\ down' * emitted' = 0
    BY <1>1, <2>1 DEF ResetState
  <2>3. First' = u * FirstNeed(u, d) + FirstPhase(u, d)
    BY DEF First, FirstNeed, FirstPhase
  <2>4. up' * (fed' + input_needed' - Pushed') = u * FirstNeed(u, d)
    BY <2>2
  <2>5. phase' = FirstPhase(u, d)
    BY DEF ResetState
  <2>6. u * FirstNeed(u, d) \in Int
    BY <1>1
  <2> QED
    BY <1>1, <2>2, <2>3, <2>4, <2>5, <2>6 DEF InstantInv
<1> QED
  BY <1>2, <1>3, <1>4, <1>5 DEF IInv

\* The samples in the window after one is pushed, compacted or not.
LEMMA PushWindow ==
  ASSUME TypeOK, WindowInv, rc_push
  PROVE  /\ pos' \in taps .. History - 1
         /\ history' \in [0 .. History - 1 -> Int]
         /\ WindowInv'
<1> DEFINE h == [history EXCEPT ![pos] = fed]
<1>1. h \in [0 .. History - 1 -> Int]
  BY WindowAssumption DEF TypeOK
<1>2. h[pos] = fed
  BY WindowAssumption DEF TypeOK
<1>3. ASSUME NEW k \in 1 .. taps
      PROVE  h[pos + 1 - taps + k - 1] = Sample(fed + 1 - taps + k - 1)
  <2>1. CASE k = taps
    BY <2>1, <1>2 DEF TypeOK, Sample
  <2>2. CASE k # taps
    <3>1. k + 1 \in 1 .. taps
      BY <2>2 DEF TypeOK
    <3>2. history[pos - taps + (k + 1) - 1] = Sample(fed - taps + (k + 1) - 1)
      BY <3>1 DEF WindowInv
    <3>3. /\ pos + 1 - taps + k - 1 \in 0 .. History - 1
          /\ pos + 1 - taps + k - 1 # pos
          /\ pos + 1 - taps + k - 1 = pos - taps + (k + 1) - 1
          /\ fed + 1 - taps + k - 1 = fed - taps + (k + 1) - 1
      BY <2>2, WindowAssumption DEF TypeOK
    <3> QED
      BY <3>2, <3>3 DEF TypeOK
  <2> QED
    BY <2>1, <2>2
<1>4. fed' = fed + 1 /\ taps' = taps
  BY DEF rc_push, design
<1>5. CASE pos + 1 = History
  <2>1. pos' = taps /\ history' = Compacted(h)
    BY <1>5 DEF rc_push
  <2>2. \A i \in 0 .. History - 1 :
          history'[i] = IF i < taps THEN h[History - taps + i] ELSE h[i]
    BY <2>1 DEF Compacted
  <2>3. history' \in [0 .. History - 1 -> Int]
    BY <2>1, <1>1, WindowAssumption DEF Compacted, TypeOK
  <2>4. ASSUME NEW k \in 1 .. taps'
        PROVE  history'[pos' - taps' + k - 1] = Sample(fed' - taps' + k - 1)
    <3>1. /\ k \in 1 .. taps
          /\ pos' - taps' + k - 1 = k - 1
          /\ k - 1 \in 0 .. History - 1
          /\ k - 1 < taps
      BY <2>1, <1>4, WindowAssumption DEF TypeOK
    <3>2. history'[k - 1] = h[History - taps + (k - 1)]
      BY <2>2, <3>1
    <3>3. History - taps + (k - 1) = pos + 1 - taps + k - 1
      BY <1>5, WindowAssumption DEF TypeOK
    <3> QED
      <4>1. h[pos + 1 - taps + k - 1] = Sample(fed + 1 - taps + k - 1)
        BY <3>1, <1>3
      <4>2. fed' - taps' + k - 1 = fed + 1 - taps + k - 1
        BY <1>4 DEF TypeOK
      <4>3. history'[pos' - taps' + k - 1] = h[pos + 1 - taps + k - 1]
        BY <3>1, <3>2, <3>3
      <4> QED
        BY <4>1, <4>2, <4>3
  <2> QED
    <3>1. WindowInv'
      BY <2>4 DEF WindowInv
    <3>2. pos' \in taps .. History - 1
      BY <2>1, WindowAssumption DEF TypeOK
    <3> QED
      BY <3>1, <3>2, <2>3
<1>6. CASE pos + 1 # History
  <2>1. pos' = pos + 1 /\ history' = h
    BY <1>6 DEF rc_push
  <2> QED
    BY <2>1, <1>1, <1>3, <1>4, <1>6, WindowAssumption DEF TypeOK, WindowInv
<1> QED
  BY <1>5, <1>6

\* A sample pushed keeps the invariant.
LEMMA PushInv ==
  ASSUME IInv, rc_push
  PROVE  IInv'
<1> USE DEF IInv
<1>1. Polyphase /\ Polyphase'
  BY DEF CallInv, rc_push, Polyphase, design
<1>2. /\ pos' \in taps .. History - 1
      /\ history' \in [0 .. History - 1 -> Int]
      /\ WindowInv'
  BY <1>1, PushWindow
<1>3. TypeOK'
  BY <1>2 DEF rc_push, TypeOK, design
<1>4. Pushed \in Int /\ Pushed' = Pushed + 1
  BY DEF rc_push, Pushed, Min2, TypeOK
<1>5. InBounds' /\ CallInv'
  <2>1. fed + 1 <= due
    BY DEF rc_push, CallInv, TypeOK, Pushed, Min2
  <2>2. take - 1 <= Min2(input_needed, remaining)
    BY DEF rc_push, CallInv, TypeOK, Min2
  <2>3. fed + 1 + remaining <= due + (Pushed + 1)
    BY <1>4 DEF rc_push, CallInv, TypeOK
  <2> QED
    BY <1>1, <1>4, <2>1, <2>2, <2>3 DEF rc_push, CallInv, InBounds, Min2, design
<1>6. InstantInv'
  <2>1. fed' + input_needed' - Pushed' = fed + input_needed - Pushed
    BY <1>4 DEF rc_push, TypeOK
  <2>2. First' = First
    BY DEF rc_push, First, design
  <2> QED
    BY <1>1, <2>1, <2>2 DEF rc_push, InstantInv, design
<1> QED
  BY <1>2, <1>3, <1>5, <1>6

\* An output comes at the next instant, and the one after it is down later.
LEMMA OutputInv ==
  ASSUME IInv, Output
  PROVE  /\ IInv'
         /\ out'.of = [k \in 1 .. taps |-> Sample(fed - taps + k - 1)]
         /\ up * fed + out'.branch = First + down * emitted
<1> USE DEF IInv
<1>1. Polyphase /\ Polyphase'
  BY DEF CallInv, Output, Polyphase, design
<1>2. Pushed = input_needed /\ Pushed' = 0
  BY DEF Output, Pushed, Min2, TypeOK, Ended
<1>3. /\ AdvancedNeed \in Nat
      /\ AdvancedPhase \in 0 .. up - 1
      /\ phase + down = up * AdvancedNeed + AdvancedPhase
  <2>1. phase + down \in Nat /\ up \in Nat \ {0}
    BY DEF TypeOK
  <2> QED
    BY <2>1, DivMod DEF AdvancedNeed, AdvancedPhase
<1>4. TypeOK'
  BY <1>3 DEF Output, TypeOK, design, Ended
<1>5. InBounds' /\ CallInv'
  BY <1>1, <1>2 DEF Output, TypeOK, InBounds, CallInv, Ended, Polyphase, design
<1>6. WindowInv'
  BY <1>1 DEF Output, WindowInv, design
<1>7. up * fed + phase = First + down * emitted
  <2>1. fed + input_needed - Pushed = fed
    BY <1>2 DEF TypeOK
  <2> QED
    BY <1>1, <2>1 DEF InstantInv
<1>8. InstantInv'
  <2>1. /\ fed' = fed /\ emitted' = emitted + 1 /\ input_needed' = AdvancedNeed
        /\ phase' = AdvancedPhase /\ up' = up /\ down' = down /\ First' = First
    BY DEF Output, design, First
  <2>2. fed' + input_needed' - Pushed' = fed + AdvancedNeed
    BY <1>2, <1>3, <2>1 DEF TypeOK
  <2>3. up * (fed + AdvancedNeed) = up * fed + up * AdvancedNeed
    BY <1>3, Distribute DEF TypeOK
  <2>4. down * (emitted + 1) = down * emitted + down
    BY Distribute DEF TypeOK
  <2>5. /\ up * fed \in Int /\ up * AdvancedNeed \in Int /\ down * emitted \in Int
        /\ First \in Int
    <3>1. FirstNeed(up, down) \in Int /\ FirstPhase(up, down) \in Int
      BY DivMod DEF TypeOK, FirstNeed, FirstPhase
    <3> QED
      BY <1>3, <3>1 DEF TypeOK, First
  <2>6. up * (fed + AdvancedNeed) + AdvancedPhase = First + down * (emitted + 1)
    BY <1>3, <1>7, <2>3, <2>4, <2>5 DEF TypeOK
  <2> QED
    BY <2>1, <2>2, <2>6 DEF InstantInv
<1>9. /\ out'.branch = phase
      /\ out'.of = [k \in 1 .. taps |-> history[pos - taps + k - 1]]
  BY DEF Output
<1>10. out'.of = [k \in 1 .. taps |-> Sample(fed - taps + k - 1)]
  BY <1>1, <1>9 DEF WindowInv
<1> QED
  BY <1>1, <1>4, <1>5, <1>6, <1>7, <1>8, <1>9, <1>10

\* A turn that finds too little input owes exactly the rest.
LEMMA StarvedInv ==
  ASSUME IInv, Starved
  PROVE  IInv'
<1> USE DEF IInv
<1>1. Polyphase /\ Polyphase'
  BY DEF CallInv, Starved, Polyphase, design
<1>2. Pushed = remaining /\ Pushed' = 0
  BY DEF Starved, Pushed, Min2, TypeOK
<1>3. TypeOK'
  BY DEF Starved, TypeOK, Owed, design, ghost
<1>4. InBounds' /\ CallInv'
  BY <1>1 DEF Starved, TypeOK, InBounds, CallInv, design, ghost
<1>5. WindowInv'
  BY <1>1 DEF Starved, WindowInv, design, ghost
<1>6. InstantInv'
  <2>1. fed' + input_needed' - Pushed' = fed + input_needed - Pushed
    BY <1>2 DEF Starved, Owed, TypeOK, ghost
  <2>2. First' = First
    BY DEF Starved, First, design
  <2> QED
    BY <1>1, <2>1, <2>2 DEF Starved, InstantInv, design, ghost
<1> QED
  BY <1>3, <1>4, <1>5, <1>6

\* A turn that starts has pushed nothing.
LEMMA BeginTurnInv ==
  ASSUME IInv, BeginTurn
  PROVE  IInv'
<1> USE DEF IInv
<1>1. Polyphase /\ Polyphase'
  BY DEF BeginTurn, Polyphase, design
<1>2. take' \in Nat /\ Pushed = 0 /\ Pushed' = 0
  BY DEF BeginTurn, Pushed, Min2, TypeOK, object
<1>3. TypeOK'
  BY <1>2 DEF BeginTurn, TypeOK, design, object, ghost
<1>4. InBounds' /\ CallInv'
  BY <1>1, <1>2 DEF BeginTurn, TypeOK, InBounds, CallInv, Min2, design, object, ghost
<1>5. WindowInv' /\ InstantInv'
  BY <1>1, <1>2 DEF BeginTurn, WindowInv, InstantInv, First, design, object, ghost
<1> QED
  BY <1>3, <1>4, <1>5

\* rc_circular_advance stays inside its ring.
LEMMA RingTurns ==
  ASSUME TypeOK, NEW a \in Nat, NEW b \in Nat, NEW c \in Nat
  PROVE  Turned(a, b, c) \in (0 .. 2) \X (0 .. 86) \X (0 .. 14)
<1>1. ring[1] + a \in Nat /\ ring[2] + b \in Nat /\ ring[3] + c \in Nat
  <2>1. ring \in (0 .. 2) \X (0 .. 86) \X (0 .. 14)
    BY DEF TypeOK
  <2>2. ring[1] \in 0 .. 2 /\ ring[2] \in 0 .. 86 /\ ring[3] \in 0 .. 14
    BY <2>1
  <2> QED
    BY <2>2
<1>2. /\ (ring[1] + a) % 3 \in 0 .. 2
      /\ (ring[2] + b) % 87 \in 0 .. 86
      /\ (ring[3] + c) % 15 \in 0 .. 14
  BY <1>1
<1> QED
  BY <1>2 DEF Turned

\* The two modes of kind 1 count their input and their outputs.
LEMMA StagesInv ==
  ASSUME IInv, TimesFour \/ OverFour
  PROVE  IInv'
<1> USE DEF IInv
<1>1. ~Polyphase'
  BY DEF TimesFour, OverFour, Polyphase, design
<1>2. CASE TimesFour
  <2>1. ring' \in (0 .. 2) \X (0 .. 86) \X (0 .. 14)
    BY <1>2, RingTurns DEF TimesFour
  <2>2. TypeOK'
    BY <1>2, <2>1 DEF TimesFour, TypeOK, design
  <2>3. InBounds' /\ CallInv'
    BY <1>1, <1>2 DEF TimesFour, TypeOK, InBounds, CallInv, design
  <2> QED
    BY <1>1, <2>2, <2>3
<1>3. CASE OverFour
  <2>1. group % 2 \in Nat
    BY DEF TypeOK
  <2>4. ring' \in (0 .. 2) \X (0 .. 86) \X (0 .. 14)
    BY <1>3, <2>1, RingTurns DEF OverFour
  <2>2. TypeOK'
    BY <1>3, <2>4 DEF OverFour, TypeOK, design
  <2>3. InBounds' /\ CallInv'
    BY <1>1, <1>3 DEF OverFour, TypeOK, InBounds, CallInv, design
  <2> QED
    BY <1>1, <2>2, <2>3
<1> QED
  BY <1>2, <1>3

-----------------------------------------------------------------------------
(***************************************************************************)
(* The theorems.                                                           *)
(***************************************************************************)

\* Every step of the converter keeps the invariant.
LEMMA StepInv ==
  ASSUME IInv, [Next]_vars
  PROVE  IInv'
<1>1. ASSUME NEW m \in Modes, RcFixed_Create(m)
      PROVE  IInv'
  <2>1. pc = "idle"
    BY <1>1 DEF RcFixed_Create, IInv, CallInv
  <2> QED
    BY <1>1, <2>1, Factors, ResetInv, WindowAssumption DEF RcFixed_Create, IInv
<1>2. CASE RcFixed_Reset
  <2>1. /\ up \in Nat \ {0} /\ down \in Nat \ {0} /\ taps \in Nat \ {0}
        /\ taps < History /\ mode' \in 0 .. 19 /\ live' = TRUE
        /\ up' = up /\ down' = down /\ taps' = taps
    BY <1>2, WindowAssumption DEF RcFixed_Reset, IInv, TypeOK, design
  <2> QED
    BY <1>2, <2>1, ResetInv DEF RcFixed_Reset, IInv
<1>3. CASE RcFixed_Delete
  <2>1. UNCHANGED << design, object, call, ghost >> /\ live' = FALSE /\ pc = "idle"
    BY <1>3 DEF RcFixed_Delete
  <2> QED
    BY <2>1 DEF IInv, TypeOK, InBounds, CallInv, Pushed, Polyphase, WindowInv,
                InstantInv, First, design, object, call, ghost
<1>4. ASSUME NEW n \in Counts, NEW l \in Limits, RcFixed_Resample(n, l)
      PROVE  IInv'
  <2> USE <1>4, CallAssumption DEF IInv
  <2>1. n \in Nat /\ l \in Nat
    OBVIOUS
  <2>2. TypeOK'
    BY <2>1 DEF RcFixed_Resample, TypeOK, design, object
  <2>3. InBounds' /\ CallInv'
    BY <2>1 DEF RcFixed_Resample, TypeOK, InBounds, CallInv, design, object
  <2>4. Polyphase' => WindowInv' /\ InstantInv'
    BY DEF RcFixed_Resample, Polyphase, WindowInv, InstantInv, First, Pushed,
           design, object
  <2> QED
    BY <2>2, <2>3, <2>4
<1>5. CASE BeginTurn
  BY <1>5, BeginTurnInv
<1>6. CASE rc_push
  BY <1>6, PushInv
<1>7. CASE Starved
  BY <1>7, StarvedInv
<1>8. CASE Output
  BY <1>8, OutputInv
<1>9. CASE TimesFour \/ OverFour
  BY <1>9, StagesInv
<1>10. CASE Return
  <2> USE <1>10 DEF IInv
  <2>1. TypeOK' /\ InBounds' /\ CallInv'
    BY DEF Return, TypeOK, InBounds, CallInv, design, object, ghost
  <2>2. Polyphase' => WindowInv' /\ InstantInv'
    BY DEF Return, Polyphase, WindowInv, InstantInv, First, Pushed, design,
           object, ghost
  <2> QED
    BY <2>1, <2>2
<1>11. CASE UNCHANGED vars
  BY <1>11 DEF vars, IInv, TypeOK, InBounds, CallInv, Pushed, Polyphase, WindowInv,
               InstantInv, First, design, object, call, ghost
<1> QED
  BY <1>1, <1>2, <1>3, <1>4, <1>5, <1>6, <1>7, <1>8, <1>9, <1>10, <1>11 DEF Next

\* The invariant holds at the start.
LEMMA InitInv ==
  ASSUME Init
  PROVE  IInv
<1>1. TypeOK
  <2>1. ring \in (0 .. 2) \X (0 .. 86) \X (0 .. 14)
    BY DEF Init
  <2>2. history \in [0 .. History - 1 -> Int]
    BY DEF Init, Silence
  <2>3. /\ phase \in 0 .. up - 1
        /\ pos \in taps .. History - 1
    BY WindowAssumption DEF Init
  <2>4. live \in BOOLEAN /\ whole \in BOOLEAN /\ pc \in {"idle", "turn", "push", "done"}
    BY DEF Init
  <2> QED
    BY <2>1, <2>2, <2>3, <2>4 DEF Init, TypeOK
<1>2. InBounds /\ CallInv
  BY DEF Init, InBounds, CallInv
<1>3. WindowInv
  BY WindowAssumption DEF Init, WindowInv, Sample, Silence
<1>4. InstantInv
  BY DEF Init, InstantInv, First, Pushed, FirstNeed, FirstPhase
<1> QED
  BY <1>1, <1>2, <1>3, <1>4 DEF IInv

\* The phase always names a branch and the window always lies inside the
\* history.
THEOREM TypeCorrect == Spec => []TypeOK
<1>1. IInv => TypeOK
  BY DEF IInv
<1> QED
  BY <1>1, InitInv, StepInv, PTL DEF Spec

\* RcFixed_Resample never reads past its input nor writes past its limit.
THEOREM StaysInBounds == Spec => []InBounds
<1>1. IInv => InBounds
  BY DEF IInv
<1> QED
  BY <1>1, InitInv, StepInv, PTL DEF Spec

\* Every output of the polyphase filter is computed from the last taps
\* samples of the input, in order.
THEOREM WindowIsLastTaps == Spec => LastTaps
<1>1. IInv /\ [Next]_vars =>
        [Output => out'.of = [k \in 1 .. taps |-> Sample(fed - taps + k - 1)]]_vars
  BY OutputInv
<1> QED
  BY <1>1, InitInv, StepInv, PTL DEF Spec, LastTaps

\* The n-th output stands at the instant n * down / up, for ever.
THEOREM InstantsExact == Spec => OutputInstants
<1>1. IInv /\ [Next]_vars =>
        [Output => up * fed + out'.branch
           = up * FirstNeed(up, down) + FirstPhase(up, down) + down * emitted]_vars
  BY OutputInv DEF First
<1> QED
  BY <1>1, InitInv, StepInv, PTL DEF Spec, OutputInstants

-----------------------------------------------------------------------------
(***************************************************************************)
(* Whole blocks.                                                           *)
(*                                                                         *)
(* What a call may leave behind is a lag: samples passed and never looked  *)
(* at, because the limit was met.  It must not grow, or a later call would *)
(* starve one output early.  The argument is that at the end of a call     *)
(* down * emitted - up * due lies strictly between -down and down, and is  *)
(* a multiple of down.                                                     *)
(***************************************************************************)

InCall == pc \in {"turn", "push"}

\* The input of this call that no finished turn has used.
Unused == IF InCall THEN remaining ELSE 0

\* Samples of earlier calls that were never looked at.
Lag == due + Pushed - fed - Unused

\* The instant of the next output, counted from the samples used.
Ahead == up * input_needed + phase

\* A polyphase converter: the lag is one that the next call makes good, the
\* limit of this one leaves room for all of its outputs, and the next output
\* is less than one step of down beyond the input it should come from.
FilterWhole ==
  /\ Lag >= 0 /\ up * Lag + First <= down
  /\ InCall =>
       /\ pc = "push" => remaining # 0
       /\ down * (emitted + limit - out_count) >= up * due
       /\ Ahead >= First + up * Lag
       /\ up <= down => Ahead < down + First + up * Lag
       /\ up > down => /\ input_needed = 0 \/ (input_needed = 1 /\ phase < down)
                       /\ pc = "turn" /\ remaining = 0 => Ahead < 2 * down

\* A converter of kind 1 uses all it is given, and has room for it.
StagesWhole ==
  /\ (up = 4 /\ down = 1) \/ (up = 1 /\ down = 4)
  /\ (mode = 0) <=> (up = 4)
  /\ pc = "turn" =>
       /\ up * fed = down * emitted + group
       /\ fed + remaining = due
       /\ up * remaining + group <= down * (limit - out_count)
       /\ mode = 0 => group = 0
  /\ pc # "turn" => fed = due

WholeInv ==
  whole =>
    /\ \E q \in Nat : due = down * q
    /\ ~InCall => down * emitted = up * due
    /\ Polyphase => FilterWhole
    /\ ~Polyphase => StagesWhole

\* The first instant is within a step of down, and at the distance of whole
\* samples from it.
LEMMA FirstInstant ==
  ASSUME NEW u \in Nat \ {0}, NEW d \in Nat \ {0}
  PROVE  LET f == u * FirstNeed(u, d) + FirstPhase(u, d)
         IN /\ f \in Nat /\ f <= d
            /\ u <= d => f >= u
            /\ u > d => f = d
            /\ \E e \in Int : d = f + u * e
<1> DEFINE f == u * FirstNeed(u, d) + FirstPhase(u, d)
<1>1. /\ d \div u \in Nat /\ d % u \in 0 .. u - 1
      /\ d = u * (d \div u) + (d % u)
  BY DivMod
<1>2. CASE u > d
  <2>1. d \div u = 0
    BY <1>2
  <2>2. f = d
    BY <1>1, <1>2, <2>1 DEF FirstNeed, FirstPhase
  <2> HIDE DEF f
  <2>3. 0 \in Int /\ d = f + u * 0
    BY <2>2
  <2>4. f \in Nat /\ f <= d /\ ~(u <= d)
    BY <1>2, <2>2
  <2> QED
    BY <2>2, <2>3, <2>4 DEF f
<1>3. CASE u <= d
  <2>1. f = u + (d % u)
    BY <1>1, <1>3 DEF FirstNeed, FirstPhase
  <2>2. d \div u >= 1
    BY <1>1, <1>3
  <2> DEFINE e == d \div u - 1
  <2>3. e \in Nat /\ u * (d \div u) = u + u * e
    BY <1>1, <2>2
  <2>4. u * e \in Nat
    BY <2>3
  <2> DEFINE r == d % u
  <2>5. r \in Nat /\ f = u + r /\ d = u * (d \div u) + r
    BY <1>1, <2>1
  <2> HIDE DEF e, f, r
  <2>6. d = f + u * e
    BY <2>3, <2>4, <2>5
  <2>7. f \in Nat /\ f <= d /\ f >= u
    BY <2>4, <2>5, <2>6
  <2>8. e \in Int
    BY <2>3
  <2> QED
    BY <1>3, <2>6, <2>7, <2>8 DEF f
<1> QED
  BY <1>2, <1>3

\* The same of the converter there is.
LEMMA FirstFacts ==
  ASSUME TypeOK
  PROVE  /\ First \in Nat /\ First <= down
         /\ up <= down => First >= up
         /\ up > down => First = down
         /\ \E e \in Int : down = First + up * e
BY FirstInstant DEF TypeOK, First

\* A multiple of d that is nearer to 0 than d is 0.
LEMMA NoMultiple ==
  ASSUME NEW d \in Nat \ {0}, NEW z \in Int, d * z > -d, d * z < d
  PROVE  z = 0
<1>1. ASSUME z >= 1 PROVE FALSE
  <2>1. z - 1 \in Nat /\ d * z = d + d * (z - 1)
    BY <1>1
  <2>2. d * (z - 1) >= 0
    BY <2>1
  <2> QED
    BY <2>1, <2>2
<1>2. ASSUME z <= -1 PROVE FALSE
  <2>1. -1 - z \in Nat /\ d * z = -d - d * (-1 - z)
    BY <1>2
  <2>2. d * (-1 - z) >= 0
    BY <2>1
  <2> QED
    BY <2>1, <2>2
<1> QED
  BY <1>1, <1>2

\* Whole blocks of input and less than a step of difference: whole blocks of
\* output.
LEMMA NoDifference ==
  ASSUME NEW u \in Nat, NEW d \in Nat \ {0}, NEW q \in Nat, NEW e \in Nat, NEW n \in Nat,
         n = d * q, d * e - u * n > -d, d * e - u * n < d
  PROVE  d * e = u * n
<1>1. u * n = d * (u * q)
  OBVIOUS
<1>2. u * q \in Int /\ d * (e - u * q) = d * e - d * (u * q)
  OBVIOUS
<1>3. e - u * q = 0
  BY <1>1, <1>2, NoMultiple
<1> QED
  BY <1>1, <1>3

\* The instant of the next output, in what the caller sees.
LEMMA Balance ==
  ASSUME IInv, Polyphase
  PROVE  /\ Lag \in Int /\ Unused \in Nat /\ Ahead \in Nat
         /\ up * Lag \in Int /\ up * Unused \in Nat
         /\ up * due \in Nat /\ down * emitted \in Nat
         /\ down * emitted = up * due - up * Unused - up * Lag + Ahead - First
<1>1. Pushed \in Int /\ Unused \in Nat
  BY DEF IInv, TypeOK, Pushed, Unused, Min2
<1>2. Lag \in Int
  BY <1>1 DEF IInv, TypeOK, Lag
<1>3. fed + input_needed - Pushed = due - Unused - Lag + input_needed
  BY <1>1, <1>2 DEF IInv, TypeOK, Lag
<1>4. up * (due - Unused - Lag + input_needed)
        = up * due - up * Unused - up * Lag + up * input_needed
  BY <1>1, <1>2 DEF IInv, TypeOK
<1>5. up * (fed + input_needed - Pushed) + phase = First + down * emitted
  BY DEF IInv, InstantInv
<1>6. /\ up * Lag \in Int /\ up * Unused \in Nat /\ up * input_needed \in Nat
      /\ up * due \in Nat /\ down * emitted \in Nat /\ First \in Nat /\ phase \in Nat
  BY <1>1, <1>2, FirstFacts DEF IInv, TypeOK
<1> QED
  BY <1>1, <1>2, <1>3, <1>4, <1>5, <1>6 DEF Ahead

\* When a call of a polyphase converter ends within a step of its input, its
\* output is whole.
LEMMA EndsWhole ==
  ASSUME IInv, NEW q \in Nat, due = down * q,
         down * emitted - up * due > -down, down * emitted - up * due < down
  PROVE  down * emitted = up * due
BY NoDifference DEF IInv, TypeOK

\* A product with nothing.
LEMMA NoProduct ==
  ASSUME NEW a \in Int, NEW b \in Int
  PROVE  a * 0 + b = b
  OBVIOUS

\* A product of naturals.
LEMMA Product ==
  ASSUME NEW a \in Nat, NEW b \in Nat
  PROVE  a * b \in Nat
  OBVIOUS

\* A reset starts with no lag.
LEMMA ResetWhole ==
  ASSUME NEW u \in Nat \ {0}, NEW d \in Nat \ {0}, NEW t, ResetState(u, d, t),
         up' = u, down' = d, pc = "idle", UNCHANGED call, IInv', mode' \in 0 .. 19,
         mode' = 0 => u = 4 /\ d = 1, mode' = 1 => u = 1 /\ d = 4
  PROVE  WholeInv'
<1>1. /\ due' = 0 /\ fed' = 0 /\ emitted' = 0 /\ pc' = "idle"
      /\ Pushed' = 0 /\ Unused' = 0 /\ ~InCall'
  BY DEF ResetState, call, Pushed, Unused, InCall
<1>2. 0 \in Nat /\ due' = down' * 0 /\ down' * emitted' = up' * due'
  BY <1>1
<1>3. Lag' = 0
  BY <1>1 DEF Lag
<1>4. First' \in Nat /\ First' <= down'
  <2>1. First' = u * FirstNeed(u, d) + FirstPhase(u, d)
    BY DEF First, FirstNeed, FirstPhase
  <2> QED
    BY <2>1, FirstInstant
<1>5. FilterWhole'
  <2>1. First' \in Int /\ First' <= d /\ u \in Int
    BY <1>4
  <2>2. u * 0 + First' <= d
    <3>1. u * 0 + First' = First'
      BY <2>1, NoProduct
    <3> QED
      BY <2>1, <3>1
  <2>3. Lag' >= 0 /\ up' * Lag' + First' <= down'
    BY <1>3, <2>2
  <2> QED
    BY <1>1, <2>3 DEF FilterWhole
<1>6. ~Polyphase' => StagesWhole'
  <2>1. SUFFICES ASSUME mode' = 0 \/ mode' = 1 PROVE StagesWhole'
    BY DEF Polyphase
  <2>2. (up' = 4 /\ down' = 1) \/ (up' = 1 /\ down' = 4)
    BY <2>1
  <2>3. (mode' = 0) <=> (up' = 4)
    BY <2>1
  <2> QED
    BY <1>1, <2>2, <2>3 DEF StagesWhole
<1> QED
  BY <1>1, <1>2, <1>5, <1>6 DEF WholeInv

\* A call brings whole blocks, and room for what they become.
LEMMA ResampleWhole ==
  ASSUME IInv, WholeInv, NEW n \in Nat, NEW l \in Nat, RcFixed_Resample(n, l), whole'
  PROVE  WholeInv'
<1>1. /\ pc = "idle" /\ pc' = "turn" /\ remaining' = n /\ limit' = l /\ out_count' = 0
      /\ due' = due + n /\ fed' = fed /\ emitted' = emitted /\ group' = 0
      /\ mode' = mode /\ up' = up /\ down' = down /\ phase' = phase
      /\ input_needed' = input_needed /\ First' = First
  BY DEF RcFixed_Resample, design, object, First
<1>2. whole /\ n % down = 0 /\ n * up <= l * down
  BY DEF RcFixed_Resample, IInv, TypeOK
<1>3. /\ up \in Nat \ {0} /\ down \in Nat \ {0} /\ due \in Nat /\ fed \in Nat /\ emitted \in Nat
      /\ input_needed \in Nat /\ phase \in 0 .. up - 1
  BY DEF IInv, TypeOK
<1>4. down * emitted = up * due
  BY <1>1, <1>2 DEF WholeInv, InCall
<1>5. \E q \in Nat : due' = down' * q
  <2>1. PICK q \in Nat : due = down * q
    BY <1>2 DEF WholeInv
  <2>2. n \div down \in Nat /\ n = down * (n \div down)
    BY <1>2, <1>3, DivMod
  <2>3. q + n \div down \in Nat /\ down * (q + n \div down) = down * q + down * (n \div down)
    BY <1>3, <2>2, Distribute
  <2> QED
    BY <1>1, <2>1, <2>2, <2>3
<1>6. up * (due + n) = up * due + up * n /\ n * up = up * n /\ l * down = down * l
  BY <1>3, Distribute
<1>7. ASSUME Polyphase PROVE FilterWhole'
  <2>1. Lag \in Int /\ Lag >= 0 /\ up * Lag + First <= down
    BY <1>2, <1>7, Balance DEF WholeInv, FilterWhole
  <2>2. Pushed' = 0 /\ Unused' = n /\ Pushed = 0 /\ Unused = 0
    BY <1>1 DEF Pushed, Unused, InCall
  <2>3. Lag' = Lag
    BY <1>1, <1>3, <2>2 DEF Lag
  <2>4. Ahead = First + up * Lag
    <3>1. down * emitted = up * due - up * Unused - up * Lag + Ahead - First
      BY <1>7, Balance
    <3>2. up * Unused = 0
      BY <1>3, <2>2
    <3>3. First \in Nat /\ Ahead \in Nat /\ up * Lag \in Int /\ up * due \in Nat
      BY <1>7, Balance, FirstFacts DEF IInv
    <3> QED
      BY <1>4, <3>1, <3>2, <3>3
  <2>5. Ahead' = Ahead
    BY <1>1 DEF Ahead
  <2>6. down * (emitted + l - 0) >= up * (due + n)
    <3>1. down * (emitted + l) = down * emitted + down * l
      BY <1>3, Distribute
    <3> QED
      BY <1>2, <1>3, <1>4, <1>6, <3>1
  <2>7. ASSUME up > down
        PROVE  Ahead = down /\ input_needed = 0
    <3>1. First = down
      BY <2>7, FirstFacts DEF IInv
    <3>2. up * Lag >= 0
      BY <1>3, <2>1
    <3>3. Ahead = down
      BY <1>3, <2>1, <2>4, <3>1, <3>2
    <3>4. ASSUME input_needed >= 1 PROVE FALSE
      <4>1. up * input_needed >= up
        BY <1>3, <3>4
      <4> QED
        BY <1>3, <2>7, <3>3, <4>1 DEF Ahead
    <3> QED
      BY <1>3, <3>3, <3>4
  <2>8. Ahead \in Nat /\ up * Lag \in Int /\ First \in Nat
    BY <1>7, Balance, FirstFacts DEF IInv
  <2>9. Ahead < down + First + up * Lag
    BY <1>3, <2>4, <2>8
  <2> QED
    BY <1>1, <1>3, <2>1, <2>3, <2>4, <2>5, <2>6, <2>7, <2>9 DEF FilterWhole
<1>8. ASSUME ~Polyphase PROVE StagesWhole'
  <2>1. /\ (up = 4 /\ down = 1) \/ (up = 1 /\ down = 4)
        /\ (mode = 0) <=> (up = 4)
        /\ fed = due
    BY <1>1, <1>2, <1>8 DEF WholeInv, StagesWhole
  <2> QED
    BY <1>1, <1>2, <1>3, <1>4, <2>1 DEF StagesWhole
<1>9. Polyphase' = Polyphase
  BY <1>1 DEF Polyphase
<1>10. InCall'
  BY <1>1 DEF InCall
<1> QED
  BY <1>5, <1>7, <1>8, <1>9, <1>10 DEF WholeInv

\* Within a turn nothing changes but where the samples are.
LEMMA TurnWhole ==
  ASSUME IInv, WholeInv, BeginTurn \/ rc_push
  PROVE  WholeInv'
<1>1. Polyphase
  BY DEF BeginTurn, rc_push, IInv, CallInv
<1>2. /\ Lag' = Lag /\ InCall /\ InCall' /\ remaining' = remaining /\ pc' = "push"
      /\ remaining # 0 \/ pc = "push"
  <2>1. CASE BeginTurn
    BY <2>1 DEF BeginTurn, Lag, Pushed, Unused, InCall, Min2, IInv, TypeOK, object, ghost
  <2>2. CASE rc_push
    <3>1. /\ pc' = pc /\ pc = "push" /\ remaining' = remaining /\ take' = take - 1
          /\ input_needed' = input_needed /\ fed' = fed + 1 /\ due' = due
      BY <2>2 DEF rc_push
    <3>2. Min2(input_needed, remaining) \in Nat /\ take \in Nat /\ fed \in Nat /\ due \in Nat
          /\ remaining \in Nat
      BY DEF IInv, TypeOK, Min2
    <3>3. Pushed' = Min2(input_needed, remaining) - (take - 1)
      BY <3>1 DEF Pushed
    <3>4. Pushed = Min2(input_needed, remaining) - take
      BY <3>1 DEF Pushed
    <3>5. Unused' = remaining /\ Unused = remaining
      BY <3>1 DEF Unused, InCall
    <3>6. Lag' = Lag
      BY <3>1, <3>2, <3>3, <3>4, <3>5 DEF Lag
    <3> QED
      BY <3>1, <3>6 DEF InCall
  <2> QED
    BY <2>1, <2>2
<1>3. /\ due' = due /\ emitted' = emitted /\ limit' = limit /\ out_count' = out_count
      /\ mode' = mode /\ up' = up /\ down' = down /\ phase' = phase /\ whole' = whole
      /\ input_needed' = input_needed /\ First' = First /\ Ahead' = Ahead
  BY DEF BeginTurn, rc_push, design, object, ghost, First, Ahead
<1>4. Polyphase'
  BY <1>1, <1>3 DEF Polyphase
<1>5. whole => FilterWhole'
  BY <1>1, <1>2, <1>3 DEF WholeInv, FilterWhole
<1> QED
  BY <1>2, <1>3, <1>4, <1>5 DEF WholeInv

\* A starved turn has used all the input, and its output is the first of the
\* next block.
LEMMA StarvedWhole ==
  ASSUME IInv, WholeInv, Starved, IInv', whole'
  PROVE  WholeInv'
<1>1. /\ pc = "push" /\ pc' = "done" /\ take = 0 /\ input_needed > remaining
      /\ due' = due /\ fed' = fed /\ emitted' = emitted /\ whole' = whole
      /\ mode' = mode /\ up' = up /\ down' = down /\ First' = First
  BY DEF Starved, design, ghost, First
<1>2. Polyphase /\ Polyphase' /\ InCall /\ ~InCall'
  BY <1>1 DEF IInv, CallInv, InCall, Polyphase
<1>3. /\ up \in Nat \ {0} /\ down \in Nat \ {0} /\ due \in Nat /\ fed \in Nat
      /\ input_needed \in Nat /\ phase \in 0 .. up - 1 /\ remaining \in Nat
  BY DEF IInv, TypeOK
<1>4. FilterWhole
  BY <1>1, <1>2 DEF WholeInv
<1>5. Pushed = remaining /\ Unused = remaining /\ Pushed' = 0 /\ Unused' = 0
  BY <1>1, <1>3 DEF Pushed, Unused, InCall, Min2
<1>6. Lag' = Lag
  BY <1>1, <1>3, <1>5 DEF Lag
<1>7. up <= down
  <2>1. remaining # 0
    BY <1>1, <1>2, <1>4 DEF FilterWhole
  <2> QED
    BY <1>1, <1>2, <1>3, <1>4, <2>1 DEF FilterWhole
<1>8. /\ down * emitted - up * due > -down
      /\ down * emitted - up * due < down
  <2>1. down * emitted = up * due - up * Unused - up * Lag + Ahead - First
    BY <1>2, Balance
  <2>2. Ahead < down + First + up * Lag /\ up * Lag + First <= down
    BY <1>2, <1>4, <1>7 DEF FilterWhole
  <2>3. /\ up * input_needed \in Nat /\ up * remaining \in Nat
        /\ up * input_needed >= up * remaining + up
    <3>1. input_needed - remaining - 1 \in Nat
      BY <1>1, <1>3
    <3>2. up * (input_needed - remaining - 1) >= 0
      BY <1>3, <3>1
    <3>3. up * (input_needed - remaining - 1) = up * input_needed - up * remaining - up
      BY <1>3
    <3>4. up * input_needed \in Nat /\ up * remaining \in Nat
      BY <1>3
    <3> QED
      BY <1>3, <3>2, <3>3, <3>4
  <2>4. /\ up * Lag \in Int /\ First \in Nat /\ up * due \in Nat /\ down * emitted \in Nat
        /\ Ahead \in Nat
    BY <1>2, Balance, FirstFacts DEF IInv
  <2>5. down * emitted = up * due - up * remaining - up * Lag + Ahead - First
    BY <1>5, <2>1
  <2>6. Ahead >= up * remaining + up
    BY <1>3, <2>3 DEF Ahead
  <2> QED
    BY <1>3, <2>2, <2>3, <2>4, <2>5, <2>6
<1>9. PICK q \in Nat : due = down * q
  BY <1>1 DEF WholeInv
<1>10. down * emitted = up * due
  BY <1>8, <1>9, EndsWhole
<1>11. FilterWhole'
  BY <1>1, <1>2, <1>4, <1>6 DEF FilterWhole
<1> QED
  BY <1>1, <1>2, <1>9, <1>10, <1>11 DEF WholeInv

\* After an output the next instant is one step of down beyond its branch.
\* The limit is met with whole blocks, and the lag it leaves is again one
\* that the next call makes good: the branch of that output was the first.
LEMMA OutputWhole ==
  ASSUME IInv, WholeInv, Output, IInv', whole'
  PROVE  WholeInv'
<1>1. /\ pc = "push" /\ pc' = Ended /\ take = 0 /\ input_needed <= remaining
      /\ remaining' = remaining - input_needed /\ out_count' = out_count + 1
      /\ emitted' = emitted + 1 /\ phase' = AdvancedPhase /\ input_needed' = AdvancedNeed
      /\ due' = due /\ fed' = fed /\ whole' = whole /\ limit' = limit
      /\ mode' = mode /\ up' = up /\ down' = down /\ First' = First
  BY DEF Output, design, First
<1>2. Polyphase /\ Polyphase' /\ InCall /\ pc' # "push" /\ pc' \in {"turn", "done"}
  BY <1>1 DEF IInv, CallInv, InCall, Polyphase, Ended
<1>3. /\ up \in Nat \ {0} /\ down \in Nat \ {0} /\ due \in Nat /\ fed \in Nat /\ emitted \in Nat
      /\ input_needed \in Nat /\ phase \in 0 .. up - 1 /\ remaining \in Nat
      /\ limit \in Nat /\ out_count \in Nat
  BY DEF IInv, TypeOK
<1>4. FilterWhole /\ remaining # 0
  BY <1>1, <1>2 DEF WholeInv, FilterWhole
<1>5. Pushed = input_needed /\ Unused = remaining /\ Pushed' = 0
  BY <1>1, <1>2, <1>3 DEF Pushed, Unused, InCall, Min2
<1>6. /\ AdvancedNeed \in Nat /\ AdvancedPhase \in 0 .. up - 1
      /\ phase + down = up * AdvancedNeed + AdvancedPhase
  <2>1. phase + down \in Nat
    BY <1>3
  <2> QED
    BY <1>3, <2>1, DivMod DEF AdvancedNeed, AdvancedPhase
<1>7. Ahead' = phase + down
  BY <1>1, <1>6 DEF Ahead
<1>8. /\ First \in Nat /\ First <= down
      /\ up <= down => First >= up
      /\ up > down => First = down
  BY FirstFacts DEF IInv
<1>9. /\ Lag \in Int /\ Lag >= 0 /\ up * Lag \in Int /\ up * Lag >= 0
      /\ up * Lag + First <= down
  <2>1. Lag \in Int /\ Lag >= 0 /\ up * Lag + First <= down
    BY <1>2, <1>4, Balance DEF FilterWhole
  <2> QED
    BY <1>3, <2>1
<1>10. /\ Ahead' >= First + up * Lag
       /\ up <= down => Ahead' < down + First + up * Lag
  BY <1>3, <1>7, <1>8, <1>9
<1>11. ASSUME up > down
       PROVE  /\ input_needed' = 0 \/ (input_needed' = 1 /\ phase' < down)
              /\ remaining' = 0 => Ahead' < 2 * down
  <2>1. AdvancedNeed = 0 \/ (AdvancedNeed = 1 /\ AdvancedPhase < down)
    <3>1. up * AdvancedNeed < 2 * up
      BY <1>3, <1>6, <1>11
    <3>2. AdvancedNeed < 2
      <4>1. ASSUME AdvancedNeed >= 2 PROVE FALSE
        <5>1. up * (AdvancedNeed - 2) >= 0 /\ up * (AdvancedNeed - 2) = up * AdvancedNeed - 2 * up
          BY <1>3, <1>6, <4>1
        <5> QED
          BY <1>3, <1>6, <3>1, <5>1
      <4> QED
        BY <1>6, <4>1
    <3>3. CASE AdvancedNeed = 0
      BY <3>3
    <3>4. CASE AdvancedNeed = 1
      BY <1>3, <1>6, <3>4
    <3> QED
      BY <1>6, <3>2, <3>3, <3>4
  <2>2. ASSUME remaining' = 0 PROVE Ahead' < 2 * down
    <3>1. input_needed # 0
      BY <1>1, <1>3, <1>4, <2>2
    <3>2. phase < down
      BY <1>2, <1>4, <1>11, <3>1 DEF FilterWhole
    <3> QED
      BY <1>3, <1>7, <3>2
  <2> QED
    BY <1>1, <2>1, <2>2
<1>12. down * (emitted' + limit' - out_count') >= up * due'
  <2>1. emitted' + limit' - out_count' = emitted + limit - out_count
    BY <1>1, <1>3
  <2> QED
    BY <1>1, <1>2, <1>4, <2>1 DEF FilterWhole
<1>13. \E q \in Nat : due' = down' * q
  BY <1>1 DEF WholeInv
<1>14. CASE pc' = "turn"
  <2>1. Unused' = remaining - input_needed /\ InCall'
    BY <1>1, <1>14 DEF Unused, InCall
  <2>2. Lag' = Lag
    BY <1>1, <1>3, <1>5, <2>1 DEF Lag
  <2>3. FilterWhole'
    BY <1>1, <1>2, <1>9, <1>10, <1>11, <1>12, <2>1, <2>2 DEF FilterWhole
  <2> QED
    BY <1>2, <1>13, <2>1, <2>3 DEF WholeInv
<1>15. CASE pc' = "done"
  <2>1. Unused' = 0 /\ ~InCall' /\ out_count' = limit'
    BY <1>1, <1>3, <1>15 DEF Unused, InCall, Ended
  <2> DEFINE left == remaining - input_needed
  <2>2. left \in Nat /\ Lag' = Lag + left
    BY <1>1, <1>3, <1>5, <1>9, <2>1 DEF Lag
  <2>3. up * Lag' = up * Lag + up * left /\ up * left \in Nat /\ up * Lag' \in Int
    BY <1>3, <1>9, <2>2, Distribute
  <2>4. up * (fed + AdvancedNeed) + AdvancedPhase = First + down * emitted'
    <3>1. up' * (fed' + input_needed' - Pushed') + phase' = First' + down' * emitted'
      BY <1>2 DEF IInv, InstantInv
    <3>2. fed' + input_needed' - Pushed' = fed + AdvancedNeed
      BY <1>1, <1>3, <1>5, <1>6
    <3> QED
      BY <1>1, <3>1, <3>2
  <2>5. up * (fed + AdvancedNeed) = up * due - up * Lag' + up * AdvancedNeed
    <3>1. fed = due - Lag' /\ Lag' \in Int
      BY <1>1, <1>3, <1>5, <1>9, <2>1, <2>2 DEF Lag
    <3>2. up * (due - Lag' + AdvancedNeed) = up * due - up * Lag' + up * AdvancedNeed
      BY <1>3, <1>6, <3>1
    <3> QED
      BY <3>1, <3>2
  <2>6. down * emitted' = up * due - up * Lag' + phase + down - First
    <3>1. up * due \in Nat /\ up * AdvancedNeed \in Nat /\ down * emitted' \in Nat
      BY <1>1, <1>3, <1>6
    <3> QED
      BY <1>3, <1>6, <1>8, <2>3, <2>4, <2>5, <3>1
  <2>7. down * emitted' >= up * due
    <3>1. emitted' + limit' - out_count' = emitted'
      BY <1>1, <1>3, <2>1
    <3> QED
      BY <1>1, <1>12, <3>1
  <2>8. down * emitted' - up * due < down
    <3>1. CASE up <= down
      BY <1>3, <1>8, <1>9, <2>3, <2>6, <3>1
    <3>2. CASE up > down /\ left = 0
      <4>1. phase + down < 2 * down
        BY <1>1, <1>7, <1>11, <3>2
      <4> QED
        BY <1>3, <1>8, <1>9, <2>3, <2>6, <3>2, <4>1
    <3>3. CASE up > down /\ left # 0
      <4>1. up * left >= up
        BY <1>3, <2>2, <3>3
      <4> QED
        BY <1>3, <1>8, <1>9, <2>3, <2>6, <3>3, <4>1
    <3> QED
      BY <1>3, <3>1, <3>2, <3>3
  <2>9. down * emitted' = up * due
    <3>1. PICK q \in Nat : due = down * q
      BY <1>1 DEF WholeInv
    <3>2. emitted' \in Nat
      BY <1>1, <1>3
    <3>3. up \in Nat /\ down \in Nat /\ down \in Nat \ {0} /\ due \in Nat
      BY <1>3
    <3>4. down * emitted' \in Nat /\ up * due \in Nat
      BY <3>2, <3>3, Product
    <3>5. down * emitted' - up * due > -down
      <4> DEFINE a == down * emitted'
                 b == up * due
      <4> HIDE DEF a, b
      <4>1. a - b > -down
        BY <1>3, <2>7, <3>4 DEF a, b
      <4> QED
        BY <4>1 DEF a, b
    <3> DEFINE e == emitted'
    <3>6. /\ e \in Nat /\ due = down * q
          /\ down * e - up * due > -down /\ down * e - up * due < down
      BY <2>8, <3>1, <3>2, <3>5
    <3> HIDE DEF e
    <3>7. down * e = up * due
      BY <3>3, <3>6, NoDifference
    <3> QED
      BY <3>7 DEF e
  <2>10. phase = 0
    <3>1. PICK e \in Int : down = First + up * e
      BY FirstFacts DEF IInv
    <3>2. up * Lag' = phase + up * e
      BY <1>3, <1>8, <2>3, <2>6, <2>9, <3>1
    <3>3. Lag' - e \in Int /\ up * (Lag' - e) = up * Lag' - up * e
      BY <1>3, <1>9, <2>2, <3>1
    <3>4. up * (Lag' - e) = phase
      BY <1>3, <2>3, <3>1, <3>2, <3>3
    <3>5. Lag' - e = 0
      BY <1>3, <3>3, <3>4, NoMultiple
    <3> QED
      BY <1>3, <3>4, <3>5
  <2>11. Lag' >= 0 /\ up * Lag' + First <= down
    BY <1>3, <1>8, <1>9, <2>2, <2>3, <2>6, <2>9, <2>10
  <2>12. FilterWhole'
    BY <1>1, <2>1, <2>11 DEF FilterWhole
  <2> QED
    BY <1>1, <1>2, <1>13, <2>9, <2>12 DEF WholeInv
<1> QED
  BY <1>2, <1>14, <1>15

\* The two modes of kind 1 meet their limit only with the last sample.
LEMMA StagesWholeStep ==
  ASSUME IInv, WholeInv, TimesFour \/ OverFour, whole'
  PROVE  WholeInv'
<1>1. /\ pc = "turn" /\ due' = due /\ whole' = whole /\ limit' = limit
      /\ mode' = mode /\ up' = up /\ down' = down /\ fed' = fed + 1 /\ remaining # 0
  BY DEF TimesFour, OverFour, design
<1>2. ~Polyphase /\ ~Polyphase'
  <2>1. mode = 0 \/ mode = 1
    BY DEF TimesFour, OverFour
  <2> QED
    BY <1>1, <2>1 DEF Polyphase
<1>3. /\ due \in Nat /\ fed \in Nat /\ emitted \in Nat /\ remaining \in Nat
      /\ limit \in Nat /\ out_count \in Nat /\ group \in 0 .. 3
  BY DEF IInv, TypeOK
<1>4. StagesWhole /\ \E q \in Nat : due = down * q
  BY <1>1, <1>2 DEF WholeInv
<1>5. \E q \in Nat : due' = down' * q
  BY <1>1, <1>4
<1>6. CASE TimesFour
  <2>1. up = 4 /\ down = 1 /\ group = 0 /\ mode = 0
    BY <1>1, <1>4, <1>6 DEF StagesWhole, TimesFour
  <2>2. /\ 4 * fed = emitted /\ fed + remaining = due
        /\ 4 * remaining <= limit - out_count
    BY <1>1, <1>3, <1>4, <2>1 DEF StagesWhole
  <2>3. /\ remaining' = remaining - 1 /\ out_count' = out_count + 4 /\ emitted' = emitted + 4
        /\ group' = group /\ pc' = IF out_count + 4 >= limit THEN "done" ELSE "turn"
    BY <1>6 DEF TimesFour
  <2>4. StagesWhole'
    BY <1>1, <1>3, <2>1, <2>2, <2>3 DEF StagesWhole
  <2>5. ~InCall' => down' * emitted' = up' * due'
    BY <1>1, <1>3, <2>1, <2>2, <2>3 DEF InCall
  <2> QED
    BY <1>2, <1>5, <2>4, <2>5 DEF WholeInv
<1>7. CASE OverFour
  <2>1. up = 1 /\ down = 4 /\ mode = 1
    BY <1>1, <1>4, <1>7 DEF StagesWhole, OverFour
  <2>2. /\ fed = 4 * emitted + group /\ fed + remaining = due
        /\ remaining + group <= 4 * (limit - out_count)
    BY <1>1, <1>3, <1>4, <2>1 DEF StagesWhole
  <2>3. /\ group' = (group + 1) % 4
        /\ group # 3 => /\ pc' = "turn" /\ remaining' = remaining - 1
                        /\ out_count' = out_count /\ emitted' = emitted
        /\ group = 3 =>
             /\ out_count' = out_count + 1 /\ emitted' = emitted + 1
             /\ out_count + 1 >= limit => pc' = "done"
             /\ ~(out_count + 1 >= limit) => pc' = "turn" /\ remaining' = remaining - 1
    BY <1>1, <1>7 DEF OverFour
  <2>4. group # 3 => group' = group + 1
    BY <1>3, <2>3
  <2>5. group = 3 => group' = 0
    BY <2>3
  <2>6. StagesWhole'
    BY <1>1, <1>3, <2>1, <2>2, <2>3, <2>4, <2>5 DEF StagesWhole
  <2>7. ~InCall' => down' * emitted' = up' * due'
    BY <1>1, <1>3, <2>1, <2>2, <2>3 DEF InCall
  <2> QED
    BY <1>2, <1>5, <2>6, <2>7 DEF WholeInv
<1> QED
  BY <1>6, <1>7

\* A call that has used its input returns whole blocks.
LEMMA ReturnWhole ==
  ASSUME IInv, WholeInv, Return, whole'
  PROVE  WholeInv'
<1>1. /\ pc = "done" \/ (pc = "turn" /\ remaining = 0)
      /\ pc' = "idle" /\ due' = due /\ fed' = fed /\ emitted' = emitted /\ whole' = whole
      /\ mode' = mode /\ up' = up /\ down' = down /\ First' = First
  BY DEF Return, design, ghost, First
<1>2. ~InCall' /\ Pushed' = 0 /\ Unused' = 0 /\ Pushed = 0 /\ Unused = 0
  BY <1>1 DEF InCall, Pushed, Unused
<1>3. /\ up \in Nat \ {0} /\ down \in Nat \ {0} /\ due \in Nat /\ fed \in Nat /\ emitted \in Nat
      /\ group \in 0 .. 3
  BY DEF IInv, TypeOK
<1>4. Lag' = Lag /\ Polyphase' = Polyphase
  BY <1>1, <1>2 DEF Lag, Polyphase
<1>5. PICK q \in Nat : due = down * q
  BY <1>1 DEF WholeInv
<1>6. ASSUME Polyphase PROVE FilterWhole' /\ down * emitted = up * due
  <2>1. FilterWhole
    BY <1>1, <1>6 DEF WholeInv
  <2>2. FilterWhole'
    BY <1>1, <1>2, <1>4, <2>1 DEF FilterWhole
  <2>3. CASE pc = "done"
    BY <1>1, <2>2, <2>3 DEF WholeInv, InCall
  <2>4. CASE pc = "turn" /\ remaining = 0
    <3>1. down * emitted = up * due - up * Unused - up * Lag + Ahead - First
      BY <1>6, Balance
    <3>2. up * Unused = 0
      BY <1>2, <1>3
    <3>3. /\ Ahead \in Nat /\ up * Lag \in Int /\ First \in Nat /\ up * due \in Nat
          /\ down * emitted \in Nat
      BY <1>6, Balance, FirstFacts DEF IInv
    <3>4. /\ Ahead >= First + up * Lag
          /\ up <= down => Ahead < down + First + up * Lag
          /\ up > down => Ahead < 2 * down /\ Lag >= 0
      BY <2>1, <2>4 DEF FilterWhole, InCall
    <3>5. up > down => First = down /\ up * Lag >= 0
      <4>1. up > down => First = down
        BY FirstFacts DEF IInv
      <4>2. Lag \in Int
        BY <1>6, Balance
      <4> QED
        BY <1>3, <3>4, <4>1, <4>2
    <3>6. down * emitted - up * due > -down /\ down * emitted - up * due < down
      BY <1>3, <3>1, <3>2, <3>3, <3>4, <3>5
    <3> QED
      BY <1>5, <2>2, <3>6, EndsWhole
  <2> QED
    BY <1>1, <2>3, <2>4
<1>7. ASSUME ~Polyphase PROVE StagesWhole' /\ down * emitted = up * due
  <2>1. StagesWhole
    BY <1>1, <1>7 DEF WholeInv
  <2>2. CASE pc = "done"
    BY <1>1, <2>1, <2>2 DEF WholeInv, InCall, StagesWhole
  <2>3. CASE pc = "turn" /\ remaining = 0
    <3>1. fed = due /\ up * fed = down * emitted + group /\ (mode = 0 => group = 0)
      BY <1>3, <2>1, <2>3 DEF StagesWhole
    <3>2. group = 0
      <4>1. CASE up = 4
        BY <2>1, <3>1, <4>1 DEF StagesWhole
      <4>2. CASE up = 1 /\ down = 4
        BY <1>3, <1>5, <3>1, <4>2
      <4> QED
        BY <2>1, <4>1, <4>2 DEF StagesWhole
    <3> QED
      BY <1>1, <1>3, <2>1, <3>1, <3>2 DEF StagesWhole
  <2> QED
    BY <1>1, <2>2, <2>3
<1> QED
  BY <1>1, <1>2, <1>4, <1>5, <1>6, <1>7 DEF WholeInv

\* The two modes of kind 1 multiply and divide by four.
KindInv == /\ mode = 0 => up = 4 /\ down = 1
           /\ mode = 1 => up = 1 /\ down = 4

\* Only RcFixed_Create chooses a mode.
LEMMA StepKind ==
  ASSUME KindInv, [Next]_vars
  PROVE  KindInv'
<1>1. ASSUME NEW m \in Modes, RcFixed_Create(m)
      PROVE  KindInv'
  BY <1>1 DEF RcFixed_Create, KindInv, UpFact, DownFact
<1>2. ASSUME NEW n \in Counts, NEW l \in Limits, RcFixed_Resample(n, l)
      PROVE  KindInv'
  BY <1>2 DEF RcFixed_Resample, KindInv, design
<1>3. CASE RcFixed_Reset \/ RcFixed_Delete \/ Return
  BY <1>3 DEF RcFixed_Reset, RcFixed_Delete, Return, KindInv, design
<1>4. CASE BeginTurn \/ rc_push \/ Starved \/ Output \/ TimesFour \/ OverFour
  BY <1>4 DEF BeginTurn, rc_push, Starved, Output, TimesFour, OverFour, KindInv, design
<1>5. CASE UNCHANGED vars
  BY <1>5 DEF vars, KindInv, design
<1> QED
  BY <1>1, <1>2, <1>3, <1>4, <1>5 DEF Next

\* Every step keeps whole blocks whole.
LEMMA StepWhole ==
  ASSUME IInv, KindInv, WholeInv, IInv', [Next]_vars
  PROVE  WholeInv'
<1> SUFFICES ASSUME whole' PROVE WholeInv'
  BY DEF WholeInv
<1>1. ASSUME NEW m \in Modes, RcFixed_Create(m)
      PROVE  WholeInv'
  <2>1. pc = "idle"
    BY <1>1 DEF RcFixed_Create, IInv, CallInv
  <2>2. /\ m = 0 => UpFact[m + 1] = 4 /\ DownFact[m + 1] = 1
        /\ m = 1 => UpFact[m + 1] = 1 /\ DownFact[m + 1] = 4
    BY DEF UpFact, DownFact
  <2> QED
    BY <1>1, <2>1, <2>2, Factors, ResetWhole DEF RcFixed_Create
<1>2. CASE RcFixed_Reset
  <2>1. /\ up \in Nat \ {0} /\ down \in Nat \ {0} /\ mode \in 0 .. 19
        /\ mode' = mode /\ up' = up /\ down' = down
    BY <1>2 DEF RcFixed_Reset, IInv, TypeOK, design
  <2>2. mode = 0 => up = 4 /\ down = 1
    BY DEF KindInv
  <2>3. mode = 1 => up = 1 /\ down = 4
    BY DEF KindInv
  <2> QED
    BY <1>2, <2>1, <2>2, <2>3, ResetWhole DEF RcFixed_Reset
<1>3. CASE RcFixed_Delete \/ UNCHANGED vars
  BY <1>3 DEF RcFixed_Delete, vars, WholeInv, FilterWhole, StagesWhole, Lag, Ahead, Unused,
              InCall, Pushed, Polyphase, First, design, object, call, ghost
<1>4. ASSUME NEW n \in Counts, NEW l \in Limits, RcFixed_Resample(n, l)
      PROVE  WholeInv'
  BY <1>4, CallAssumption, ResampleWhole
<1>5. CASE BeginTurn \/ rc_push
  BY <1>5, TurnWhole
<1>6. CASE Starved
  BY <1>6, StarvedWhole
<1>7. CASE Output
  BY <1>7, OutputWhole
<1>8. CASE TimesFour \/ OverFour
  BY <1>8, StagesWholeStep
<1>9. CASE Return
  BY <1>9, ReturnWhole
<1> QED
  BY <1>1, <1>2, <1>3, <1>4, <1>5, <1>6, <1>7, <1>8, <1>9 DEF Next

\* Whole blocks in, whole blocks out, for every ratio of up to down.
THEOREM BlocksStayWhole == Spec => []WholeBlocks
<1>1. Init => KindInv /\ WholeInv
  <2> SUFFICES ASSUME Init PROVE KindInv /\ WholeInv
    OBVIOUS
  <2>1. Polyphase /\ ~InCall /\ Lag = 0 /\ First = 1
    BY DEF Init, Polyphase, InCall, Lag, Pushed, Unused, First, FirstNeed, FirstPhase
  <2>2. FilterWhole
    BY <2>1 DEF Init, FilterWhole
  <2>3. 0 \in Nat /\ due = down * 0 /\ down * emitted = up * due
    BY DEF Init
  <2> QED
    BY <2>1, <2>2, <2>3 DEF WholeInv, KindInv, Init
<1>2. IInv /\ WholeInv => WholeBlocks
  BY DEF WholeInv, WholeBlocks, InCall
<1> QED
  BY <1>1, <1>2, InitInv, StepInv, StepKind, StepWhole, PTL DEF Spec

=============================================================================
