---------------------------- MODULE Dialer_proofs ----------------------------
(***************************************************************************)
(* The dialler never runs two digits together, leaves the line whole and   *)
(* the host informed, and breaks the line as often and as long as the      *)
(* country's dial says, and reports the codes of its script once and in    *)
(* order: for every dial string, country table, buffer size and timing.    *)
(***************************************************************************)
EXTENDS Dialer, FiniteSetTheorems, SequenceTheorems, WellFoundedInduction, TLAPS

\* A set of naturals that is not empty has a least element.
LEMMA LeastNat ==
  ASSUME NEW S, S \subseteq Nat, S # {}
  PROVE  /\ Min(S) \in S /\ \A y \in S : Min(S) <= y
<1>1. PICK x \in S : \A y \in S : ~(<< y, x >> \in OpToRel(<, Nat))
  BY NatLessThanWellFounded, WFMin
<1>2. \A y \in S : x <= y
  <2> SUFFICES ASSUME NEW y \in S PROVE x <= y
    OBVIOUS
  <2>1. ~(<< y, x >> \in OpToRel(<, Nat))
    BY <1>1
  <2>2. x \in Nat /\ y \in Nat
    OBVIOUS
  <2>3. ~(y < x)
    BY <2>1, <2>2 DEF OpToRel
  <2> QED
    BY <2>2, <2>3
<1> QED
  BY <1>2 DEF Min

\* A set of integers with a lower and an upper bound that is not empty has a
\* greatest element.
LEMMA GreatestInt ==
  ASSUME NEW n \in Nat, NEW S, S \subseteq -1 .. n, S # {}
  PROVE  /\ Max(S) \in S /\ \A y \in S : Max(S) >= y
<1> DEFINE T == {k \in Nat : n - k \in S}
<1>1. T \subseteq Nat
  OBVIOUS
<1>2. T # {}
  <2>1. PICK y \in S : TRUE
    OBVIOUS
  <2>2. n - y \in Nat /\ n - (n - y) = y
    BY <2>1
  <2> QED
    BY <2>1, <2>2
<1> DEFINE m == Min(T)
<1>3. m \in T /\ \A k \in T : m <= k
  BY <1>1, <1>2, LeastNat
<1> DEFINE x == n - m
<1>4. x \in S /\ m \in Nat
  BY <1>3
<1>5. ASSUME NEW y \in S PROVE x >= y
  <2>1. y \in Int /\ n - y \in Nat /\ n - (n - y) = y
    BY <1>5
  <2>2. n - y \in T
    BY <1>5, <2>1
  <2>3. m <= n - y
    BY <1>3, <2>2
  <2> HIDE DEF m
  <2> QED
    BY <1>4, <2>1, <2>3
<1> HIDE DEF x
<1> QED
  BY <1>4, <1>5 DEF Max

\* The product of two naturals.
LEMMA NatProduct ==
  ASSUME NEW a \in Nat, NEW b \in Nat
  PROVE  a * b \in Nat
OBVIOUS

-----------------------------------------------------------------------------
(***************************************************************************)
(* The inductive invariant.                                                *)
(***************************************************************************)
Keys == Digits \cup ABCD \cup {"*", "#"}

\* The types, one variable at a time, and the call object's pulse fields.
Typed ==
  /\ live \in BOOLEAN /\ tone \in BOOLEAN /\ running \in BOOLEAN /\ gap_due \in BOOLEAN
  /\ pulse_started \in BOOLEAN /\ pulse_active \in BOOLEAN /\ pulse_released \in BOOLEAN
  /\ country \in Countries
  /\ string \in Strings \cup {<< >>} /\ Len(string) <= MaxString
  /\ last_digit \in -1 .. MaxString /\ grade \in NONE .. VALID
  /\ dtmf_duration \in Nat /\ silence \in Nat
  /\ pos \in 0 .. MaxString + 1 /\ digit \in Keys /\ progress_state \in 0 .. 10
  /\ at \in 0 .. BlockSamples
PulseFields ==
  [remaining : 0 .. 10, elapsed : Nat, off_hook : BOOLEAN, break : Nat, make : Nat]

\* The analyser's last digit is the last the walk can send, and after it
\* nothing is left.
LastRight(s, c, l) == \A i \in 2 .. Len(s) : Dialable(c, s, i) => i <= l

\* What the walk has chosen can be sent, and is not owed a gap.
WalkOK ==
  /\ LastRight(string, country, last_digit)
  /\ progress_state = 1 => (tone \/ digit \in Digits) /\ ~gap_due
  /\ gap_due => progress_state = 2 \/ LastRight(string, country, pos)
  /\ grade = NONE => /\ progress_state = 0 /\ running = FALSE /\ code = "NONE"
                     /\ string = << >> /\ gap_due = FALSE /\ pulse_dial = 0
  /\ code \in {"COMMAND", "DONE"} => progress_state \in {9, 10} /\ pulse_dial = 0

\* Pulses are under way only in the two states that poll the call object, and
\* the host knows of them until it is told that they are over.
Pulsing == progress_state = 3 \/ (progress_state = 1 /\ ~tone)
PulseOK ==
  /\ pulse \in PulseFields /\ hook_on = pulse.off_hook
  /\ pulse_started => Pulsing
  /\ pulse_started <=> pulse.remaining # 0
  /\ pulse.off_hook => pulse_started
  /\ pulse_dial \in 0 .. 10
  /\ pulse_dial # 0 => pulse_started \/ (pulse_active /\ ~pulse_released)

\* The break under way is as long as the pulse has been running, but for the
\* tick with which a pulse after the first starts.
BreakOK(p, b) ==
  IF p.off_hook
    THEN /\ p.elapsed < p.break + Tick
         /\ b = p.elapsed - Tick \/ b = p.elapsed - 2 * Tick
    ELSE p.elapsed < p.break => p.elapsed = 0 \/ p.elapsed = Tick

\* The times of a flash are those of the call object only during a flash.
TimesOK ==
  /\ grade # NONE =>
       IF pulse_started /\ progress_state = 3
         THEN pulse.break = HookFlash * 10 /\ pulse.make = 0
         ELSE pulse.break = PulseBreak /\ pulse.make = PulseMake
  /\ broken \in Nat /\ breaks \in Nat
  /\ pulse_started => BreakOK(pulse, broken)

DialInv == Typed /\ WalkOK /\ PulseOK /\ TimesOK

\* The breaks of the digit under way are those of the pulses that are over,
\* and the one of this pulse once it has begun.
BreaksOf(p, n) ==
  (n - p.remaining) + (IF ~p.off_hook /\ p.elapsed < p.break THEN 0 ELSE 1)
CountOK ==
  pulse_started /\ progress_state = 1 =>
    breaks = BreaksOf(pulse, pulse_count(country, digit))


\* The invariant is what the run checks, and more.
LEMMA InvSafe == DialInv => DialerInv
<1> SUFFICES ASSUME DialInv PROVE DialerInv
  OBVIOUS
<1>1. TypeOK
  <2>1. /\ live \in BOOLEAN /\ tone \in BOOLEAN /\ running \in BOOLEAN
        /\ gap_due \in BOOLEAN /\ hook_on \in BOOLEAN /\ pulse_started \in BOOLEAN
        /\ pulse_active \in BOOLEAN /\ pulse_released \in BOOLEAN
    BY DEF DialInv, Typed, PulseOK, PulseFields
  <2>2. {live, tone, pulse_started, pulse_active, pulse_released, hook_on, running,
         gap_due} \subseteq BOOLEAN
    BY <2>1
  <2> QED
    BY <2>2 DEF TypeOK, DialInv, Typed, PulseOK, PulseFields, Keys
<1>2. GapBetweenDigits
  BY DEF GapBetweenDigits, DialInv, WalkOK
<1>3. EndReleases
  <2> SUFFICES ASSUME code \in {"COMMAND", "DONE"} PROVE pulse_dial = 0 /\ ~hook_on
    BY DEF EndReleases
  <2>1. progress_state \in {9, 10} /\ pulse_dial = 0
    BY DEF DialInv, WalkOK
  <2>2. ~Pulsing
    BY <2>1 DEF Pulsing
  <2> QED
    BY <2>1, <2>2 DEF DialInv, PulseOK
<1> QED
  BY <1>1, <1>2, <1>3 DEF DialerInv

-----------------------------------------------------------------------------
(***************************************************************************)
(* The analyser and the walk.                                              *)
(***************************************************************************)

\* A character that has something sent for it is one the analyser counts.
LEMMA OneIsDialable ==
  ASSUME NEW c, NEW s, NEW i, StateFor(c, s, i) = 1
  PROVE  /\ Dialable(c, s, i) /\ s[i] \in Keys
         /\ ToneAt(c, s, i) \/ s[i] \in Digits
<1>1. \/ s[i] \in Digits
      \/ s[i] \in {"*", "#"} /\ ToneAt(c, s, i)
      \/ s[i] \in ABCD /\ ~c.abcd /\ ToneAt(c, s, i)
  <2>1. /\ 0 # 1 /\ 3 # 1 /\ 4 # 1 /\ 5 # 1 /\ 6 # 1 /\ 7 # 1 /\ 8 # 1 /\ 9 # 1
    OBVIOUS
  <2> QED
    BY <2>1, ZenonT(30) DEF StateFor
<1> QED
  BY <1>1 DEF Dialable, Keys

\* The states the walk can choose.
LEMMA StateForRange ==
  ASSUME NEW c, NEW s, NEW i
  PROVE  StateFor(c, s, i) \in {0, 1, 3, 4, 5, 6, 7, 8, 9}
BY DEF StateFor, Digits, ABCD

\* What the analyser says of a string it accepts.
LEMMA AnalyserRight ==
  ASSUME NEW c, NEW s \in Seq(STRING)
  PROVE  /\ AnalyseDialString(c, s) \in 0 .. 3
         /\ AnalyseDialString(c, s) > INVALID =>
              Len(s) <= MaxString /\ (Len(s) = 0 \/ s[1] \in {"T", "P"})
<1>1. Len(s) \in Nat /\ MaxString \in Nat
  BY DialerAssumption
<1>2. CASE Len(s) > MaxString
  <2>1. AnalyseDialString(c, s) = FATAL
    BY <1>1, <1>2 DEF AnalyseDialString
  <2> QED
    BY <2>1 DEF FATAL, INVALID
<1>3. CASE Len(s) = 0
  <2>1. AnalyseDialString(c, s) = VALID
    BY <1>1, <1>3, DialerAssumption DEF AnalyseDialString
  <2> QED
    BY <1>1, <1>3, <2>1 DEF VALID, INVALID
<1>4. CASE Len(s) \in 1 .. MaxString /\ s[1] \notin {"T", "P"}
  <2>1. AnalyseDialString(c, s) = INVALID
    BY <1>1, <1>4 DEF AnalyseDialString
  <2> QED
    BY <2>1 DEF INVALID
<1>5. CASE Len(s) \in 1 .. MaxString /\ s[1] \in {"T", "P"}
  <2>1. AnalyseDialString(c, s) \in {VALID, TOLERABLE, INVALID}
    BY <1>1, <1>5 DEF AnalyseDialString
  <2> QED
    BY <1>1, <1>5, <2>1 DEF VALID, TOLERABLE, INVALID
<1> QED
  BY <1>1, <1>2, <1>3, <1>4, <1>5

\* last_digit.
LEMMA LastDigitRight ==
  ASSUME NEW c, NEW s \in Seq(STRING)
  PROVE  /\ LastDigit(c, s) \in -1 .. MaxString
         /\ (Len(s) <= MaxString /\ (Len(s) = 0 \/ s[1] \in {"T", "P"})) =>
              LastRight(s, c, LastDigit(c, s))
<1>1. Len(s) \in Nat /\ MaxString \in Nat
  BY DialerAssumption
<1>2. CASE Len(s) \in 1 .. MaxString /\ s[1] \in {"T", "P"}
  <2> DEFINE D == {i \in 2 .. Len(s) : Dialable(c, s, i)}
             S == {-1} \cup D
  <2>1. S \subseteq -1 .. Len(s) /\ S # {}
    BY <1>1
  <2>2. LastDigit(c, s) = Max(S)
    BY <1>2 DEF LastDigit
  <2>3. Max(S) \in S /\ \A y \in S : Max(S) >= y
    BY <1>1, <2>1, GreatestInt
  <2>4. LastDigit(c, s) \in -1 .. MaxString
    BY <1>1, <1>2, <2>1, <2>2, <2>3
  <2>5. ASSUME NEW i \in 2 .. Len(s), Dialable(c, s, i) PROVE i <= LastDigit(c, s)
    <3>1. i \in S
      BY <2>5
    <3>2. LastDigit(c, s) >= i
      BY <2>2, <2>3, <3>1
    <3> QED
      BY <1>1, <2>4, <3>2
  <2> QED
    BY <2>4, <2>5 DEF LastRight
<1>3. CASE ~(Len(s) \in 1 .. MaxString /\ s[1] \in {"T", "P"})
  <2>1. LastDigit(c, s) = -1
    BY <1>3 DEF LastDigit
  <2>2. -1 \in -1 .. MaxString
    BY <1>1
  <2>3. (Len(s) <= MaxString /\ (Len(s) = 0 \/ s[1] \in {"T", "P"})) => Len(s) = 0
    BY <1>1, <1>3
  <2>4. Len(s) = 0 => LastRight(s, c, -1)
    BY DEF LastRight
  <2> QED
    BY <2>1, <2>2, <2>3, <2>4
<1> QED
  BY <1>2, <1>3

\* The walk goes forward to something that means something, or to the NUL.
LEMMA NextPosRight ==
  ASSUME NEW c, NEW s \in Seq(STRING), NEW i \in Nat
  PROVE  /\ NextPos(c, s, i) \in 1 .. Len(s) + 1
         /\ NextPos(c, s, i) <= Len(s) => NextPos(c, s, i) > i /\ NextPos(c, s, i) > 1
<1> DEFINE D == {j \in i + 1 .. Len(s) : j > 1 /\ StateFor(c, s, j) # 0}
           S == {Len(s) + 1} \cup D
<1>1. Len(s) \in Nat
  OBVIOUS
<1>2. S \subseteq Nat /\ S # {}
  BY <1>1
<1>3. Min(S) \in S
  BY <1>2, LeastNat
<1>4. NextPos(c, s, i) = Min(S)
  BY DEF NextPos
<1>5. \A j \in S : j \in 1 .. Len(s) + 1 /\ (j <= Len(s) => j > i /\ j > 1)
  BY <1>1
<1> HIDE DEF S
<1> QED
  BY <1>3, <1>4, <1>5

\* A pause has a length.
LEMMA PauseNat ==
  ASSUME NEW s, NEW i \in Int, NEW j \in Int
  PROVE  Min({Repeat(s, i, j) * Pause, PauseLimit}) * SamplesPerSecond \in Nat
<1> DEFINE K == {k \in i + 1 .. j - 1 : s[k] = ","}
<1>1. IsFiniteSet(K)
  <2>1. IsFiniteSet(i + 1 .. j - 1)
    BY FS_Interval
  <2> QED
    BY <2>1, FS_Subset
<1>2. Cardinality(K) \in Nat
  BY <1>1, FS_CardinalityType
<1>3. Repeat(s, i, j) = 1 + Cardinality(K)
  BY DEF Repeat
<1> HIDE DEF K
<1>4. Repeat(s, i, j) \in Nat
  BY <1>2, <1>3
<1>5. Pause \in Nat /\ PauseLimit \in Nat /\ SamplesPerSecond \in Nat
  BY DialerAssumption
<1>6. Repeat(s, i, j) * Pause \in Nat
  BY <1>4, <1>5, NatProduct
<1> DEFINE S == {Repeat(s, i, j) * Pause, PauseLimit}
<1>7. S \subseteq Nat /\ S # {}
  BY <1>5, <1>6
<1>8. Min(S) \in Nat
  BY <1>7, LeastNat
<1> HIDE DEF S
<1>9. Min(S) * SamplesPerSecond \in Nat
  BY <1>5, <1>8, NatProduct
<1> QED
  BY <1>9 DEF S

\* begin_next: where the walk goes, and that past the last digit it never comes
\* to another one.
LEMMA BeginNext ==
  ASSUME Typed, NEW owed \in Nat, NEW started \in BOOLEAN, begin_next(owed, started)
  PROVE  /\ string' = string /\ last_digit' = last_digit /\ grade' = grade
         /\ dtmf_duration' = dtmf_duration
         /\ pos' \in 0 .. MaxString + 1 /\ digit' \in Keys /\ silence' \in Nat
         /\ progress_state' \in 0 .. 10 /\ progress_state' # 2
         /\ tone' \in BOOLEAN /\ pulse_started' \in BOOLEAN
         /\ progress_state' = 1 => tone' \/ digit' \in Digits
         /\ started = FALSE => pulse_started' = FALSE
         /\ LastRight(string, country, pos) =>
              progress_state' # 1 /\ LastRight(string, country, pos')
<1> DEFINE j == NextPos(country, string, pos)
           next == IF j > Len(string) THEN 10 ELSE StateFor(country, string, j)
           t == IF j > 1 THEN ToneAt(country, string, j) ELSE tone
<1>1. /\ string \in Seq(STRING) /\ Len(string) \in Nat /\ Len(string) <= MaxString
      /\ MaxString \in Nat /\ pos \in Nat /\ tone \in BOOLEAN
      /\ digit \in Keys /\ dtmf_duration \in Nat
  <2>1. string \in Strings \cup {<< >>} /\ Strings \subseteq Seq(STRING)
    BY DialerAssumption DEF Typed
  <2>2. << >> \in Seq(STRING)
    OBVIOUS
  <2>3. string \in Seq(STRING)
    BY <2>1, <2>2
  <2>4. /\ Len(string) <= MaxString /\ pos \in 0 .. MaxString + 1 /\ tone \in BOOLEAN
        /\ digit \in Keys /\ dtmf_duration \in Nat /\ MaxString \in Nat
    BY DialerAssumption DEF Typed
  <2> QED
    BY <2>3, <2>4
<1>2. j \in 1 .. Len(string) + 1 /\ (j <= Len(string) => j > pos /\ j > 1)
  BY <1>1, NextPosRight
<1>3. next \in {0, 1, 3, 4, 5, 6, 7, 8, 9, 10}
  BY StateForRange
<1>4. t \in BOOLEAN
  BY <1>1 DEF ToneAt
<1>5. next = 1 => /\ j \in 2 .. Len(string) /\ j > pos
                  /\ Dialable(country, string, j) /\ string[j] \in Keys
                  /\ t \/ string[j] \in Digits
  <2> SUFFICES ASSUME next = 1
               PROVE  /\ j \in 2 .. Len(string) /\ j > pos
                      /\ Dialable(country, string, j) /\ string[j] \in Keys
                      /\ t \/ string[j] \in Digits
    OBVIOUS
  <2>1. ~(j > Len(string)) /\ StateFor(country, string, j) = 1
    OBVIOUS
  <2>2. /\ Dialable(country, string, j) /\ string[j] \in Keys
        /\ ToneAt(country, string, j) \/ string[j] \in Digits
    BY <2>1, OneIsDialable
  <2>3. j \in 2 .. Len(string) /\ j > pos /\ j > 1
    BY <1>1, <1>2, <2>1
  <2> QED
    BY <2>2, <2>3
<1>6. /\ pos' = j /\ progress_state' = next /\ tone' = t
      /\ digit' = IF next = 1 THEN string[j] ELSE digit
      /\ silence' = CASE next = 1 /\ t -> dtmf_duration * SamplesPerMs
                      [] next = 4 -> Min({Repeat(string, pos, j) * Pause, PauseLimit})
                                     * SamplesPerSecond
                      [] OTHER -> owed
      /\ pulse_started' = (started /\ ~(next = 3 \/ (next = 1 /\ ~t)))
      /\ string' = string /\ last_digit' = last_digit /\ grade' = grade
      /\ dtmf_duration' = dtmf_duration
  BY DEF begin_next
<1>7. silence' \in Nat
  <2>1. dtmf_duration * SamplesPerMs \in Nat
    BY <1>1, NatProduct, DialerAssumption
  <2>2. Min({Repeat(string, pos, j) * Pause, PauseLimit}) * SamplesPerSecond \in Nat
    <3>1. pos \in Int /\ j \in Int
      BY <1>1, <1>2
    <3> HIDE DEF j
    <3> QED
      BY <3>1, PauseNat
  <2> HIDE DEF j, next, t
  <2>3. silence' = dtmf_duration * SamplesPerMs \/ silence' = owed
        \/ silence' = Min({Repeat(string, pos, j) * Pause, PauseLimit}) * SamplesPerSecond
    <3>1. CASE next = 1 /\ t
      BY <1>6, <3>1
    <3>2. CASE next = 4
      BY <1>6, <3>2
    <3>3. CASE ~(next = 1 /\ t) /\ next # 4
      BY <1>6, <3>3
    <3> QED
      BY <3>1, <3>2, <3>3
  <2> QED
    BY <2>1, <2>2, <2>3
<1> HIDE DEF j, next, t
<1>8. /\ pulse_started' \in BOOLEAN /\ (started = FALSE => pulse_started' = FALSE)
  BY <1>6
<1>9. progress_state' = 1 => tone' \/ digit' \in Digits
  BY <1>5, <1>6
<1>10. digit' \in Keys
  BY <1>1, <1>5, <1>6
<1>11. ASSUME LastRight(string, country, pos)
       PROVE  progress_state' # 1 /\ LastRight(string, country, pos')
  <2>1. next # 1
    <3> SUFFICES ASSUME next = 1 PROVE FALSE
      OBVIOUS
    <3>1. j \in 2 .. Len(string) /\ j > pos /\ Dialable(country, string, j)
      BY <1>5
    <3>2. j <= pos
      BY <1>11, <3>1 DEF LastRight
    <3> QED
      BY <1>1, <1>2, <3>1, <3>2
  <2>2. ASSUME NEW i \in 2 .. Len(string), Dialable(country, string, i) PROVE i <= j
    <3>1. i <= pos
      BY <1>11, <2>2 DEF LastRight
    <3> QED
      BY <1>1, <1>2, <2>2, <3>1
  <2> QED
    BY <1>6, <2>1, <2>2 DEF LastRight
<1>12. pos' \in 0 .. MaxString + 1 /\ progress_state' \in 0 .. 10 /\ progress_state' # 2
  BY <1>1, <1>2, <1>3, <1>6
<1> QED
  BY <1>4, <1>6, <1>7, <1>8, <1>9, <1>10, <1>11, <1>12

-----------------------------------------------------------------------------
(***************************************************************************)
(* The pulse dialler.                                                      *)
(***************************************************************************)

\* One tick of a pulse: the break starts, ends or goes on, or the pulse is over.
LEMMA PolledCases ==
  ASSUME NEW p \in PulseFields, p.remaining # 0
  PROVE  /\ Polled(p) \in PulseFields
         /\ Polled(p).break = p.break /\ Polled(p).make = p.make
         /\ \/ /\ p.off_hook = FALSE /\ p.elapsed < p.break
               /\ Polled(p).off_hook = TRUE /\ Polled(p).remaining = p.remaining
               /\ Polled(p).elapsed = p.elapsed + Tick
            \/ /\ p.off_hook = TRUE /\ p.elapsed >= p.break
               /\ Polled(p).off_hook = FALSE /\ Polled(p).remaining = p.remaining
               /\ Polled(p).elapsed = p.elapsed + Tick
            \/ /\ p.off_hook = TRUE /\ p.elapsed < p.break
               /\ Polled(p).off_hook = TRUE /\ Polled(p).remaining = p.remaining
               /\ Polled(p).elapsed = p.elapsed + Tick
            \/ /\ p.off_hook = FALSE /\ p.elapsed >= p.break
               /\ Polled(p).off_hook = FALSE /\ Polled(p).remaining = p.remaining
               /\ Polled(p).elapsed = p.elapsed + Tick
            \/ /\ p.off_hook = FALSE /\ p.elapsed >= p.break
               /\ Polled(p).off_hook = FALSE /\ Polled(p).remaining = p.remaining - 1
               /\ Polled(p).elapsed = Tick
<1>1. /\ p.remaining \in 0 .. 10 /\ p.elapsed \in Nat /\ p.off_hook \in BOOLEAN
      /\ p.break \in Nat /\ p.make \in Nat /\ Tick \in Nat
  BY DialerAssumption DEF PulseFields
<1>2. p.elapsed + Tick \in Nat /\ p.remaining - 1 \in 0 .. 10
  BY <1>1
<1>3. CASE p.elapsed < p.break /\ p.off_hook = FALSE
  <2>1. Polled(p) = [p EXCEPT !.off_hook = TRUE, !.elapsed = p.elapsed + Tick]
    BY <1>3 DEF Polled
  <2> QED
    BY <1>1, <1>2, <1>3, <2>1 DEF PulseFields
<1>4. CASE p.elapsed >= p.break /\ p.off_hook = TRUE
  <2>1. Polled(p) = [p EXCEPT !.off_hook = FALSE, !.elapsed = p.elapsed + Tick]
    BY <1>1, <1>4 DEF Polled
  <2> QED
    BY <1>1, <1>2, <1>4, <2>1 DEF PulseFields
<1>5. CASE p.elapsed < p.break /\ p.off_hook = TRUE
  <2>1. p.elapsed < p.break + p.make
    BY <1>1, <1>5
  <2>2. Polled(p) = [p EXCEPT !.elapsed = p.elapsed + Tick]
    BY <1>1, <1>5, <2>1 DEF Polled
  <2> QED
    BY <1>1, <1>2, <1>5, <2>2 DEF PulseFields
<1>6. CASE p.elapsed >= p.break /\ p.off_hook = FALSE
  <2>1. CASE p.elapsed < p.break + p.make
    <3>1. Polled(p) = [p EXCEPT !.elapsed = p.elapsed + Tick]
      BY <1>1, <1>6, <2>1 DEF Polled
    <3> QED
      BY <1>1, <1>2, <1>6, <3>1 DEF PulseFields
  <2>2. CASE ~(p.elapsed < p.break + p.make)
    <3>1. Polled(p) = [p EXCEPT !.remaining = p.remaining - 1, !.elapsed = Tick]
      BY <1>1, <1>6, <2>2 DEF Polled
    <3> QED
      BY <1>1, <1>2, <1>6, <3>1 DEF PulseFields
  <2> QED
    BY <2>1, <2>2
<1>7. /\ p.elapsed < p.break \/ p.elapsed >= p.break
      /\ p.off_hook = TRUE \/ p.off_hook = FALSE
  BY <1>1
<1> QED
  BY <1>3, <1>4, <1>5, <1>6, <1>7

\* What a tick does to the breaks of the line: b of them so far, the last one
\* of w ms, with n pulses to send.
LEMMA TickRight ==
  ASSUME NEW p \in PulseFields, p.remaining # 0, NEW b \in Nat, NEW w \in Nat,
         NEW n \in 1 .. 10, BreakOK(p, w), NEW b1, NEW w1,
         b1 = b + (IF Polled(p).off_hook /\ ~p.off_hook THEN 1 ELSE 0),
         w1 = CASE Polled(p).off_hook /\ ~p.off_hook -> 0
                [] p.off_hook -> w + Tick
                [] OTHER -> w
  PROVE  /\ b1 \in Nat /\ w1 \in Nat /\ BreakOK(Polled(p), w1)
         /\ p.off_hook /\ ~Polled(p).off_hook =>
              p.break - Tick <= w1 /\ w1 < p.break + Tick
         /\ Polled(p).off_hook => Polled(p).remaining # 0
         /\ p.break > Tick /\ b = BreaksOf(p, n) =>
              /\ b1 = BreaksOf(Polled(p), n)
              /\ Polled(p).remaining = 0 => b1 = n
<1> DEFINE e == Polled(p)
<1>1. /\ p.remaining \in 0 .. 10 /\ p.elapsed \in Nat /\ p.off_hook \in BOOLEAN
      /\ p.break \in Nat /\ p.make \in Nat /\ Tick \in Nat /\ Tick > 0
  BY DialerAssumption DEF PulseFields
<1>2. e \in PulseFields /\ e.break = p.break
  BY PolledCases
<1>3. /\ e.remaining \in 0 .. 10 /\ e.elapsed \in Nat /\ e.off_hook \in BOOLEAN
  BY <1>2 DEF PulseFields
<1>4. CASE /\ p.off_hook = FALSE /\ p.elapsed < p.break
           /\ e.off_hook = TRUE /\ e.remaining = p.remaining
           /\ e.elapsed = p.elapsed + Tick
  <2>1. b1 = b + 1 /\ w1 = 0
    BY <1>4
  <2>2. p.elapsed = 0 \/ p.elapsed = Tick
    BY <1>4 DEF BreakOK
  <2>3. BreakOK(e, w1)
    BY <1>1, <1>2, <1>3, <1>4, <2>1, <2>2 DEF BreakOK
  <2>4. b = BreaksOf(p, n) => b1 = BreaksOf(e, n)
    BY <1>1, <1>2, <1>3, <1>4, <2>1 DEF BreaksOf
  <2> QED
    BY <1>4, <2>1, <2>3, <2>4
<1>5. CASE /\ p.off_hook = TRUE /\ p.elapsed >= p.break
           /\ e.off_hook = FALSE /\ e.remaining = p.remaining
           /\ e.elapsed = p.elapsed + Tick
  <2>1. b1 = b /\ w1 = w + Tick
    BY <1>5
  <2>2. /\ p.elapsed < p.break + Tick
        /\ w = p.elapsed - Tick \/ w = p.elapsed - 2 * Tick
    BY <1>5 DEF BreakOK
  <2>3. BreakOK(e, w1)
    <3>1. ~(e.elapsed < e.break)
      BY <1>1, <1>2, <1>5
    <3> QED
      BY <1>5, <3>1 DEF BreakOK
  <2>4. p.break - Tick <= w1 /\ w1 < p.break + Tick
    BY <1>1, <1>5, <2>1, <2>2
  <2>5. b = BreaksOf(p, n) => b1 = BreaksOf(e, n)
    BY <1>1, <1>2, <1>3, <1>5, <2>1 DEF BreaksOf
  <2> QED
    BY <1>1, <1>5, <2>1, <2>3, <2>4, <2>5
<1>6. CASE /\ p.off_hook = TRUE /\ p.elapsed < p.break
           /\ e.off_hook = TRUE /\ e.remaining = p.remaining
           /\ e.elapsed = p.elapsed + Tick
  <2>1. b1 = b /\ w1 = w + Tick
    BY <1>6
  <2>2. w = p.elapsed - Tick \/ w = p.elapsed - 2 * Tick
    BY <1>6 DEF BreakOK
  <2>3. BreakOK(e, w1)
    BY <1>1, <1>2, <1>3, <1>6, <2>1, <2>2 DEF BreakOK
  <2>4. b = BreaksOf(p, n) => b1 = BreaksOf(e, n)
    BY <1>1, <1>2, <1>3, <1>6, <2>1 DEF BreaksOf
  <2> QED
    BY <1>1, <1>6, <2>1, <2>3, <2>4
<1>7. CASE /\ p.off_hook = FALSE /\ p.elapsed >= p.break
           /\ e.off_hook = FALSE /\ e.remaining = p.remaining
           /\ e.elapsed = p.elapsed + Tick
  <2>1. b1 = b /\ w1 = w
    BY <1>7
  <2>2. ~(e.elapsed < e.break)
    BY <1>1, <1>2, <1>7
  <2>3. BreakOK(e, w1)
    BY <1>7, <2>2 DEF BreakOK
  <2>4. b = BreaksOf(p, n) => b1 = BreaksOf(e, n)
    BY <1>1, <1>2, <1>3, <1>7, <2>1 DEF BreaksOf
  <2> QED
    BY <1>7, <2>1, <2>3, <2>4
<1>8. CASE /\ p.off_hook = FALSE /\ p.elapsed >= p.break
           /\ e.off_hook = FALSE /\ e.remaining = p.remaining - 1
           /\ e.elapsed = Tick
  <2>1. b1 = b /\ w1 = w
    BY <1>8
  <2>2. BreakOK(e, w1)
    BY <1>8 DEF BreakOK
  <2>3. p.break > Tick /\ b = BreaksOf(p, n) =>
          b1 = BreaksOf(e, n) /\ (e.remaining = 0 => b1 = n)
    BY <1>1, <1>2, <1>3, <1>8, <2>1 DEF BreaksOf
  <2> QED
    BY <1>8, <2>1, <2>2, <2>3
<1> QED
  BY <1>4, <1>5, <1>6, <1>7, <1>8, PolledCases

\* A turn of DialerProgress with the pulse dialler, which it loads first if it
\* is not under way.
LEMMA PulseTurn ==
  ASSUME NEW p \in PulseFields, NEW n \in 1 .. 10, pulse_started \in BOOLEAN,
         pulse_started <=> p.remaining # 0, p.off_hook => pulse_started,
         hook_on = p.off_hook, breaks \in Nat, broken \in Nat, pulse_dial \in 0 .. 10,
         pulse_started => BreakOK(p, broken), LineMoves(p, n)
  PROVE  /\ Advanced(p, n) \in PulseFields
         /\ Advanced(p, n).break = p.break /\ Advanced(p, n).make = p.make
         /\ pulse_started \/ Loads(p)
         /\ Finished(p, n) <=> Advanced(p, n).remaining = 0
         /\ hook_on' = Advanced(p, n).off_hook
         /\ Advanced(p, n).off_hook => Advanced(p, n).remaining # 0
         /\ pulse_dial' \in 0 .. 10 /\ breaks' \in Nat /\ broken' \in Nat
         /\ BreakOK(Advanced(p, n), broken')
         /\ hook_on /\ ~hook_on' => p.break - Tick <= broken' /\ broken' < p.break + Tick
         /\ p.break > Tick /\ (pulse_started => breaks = BreaksOf(p, n)) =>
              /\ breaks' = BreaksOf(Advanced(p, n), n)
              /\ Advanced(p, n).remaining = 0 => breaks' = n
<1> DEFINE q == IF Loads(p) THEN Loaded(Polled(p), n) ELSE p
           e == Polled(q)
           b == IF Loads(p) THEN 0 ELSE breaks
<1>1. Advanced(p, n) = e
  BY DEF Advanced
<1>2. /\ hook_on' = e.off_hook
      /\ pulse_dial' = IF Loads(p) THEN Loaded(p, n).remaining ELSE pulse_dial
      /\ breaks' = b + (IF e.off_hook /\ ~hook_on THEN 1 ELSE 0)
      /\ broken' = CASE e.off_hook /\ ~hook_on -> 0
                     [] hook_on -> broken + Tick
                     [] OTHER -> broken
  BY <1>1 DEF LineMoves
<1>3. Finished(p, n) <=> (pulse_started \/ Loads(p)) /\ e.remaining = 0
  BY <1>1 DEF Finished, Ready
<1>4. /\ q \in PulseFields /\ q.remaining # 0 /\ q.break = p.break /\ q.make = p.make
      /\ q.off_hook = p.off_hook /\ BreakOK(q, broken) /\ b \in Nat
      /\ pulse_started \/ Loads(p)
      /\ pulse_dial' \in 0 .. 10
      /\ p.break > Tick /\ (pulse_started => breaks = BreaksOf(p, n)) => b = BreaksOf(q, n)
  <2>1. CASE pulse_started
    <3>1. ~Loads(p)
      BY <2>1 DEF Loads
    <3> QED
      BY <1>2, <2>1, <3>1
  <2>2. CASE ~pulse_started
    <3>1. p.remaining = 0 /\ ~p.off_hook
      BY <2>2
    <3>2. Polled(p) = p
      BY <3>1 DEF Polled
    <3>3. Loads(p)
      BY <2>2, <3>1, <3>2 DEF Loads, Ready
    <3>4. n # 0 /\ n \in 0 .. 10
      OBVIOUS
    <3>5. Loaded(p, n) = [p EXCEPT !.remaining = n, !.elapsed = 0]
      BY <3>4 DEF Loaded
    <3>6. q = Loaded(p, n) /\ b = 0
      BY <3>2, <3>3
    <3> HIDE DEF q, b
    <3>7. /\ q \in PulseFields /\ q.remaining = n /\ q.elapsed = 0
          /\ q.break = p.break /\ q.make = p.make /\ q.off_hook = p.off_hook
      <4>1. q = [p EXCEPT !.remaining = n, !.elapsed = 0]
        BY <3>5, <3>6
      <4>2. 0 \in Nat
        OBVIOUS
      <4> QED
        BY <3>4, <4>1, <4>2 DEF PulseFields
    <3>8. pulse_dial' = n
      BY <1>2, <3>3, <3>6, <3>7
    <3>9. BreakOK(q, broken)
      BY <3>1, <3>7 DEF BreakOK
    <3>10. p.break > Tick => b = BreaksOf(q, n)
      <4>1. p.break \in Nat /\ Tick \in Nat
        BY DialerAssumption DEF PulseFields
      <4>2. p.break > Tick => 0 < p.break
        BY <4>1
      <4> QED
        BY <3>1, <3>6, <3>7, <4>2 DEF BreaksOf
    <3> QED
      BY <3>3, <3>4, <3>6, <3>7, <3>8, <3>9, <3>10
  <2> QED
    BY <2>1, <2>2
<1> HIDE DEF q, b
<1>5. e \in PulseFields /\ e.break = q.break /\ e.make = q.make
  BY <1>4, PolledCases
<1> DEFINE b1 == breaks'
           w1 == broken'
<1>6. /\ b1 = b + (IF Polled(q).off_hook /\ ~q.off_hook THEN 1 ELSE 0)
      /\ w1 = CASE Polled(q).off_hook /\ ~q.off_hook -> 0
                [] q.off_hook -> broken + Tick
                [] OTHER -> broken
  BY <1>2, <1>4
<1> HIDE DEF b1, w1
<1>7. /\ b1 \in Nat /\ w1 \in Nat /\ BreakOK(Polled(q), w1)
      /\ q.off_hook /\ ~Polled(q).off_hook => q.break - Tick <= w1 /\ w1 < q.break + Tick
      /\ Polled(q).off_hook => Polled(q).remaining # 0
      /\ q.break > Tick /\ b = BreaksOf(q, n) =>
           /\ b1 = BreaksOf(Polled(q), n)
           /\ Polled(q).remaining = 0 => b1 = n
  BY <1>4, <1>6, TickRight
<1> HIDE DEF e
<1>8. Polled(q) = e
  BY DEF e
<1> QED
  BY <1>1, <1>2, <1>3, <1>4, <1>5, <1>7, <1>8 DEF b1, w1

\* The pulses of a digit are those of the country's dial, one at least.
LEMMA PulsesOfDigit ==
  ASSUME NEW c \in Countries, NEW d \in Digits
  PROVE  pulse_count(c, d) \in 1 .. 10 /\ pulse_count(c, d) = Pulses(c.pattern, Value[d])
<1> DEFINE n == KeyOf[d]
<1>1. n \in {0, 1, 2, 3, 4, 5, 6, 7, 8, 10}
  BY DEF KeyOf, Digits
<1>2. Value[d] = (n + 1) % 11
  BY DEF Value
<1> HIDE DEF n
<1>3. /\ n = 10 => (n + 1) % 11 = 0
      /\ n # 10 => (n + 1) % 11 = n + 1 /\ n \in 0 .. 8
  BY <1>1
<1>4. c.pattern = 1 \/ c.pattern = 2 \/ c.pattern = 3
  BY DialerAssumption
<1>5. CASE c.pattern = 1
  <2>1. pulse_count(c, d) = IF n = 10 THEN 10 ELSE n + 1
    BY <1>5 DEF pulse_count, n
  <2>2. Pulses(c.pattern, Value[d]) = IF Value[d] = 0 THEN 10 ELSE Value[d]
    BY <1>5 DEF Pulses
  <2> QED
    BY <1>2, <1>3, <2>1, <2>2
<1>6. CASE c.pattern = 2
  <2>1. pulse_count(c, d) = IF n = 10 THEN 1 ELSE n + 2
    BY <1>6 DEF pulse_count, n
  <2>2. Pulses(c.pattern, Value[d]) = Value[d] + 1
    BY <1>6 DEF Pulses
  <2> QED
    BY <1>2, <1>3, <2>1, <2>2
<1>7. CASE c.pattern = 3
  <2>1. pulse_count(c, d) = IF n = 10 THEN 10 ELSE 10 - (n + 1)
    BY <1>7 DEF pulse_count, n
  <2>2. Pulses(c.pattern, Value[d]) = 10 - Value[d]
    BY <1>7 DEF Pulses
  <2> QED
    BY <1>2, <1>3, <2>1, <2>2
<1> QED
  BY <1>4, <1>5, <1>6, <1>7

-----------------------------------------------------------------------------
(***************************************************************************)
(* The invariant is kept, action by action.                                *)
(***************************************************************************)

\* What leaves the walk and the pulses alone.
LEMMA CallsKeep ==
  ASSUME DialInv, DialerProgress \/ Full \/ Stop \/ DialerAbort \/ Modifier
                    \/ UNCHANGED vars
  PROVE  DialInv'
<1>1. CASE UNCHANGED vars
  BY <1>1 DEF vars, dialer, handshake, line, DialInv, Typed, WalkOK, PulseOK, TimesOK,
              Pulsing
<1>2. CASE DialerProgress
  <2>1. Typed' /\ PulseOK' /\ TimesOK'
    BY <1>2, DialerAssumption DEF DialerProgress, dialer, handshake, line, DialInv, Typed,
                PulseOK, TimesOK, Pulsing
  <2>2. WalkOK'
    BY <1>2 DEF DialerProgress, dialer, handshake, line, DialInv, Typed, WalkOK,
                NONE, INVALID
  <2> QED
    BY <2>1, <2>2 DEF DialInv
<1>3. CASE Full
  <2>1. Typed' /\ PulseOK' /\ TimesOK'
    BY <1>3 DEF Full, Return, dialer, handshake, line, DialInv, Typed,
                PulseOK, TimesOK, Pulsing
  <2>2. WalkOK'
    BY <1>3 DEF Full, Return, dialer, handshake, line, DialInv, Typed, WalkOK
  <2> QED
    BY <2>1, <2>2 DEF DialInv
<1>4. CASE Stop
  <2>1. /\ pulse_dial' = 0 \/ (pulse_dial' = pulse_dial /\ ~(pulse_active /\ ~pulse_released))
        /\ pulse_released' \in BOOLEAN
        /\ pulse_dial' # 0 => pulse_released' = pulse_released
    BY <1>4 DEF Stop, Released, DialInv, Typed
  <2>2. progress_state \in {9, 10} /\ ~pulse_started /\ running /\ pulse_dial' = 0
    BY <1>4, <2>1 DEF Stop, Turn, DialInv, PulseOK, Pulsing
  <2>3. Typed'
    BY <1>4, <2>1 DEF Stop, Return, dialer, line, DialInv, Typed
  <2>4. WalkOK'
    BY <1>4, <2>2 DEF Stop, Return, dialer, line, DialInv, WalkOK
  <2>5. PulseOK' /\ TimesOK'
    BY <1>4, <2>2 DEF Stop, Return, dialer, line, DialInv, PulseOK, TimesOK, Pulsing
  <2> QED
    BY <2>3, <2>4, <2>5 DEF DialInv
<1>5. CASE DialerAbort
  <2>1. /\ pulse_dial' = 0 \/ (pulse_dial' = pulse_dial /\ pulse_released' = pulse_released)
        /\ pulse_released' \in BOOLEAN
    BY <1>5 DEF DialerAbort, Released, DialInv, Typed
  <2>2. Typed'
    BY <1>5, <2>1 DEF DialerAbort, dialer, line, DialInv, Typed
  <2>3. WalkOK'
    BY <1>5, <2>1 DEF DialerAbort, dialer, line, DialInv, WalkOK
  <2>4. PulseOK' /\ TimesOK'
    BY <1>5, <2>1 DEF DialerAbort, dialer, line, DialInv, PulseOK, TimesOK, Pulsing
  <2> QED
    BY <2>2, <2>3, <2>4 DEF DialInv
<1>6. CASE Modifier
  <2>1. progress_state \in 5 .. 8 /\ progress_state' = 0 /\ running
    BY <1>6 DEF Modifier, Turn
  <2>2. ~pulse_started
    BY <2>1 DEF DialInv, PulseOK, Pulsing
  <2>3. code' \notin {"COMMAND", "DONE"}
    <3>1. progress_state = 5 \/ progress_state = 6 \/ progress_state = 7 \/ progress_state = 8
      BY <2>1
    <3>2. code' = CodeFor(progress_state)
      BY <1>6 DEF Modifier, Return
    <3> QED
      BY <3>1, <3>2 DEF CodeFor
  <2>4. Typed'
    <3>1. /\ live' = live /\ tone' = tone /\ gap_due' = gap_due /\ country' = country
          /\ string' = string /\ last_digit' = last_digit /\ grade' = grade
          /\ dtmf_duration' = dtmf_duration /\ silence' = silence /\ pos' = pos
          /\ digit' = digit /\ at' = at /\ pulse_started' = pulse_started
          /\ pulse_active' = pulse_active /\ pulse_released' = pulse_released
          /\ running' = FALSE
      BY <1>6 DEF Modifier, Return, handshake
    <3>2. 0 \in 0 .. 10
      OBVIOUS
    <3> QED
      BY <2>1, <3>1, <3>2 DEF DialInv, Typed
  <2>5. WalkOK'
    <3>1. /\ string' = string /\ country' = country /\ last_digit' = last_digit
          /\ pos' = pos /\ gap_due' = gap_due /\ grade' = grade
      BY <1>6 DEF Modifier
    <3>2. /\ LastRight(string, country, last_digit) /\ grade # NONE
          /\ gap_due => LastRight(string, country, pos)
      BY <2>1 DEF DialInv, WalkOK
    <3> QED
      BY <2>1, <2>3, <3>1, <3>2 DEF WalkOK
  <2>6. PulseOK' /\ TimesOK'
    BY <1>6, <2>1, <2>2 DEF Modifier, Return, handshake, line, DialInv, PulseOK, TimesOK, Pulsing
  <2> QED
    BY <2>4, <2>5, <2>6 DEF DialInv
<1> QED
  BY <1>1, <1>2, <1>3, <1>4, <1>5, <1>6

\* DialerCreate: a string accepted has its last digit found.
LEMMA CreateKeeps ==
  ASSUME DialInv, NEW c \in Countries, NEW s \in Strings, DialerCreate(c, s)
  PROVE  DialInv'
<1> DEFINE g == AnalyseDialString(c, s)
           l == LastDigit(c, s)
<1>1. s \in Seq(STRING) /\ DTMFDialSpeed \in Nat /\ PulseBreak \in Nat /\ PulseMake \in Nat
  BY DialerAssumption
<1>2. /\ g \in 0 .. 3 /\ g # NONE /\ l \in -1 .. MaxString
      /\ g > INVALID => Len(s) <= MaxString /\ LastRight(s, c, l)
  <2>1. /\ g \in 0 .. 3
        /\ g > INVALID => Len(s) <= MaxString /\ (Len(s) = 0 \/ s[1] \in {"T", "P"})
    BY <1>1, AnalyserRight
  <2>2. g # NONE
    BY <2>1 DEF NONE
  <2>3. /\ l \in -1 .. MaxString
        /\ (Len(s) <= MaxString /\ (Len(s) = 0 \/ s[1] \in {"T", "P"})) => LastRight(s, c, l)
    BY <1>1, LastDigitRight
  <2> QED
    BY <2>1, <2>2, <2>3
<1>3. /\ progress_state = 0 /\ running = FALSE /\ code = "NONE" /\ string = << >>
      /\ gap_due = FALSE /\ pulse_started = FALSE /\ pulse_dial = 0
  <2>1. grade = NONE
    BY DEF DialerCreate
  <2>2. /\ progress_state = 0 /\ running = FALSE /\ code = "NONE" /\ string = << >>
        /\ gap_due = FALSE /\ pulse_dial = 0
    BY <2>1 DEF DialInv, WalkOK
  <2>3. ~Pulsing /\ pulse_started \in BOOLEAN
    BY <2>2 DEF DialInv, Typed, Pulsing
  <2> QED
    BY <2>2, <2>3 DEF DialInv, PulseOK
<1>4. /\ live' = TRUE /\ country' = c /\ grade' = g /\ last_digit' = l /\ tone' = c.tone
      /\ string' = (IF g <= INVALID THEN string ELSE s)
      /\ dtmf_duration' \in {LowByteCleared, DTMFDialSpeed}
      /\ pos' = 0 /\ progress_state' = 0 /\ silence' = 0
      /\ pulse_started' = FALSE /\ pulse_active' = FALSE /\ pulse_released' = FALSE
      /\ pulse' = DigitTimes(pulse) /\ digit' = digit /\ hook_on' = hook_on
      /\ breaks' = breaks /\ broken' = broken /\ pulse_dial' = pulse_dial
      /\ running' = running /\ at' = at /\ code' = code /\ gap_due' = gap_due
  BY DEF DialerCreate
<1> HIDE DEF g, l
<1>5. /\ string' \in Strings \cup {<< >>} /\ Len(string') <= MaxString
      /\ LastRight(string', c, l)
  <2>1. CASE g <= INVALID
    <3>1. string' = << >> /\ Len(string') = 0 /\ 0 <= MaxString
      BY <1>3, <1>4, <2>1, DialerAssumption
    <3>2. LastRight(string', c, l)
      BY <3>1 DEF LastRight
    <3> QED
      BY <3>1, <3>2
  <2>2. CASE ~(g <= INVALID)
    <3>1. string' = s /\ g > INVALID
      BY <1>2, <1>4, <2>2 DEF INVALID
    <3> QED
      BY <1>2, <3>1
  <2> QED
    BY <2>1, <2>2
<1>6. Typed'
  <2>1. c.tone \in BOOLEAN /\ 0 \in Nat /\ 0 \in 0 .. MaxString + 1 /\ 0 \in 0 .. 10
    BY DialerAssumption
  <2>2. grade' \in NONE .. VALID
    BY <1>2, <1>4 DEF NONE, VALID
  <2>3. dtmf_duration' \in Nat
    <3>1. DTMFDialSpeed \in Nat /\ LowByteCleared \in Nat
      BY DialerAssumption DEF LowByteCleared
    <3> QED
      BY <1>4, <3>1
  <2>4. /\ running' \in BOOLEAN /\ gap_due' \in BOOLEAN /\ digit' \in Keys
        /\ at' \in 0 .. BlockSamples
    BY <1>4 DEF DialInv, Typed
  <2> QED
    BY <1>2, <1>4, <1>5, <2>1, <2>2, <2>3, <2>4 DEF Typed
<1>7. WalkOK'
  <2>1. grade' # NONE /\ gap_due' = FALSE /\ progress_state' = 0 /\ code' = "NONE"
    BY <1>2, <1>3, <1>4
  <2>2. LastRight(string', country', last_digit')
    BY <1>4, <1>5
  <2> QED
    BY <2>1, <2>2 DEF WalkOK
<1>8. PulseOK' /\ TimesOK'
  <2>1. /\ pulse \in PulseFields /\ pulse.remaining = 0 /\ hook_on = pulse.off_hook
        /\ breaks \in Nat /\ broken \in Nat
    BY <1>3 DEF DialInv, PulseOK, TimesOK
  <2>2. pulse.off_hook = FALSE
    BY <1>3 DEF DialInv, PulseOK, PulseFields
  <2>3. pulse' = [pulse EXCEPT !.make = PulseMake, !.break = PulseBreak]
    BY <1>4 DEF DigitTimes
  <2>4. /\ pulse' \in PulseFields /\ pulse'.remaining = 0 /\ pulse'.off_hook = FALSE
        /\ pulse'.make = PulseMake /\ pulse'.break = PulseBreak
    BY <1>1, <2>1, <2>2, <2>3 DEF PulseFields
  <2>5. PulseOK'
    <3>1. pulse_started' = FALSE /\ pulse_dial' = 0
      BY <1>3, <1>4, Zenon
    <3>2. hook_on' = hook_on /\ hook_on = FALSE
      BY <1>4, <2>1, <2>2, Zenon
    <3>3. hook_on' = pulse'.off_hook
      BY <2>4, <3>2
    <3>4. 0 \in 0 .. 10
      OBVIOUS
    <3> QED
      BY <2>4, <3>1, <3>3, <3>4 DEF PulseOK
  <2>6. TimesOK'
    BY <1>4, <2>1, <2>4 DEF TimesOK
  <2> QED
    BY <2>5, <2>6
<1> QED
  BY <1>6, <1>7, <1>8 DEF DialInv

\* No pulses are under way, and the host knows or will be told.
AtRest ==
  /\ pulse \in PulseFields /\ pulse.remaining = 0 /\ pulse.off_hook = FALSE
  /\ pulse.break = PulseBreak /\ pulse.make = PulseMake /\ hook_on = FALSE
  /\ pulse_dial \in 0 .. 10 /\ broken \in Nat /\ breaks \in Nat
  /\ pulse_active \in BOOLEAN /\ pulse_released \in BOOLEAN
  /\ pulse_dial # 0 => pulse_active = TRUE /\ pulse_released = FALSE

\* So it is before a digit or a flash is loaded.
LEMMA RestsUnloaded ==
  ASSUME DialInv, pulse_started = FALSE, grade # NONE
  PROVE  AtRest
<1>1. /\ pulse \in PulseFields /\ hook_on = pulse.off_hook /\ pulse.remaining = 0
      /\ ~pulse.off_hook /\ pulse_dial \in 0 .. 10
  BY DEF DialInv, PulseOK
<1>2. pulse.off_hook = FALSE
  BY <1>1 DEF PulseFields
<1>3. pulse.break = PulseBreak /\ pulse.make = PulseMake /\ broken \in Nat /\ breaks \in Nat
  BY DEF DialInv, TimesOK
<1>4. /\ pulse_active \in BOOLEAN /\ pulse_released \in BOOLEAN
      /\ pulse_dial # 0 => pulse_active = TRUE /\ pulse_released = FALSE
  BY DEF DialInv, Typed, PulseOK
<1> QED
  BY <1>1, <1>2, <1>3, <1>4 DEF AtRest

\* What a turn of the loop leaves alone.
TurnFrame == live' = live /\ country' = country /\ running' = running /\ code' = code

\* A turn happens once a string has been accepted, and not at its end.
LEMMA TurnState ==
  ASSUME DialInv, running \/ progress_state # 0
  PROVE  /\ grade # NONE
         /\ progress_state \notin {9, 10} => code \notin {"COMMAND", "DONE"}
BY DEF DialInv, WalkOK

\* A turn that ends with begin_next and no pulses under way.
LEMMA WalkKeeps ==
  ASSUME DialInv, running, progress_state \notin {9, 10}, TurnFrame,
         NEW owed \in Nat, begin_next(owed, FALSE), at' \in 0 .. BlockSamples,
         gap_due' \in BOOLEAN, gap_due' => LastRight(string, country, pos), AtRest'
  PROVE  DialInv'
<1>1. Typed /\ LastRight(string, country, last_digit)
  BY DEF DialInv, WalkOK
<1>2. /\ string' = string /\ last_digit' = last_digit /\ grade' = grade
      /\ dtmf_duration' = dtmf_duration
      /\ pos' \in 0 .. MaxString + 1 /\ digit' \in Keys /\ silence' \in Nat
      /\ progress_state' \in 0 .. 10 /\ tone' \in BOOLEAN
  BY <1>1, BeginNext
<1>3. /\ pulse_started' = FALSE
      /\ progress_state' = 1 => tone' \/ digit' \in Digits
  BY <1>1, BeginNext
<1>4. gap_due' => progress_state' # 1 /\ LastRight(string, country, pos')
  BY <1>1, BeginNext
<1>5. grade # NONE /\ code \notin {"COMMAND", "DONE"}
  BY TurnState
<1>6. Typed'
  <2>1. pulse_started' \in BOOLEAN /\ pulse_active' \in BOOLEAN /\ pulse_released' \in BOOLEAN
    BY <1>3 DEF AtRest
  <2>2. /\ live' \in BOOLEAN /\ running' \in BOOLEAN /\ country' \in Countries
        /\ string' \in Strings \cup {<< >>} /\ Len(string') <= MaxString
        /\ last_digit' \in -1 .. MaxString /\ grade' \in NONE .. VALID
        /\ dtmf_duration' \in Nat
    BY <1>1, <1>2 DEF TurnFrame, Typed
  <2> QED
    BY <1>2, <2>1, <2>2 DEF Typed
<1>7. WalkOK'
  <2>1. /\ country' = country /\ grade' # NONE /\ code' \notin {"COMMAND", "DONE"}
    BY <1>2, <1>5 DEF TurnFrame
  <2>2. LastRight(string', country', last_digit')
    BY <1>1, <1>2, <2>1
  <2>3. gap_due' => progress_state' # 1 /\ LastRight(string', country', pos')
    BY <1>2, <1>4, <2>1
  <2> QED
    BY <1>3, <2>1, <2>2, <2>3 DEF WalkOK
<1>8. PulseOK'
  BY <1>3 DEF AtRest, PulseOK
<1>9. TimesOK'
  BY <1>3 DEF AtRest, TimesOK
<1> QED
  BY <1>6, <1>7, <1>8, <1>9 DEF DialInv

\* A turn that ends a digit.
LEMMA FinishKeeps ==
  ASSUME DialInv, running, progress_state = 1, TurnFrame,
         NEW owed \in Nat, digit_finished(owed, FALSE), at' \in 0 .. BlockSamples, AtRest'
  PROVE  DialInv'
<1>1. Typed /\ LastRight(string, country, last_digit)
  BY DEF DialInv, WalkOK
<1>2. CASE pos = last_digit
  <2>1. begin_next(owed, FALSE) /\ gap_due' = TRUE
    BY <1>2 DEF digit_finished
  <2>2. LastRight(string, country, pos)
    BY <1>1, <1>2
  <2>3. progress_state \notin {9, 10}
    OBVIOUS
  <2> QED
    BY <2>1, <2>2, <2>3, WalkKeeps
<1>3. CASE pos # last_digit
  <2>1. /\ silence' = dial_gap /\ progress_state' = 2 /\ gap_due' = TRUE
        /\ pulse_started' = FALSE /\ string' = string /\ last_digit' = last_digit
        /\ grade' = grade /\ tone' = tone /\ dtmf_duration' = dtmf_duration
        /\ pos' = pos /\ digit' = digit
    BY <1>3 DEF digit_finished
  <2>2. dial_gap \in Nat
    <3>1. /\ DTMFDialSpeed \in Nat /\ SamplesPerMs \in Nat /\ PulseBetweenDigits \in Nat
      BY DialerAssumption
    <3>2. DTMFDialSpeed * SamplesPerMs \in Nat /\ PulseGap \in Nat
      BY <3>1, NatProduct DEF PulseGap
    <3>3. PulseGap * SamplesPerMs \in Nat
      BY <3>1, <3>2, NatProduct
    <3>4. dial_gap = DTMFDialSpeed * SamplesPerMs \/ dial_gap = PulseGap * SamplesPerMs
      BY DEF dial_gap
    <3> QED
      BY <3>2, <3>3, <3>4
  <2>3. grade # NONE /\ code \notin {"COMMAND", "DONE"}
    <3>1. progress_state \notin {9, 10}
      OBVIOUS
    <3> QED
      BY <3>1, TurnState
  <2>4. Typed'
    <3>1. pulse_active' \in BOOLEAN /\ pulse_released' \in BOOLEAN /\ 2 \in 0 .. 10
      BY DEF AtRest
    <3>2. silence' \in Nat
      BY <2>1, <2>2
    <3> QED
      BY <1>1, <2>1, <3>1, <3>2 DEF Typed, TurnFrame
  <2>5. WalkOK'
    <3>1. LastRight(string', country', last_digit') /\ grade' # NONE
          /\ code' \notin {"COMMAND", "DONE"} /\ progress_state' = 2
      BY <1>1, <2>1, <2>3 DEF TurnFrame
    <3> QED
      BY <3>1 DEF WalkOK
  <2>6. PulseOK'
    BY <2>1 DEF AtRest, PulseOK
  <2>7. TimesOK'
    BY <2>1 DEF AtRest, TimesOK
  <2> QED
    BY <2>4, <2>5, <2>6, <2>7 DEF DialInv
<1> QED
  BY <1>2, <1>3

\* A turn that only spends the rest of the buffer, or polls once more.
LEMMA WaitKeeps ==
  ASSUME DialInv, running, TurnFrame, at' \in 0 .. BlockSamples, silence' \in Nat,
         UNCHANGED << string, last_digit, grade, tone, dtmf_duration, pos, digit,
                      progress_state, gap_due >>,
         progress_state \notin {9, 10},
         pulse_started' \in BOOLEAN, pulse_active' \in BOOLEAN,
         pulse_released' \in BOOLEAN, PulseOK', TimesOK'
  PROVE  DialInv'
<1>1. grade # NONE /\ code \notin {"COMMAND", "DONE"}
  BY TurnState
<1>2. Typed'
  BY DEF DialInv, Typed, TurnFrame
<1>3. WalkOK'
  <2>1. /\ LastRight(string', country', last_digit') /\ grade' # NONE
        /\ code' \notin {"COMMAND", "DONE"}
        /\ gap_due' => progress_state' = 2 \/ LastRight(string', country', pos')
        /\ progress_state' = 1 => (tone' \/ digit' \in Digits) /\ ~gap_due'
    BY <1>1 DEF DialInv, WalkOK, TurnFrame
  <2> QED
    BY <2>1 DEF WalkOK
<1> QED
  BY <1>2, <1>3 DEF DialInv

\* The first turn of the walk, and the one after a modifier.
LEMMA InitialStateKeeps ==
  ASSUME DialInv, InitialState
  PROVE  DialInv'
<1>1. /\ running /\ progress_state = 0 /\ TurnFrame /\ at' = at /\ gap_due' = gap_due
      /\ begin_next(silence, pulse_started)
      /\ UNCHANGED << pulse_active, pulse_released, line, pulse_dial >>
  BY DEF InitialState, Turn, TurnFrame
<1>2. pulse_started = FALSE
  BY <1>1 DEF DialInv, Typed, PulseOK, Pulsing
<1>3. grade # NONE
  BY <1>1, TurnState
<1>4. AtRest
  BY <1>2, <1>3, RestsUnloaded
<1>5. AtRest'
  BY <1>1, <1>4 DEF AtRest, line
<1>6. /\ silence \in Nat /\ at' \in 0 .. BlockSamples /\ gap_due' \in BOOLEAN
      /\ gap_due' => LastRight(string, country, pos)
  BY <1>1 DEF DialInv, Typed, WalkOK
<1>7. begin_next(silence, FALSE)
  BY <1>1, <1>2
<1>8. progress_state \notin {9, 10}
  BY <1>1
<1> QED
  BY <1>1, <1>5, <1>6, <1>7, <1>8, WalkKeeps

\* Where a stretch of audio leaves the buffer.
LEMMA AudioFits ==
  ASSUME Typed, at < BlockSamples
  PROVE  /\ Overflows(silence) => Owed(silence) \in Nat
         /\ ~Overflows(silence) => at + silence \in 0 .. BlockSamples
         /\ BlockSamples \in 0 .. BlockSamples
<1>1. BlockSamples \in Nat /\ at \in 0 .. BlockSamples /\ silence \in Nat
  BY DialerAssumption DEF Typed
<1> QED
  BY <1>1 DEF Overflows, Owed

\* The gap after a digit, and a pause.
LEMMA GapKeeps ==
  ASSUME DialInv, Gap
  PROVE  DialInv'
<1>1. /\ running /\ at < BlockSamples /\ progress_state \in {2, 4} /\ TurnFrame
      /\ UNCHANGED << pulse_active, pulse_released, line, pulse_dial >>
  BY DEF Gap, Turn, TurnFrame
<1>2. Typed /\ pulse_started = FALSE /\ progress_state \notin {9, 10}
  BY <1>1 DEF DialInv, Typed, PulseOK, Pulsing
<1>3. AtRest
  BY <1>1, <1>2, TurnState, RestsUnloaded
<1>4. AtRest'
  BY <1>1, <1>3 DEF AtRest, line
<1>5. CASE Overflows(silence)
  <2>1. /\ silence' = Owed(silence) /\ at' = BlockSamples
        /\ UNCHANGED << string, last_digit, grade, tone, dtmf_duration, pos, digit,
                        progress_state, pulse_started, gap_due >>
    BY <1>5 DEF Gap
  <2>2. silence' \in Nat /\ at' \in 0 .. BlockSamples
    BY <1>1, <1>2, <1>5, <2>1, AudioFits
  <2>3. /\ pulse_started' \in BOOLEAN /\ pulse_active' \in BOOLEAN
        /\ pulse_released' \in BOOLEAN
    BY <1>1, <1>2, <2>1 DEF Typed
  <2>4. PulseOK' /\ TimesOK'
    BY <1>2, <1>4, <2>1 DEF AtRest, PulseOK, TimesOK
  <2> QED
    BY <1>1, <1>2, <2>1, <2>2, <2>3, <2>4, WaitKeeps
<1>6. CASE ~Overflows(silence)
  <2>1. at' = at + silence /\ gap_due' = FALSE /\ begin_next(0, pulse_started)
    BY <1>6 DEF Gap
  <2>2. at' \in 0 .. BlockSamples /\ 0 \in Nat /\ begin_next(0, FALSE)
    BY <1>1, <1>2, <1>6, <2>1, AudioFits
  <2> QED
    BY <1>1, <1>2, <1>4, <2>1, <2>2, WalkKeeps
<1> QED
  BY <1>5, <1>6

\* A digit sent as tones.
LEMMA ToneDigitKeeps ==
  ASSUME DialInv, ToneDigit
  PROVE  DialInv'
<1>1. /\ running /\ at < BlockSamples /\ progress_state = 1 /\ tone /\ TurnFrame
      /\ UNCHANGED line /\ pulse_active' = (pulse_active /\ pulse_released) /\ Released
  BY DEF ToneDigit, Turn, TurnFrame
<1>2. Typed /\ pulse_started = FALSE /\ progress_state \notin {9, 10}
  BY <1>1 DEF DialInv, Typed, PulseOK, Pulsing
<1>3. AtRest
  BY <1>1, <1>2, TurnState, RestsUnloaded
<1>4. AtRest'
  <2>1. /\ pulse_dial' = 0 /\ pulse_active' \in BOOLEAN /\ pulse_released' \in BOOLEAN
    <3>1. CASE ~pulse_released /\ pulse_active
      BY <1>1, <3>1 DEF Released
    <3>2. CASE ~(~pulse_released /\ pulse_active)
      <4>1. pulse_dial' = pulse_dial /\ pulse_released' = pulse_released
        BY <1>1, <3>2 DEF Released
      <4>2. pulse_dial = 0
        BY <1>3, <3>2 DEF AtRest
      <4> QED
        BY <1>1, <1>3, <4>1, <4>2 DEF AtRest
    <3> QED
      BY <3>1, <3>2
  <2>2. 0 \in 0 .. 10
    OBVIOUS
  <2> QED
    BY <1>1, <1>3, <2>1, <2>2 DEF AtRest, line
<1>5. CASE dtmf_duration = 0 \/ Overflows(silence)
  <2>1. /\ silence' = (IF dtmf_duration = 0 THEN silence ELSE Owed(silence))
        /\ at' = BlockSamples
        /\ UNCHANGED << string, last_digit, grade, tone, dtmf_duration, pos, digit,
                        progress_state, pulse_started, gap_due >>
    BY <1>5 DEF ToneDigit
  <2>2. silence' \in Nat /\ at' \in 0 .. BlockSamples
    BY <1>1, <1>2, <1>5, <2>1, AudioFits DEF Typed
  <2>3. /\ pulse_started' \in BOOLEAN /\ pulse_active' \in BOOLEAN
        /\ pulse_released' \in BOOLEAN
    BY <1>2, <1>4, <2>1 DEF AtRest
  <2>4. PulseOK' /\ TimesOK'
    BY <1>2, <1>4, <2>1 DEF AtRest, PulseOK, TimesOK
  <2> QED
    BY <1>1, <1>2, <2>1, <2>2, <2>3, <2>4, WaitKeeps
<1>6. CASE ~(dtmf_duration = 0 \/ Overflows(silence))
  <2>1. at' = at + silence /\ digit_finished(0, pulse_started)
    BY <1>6 DEF ToneDigit
  <2>2. at' \in 0 .. BlockSamples /\ 0 \in Nat /\ digit_finished(0, FALSE)
    BY <1>1, <1>2, <1>6, <2>1, AudioFits
  <2> QED
    BY <1>1, <1>4, <2>2, FinishKeeps
<1> QED
  BY <1>5, <1>6

\* What a turn with the pulse dialler starts from.
LEMMA PulseStart ==
  ASSUME DialInv
  PROVE  /\ pulse \in PulseFields /\ pulse_started \in BOOLEAN
         /\ pulse_started <=> pulse.remaining # 0
         /\ pulse.off_hook => pulse_started
         /\ hook_on = pulse.off_hook /\ breaks \in Nat /\ broken \in Nat
         /\ pulse_dial \in 0 .. 10
         /\ pulse_started => BreakOK(pulse, broken)
BY DEF DialInv, Typed, PulseOK, TimesOK

\* A digit sent as pulses.
LEMMA PulseDigitKeeps ==
  ASSUME DialInv, PulseDigit
  PROVE  DialInv'
<1> DEFINE n == pulse_count(country, digit)
           e == Advanced(pulse, n)
<1>1. /\ running /\ at < BlockSamples /\ progress_state = 1 /\ ~tone /\ TurnFrame
      /\ pulse' = e /\ LineMoves(pulse, n)
  BY DEF PulseDigit, Turn, TurnFrame
<1>2. Typed /\ digit \in Digits /\ progress_state \notin {9, 10}
  BY <1>1 DEF DialInv, WalkOK
<1>3. n \in 1 .. 10
  BY <1>2, PulsesOfDigit DEF Typed
<1>4. grade # NONE /\ pulse.break = PulseBreak /\ pulse.make = PulseMake
  <2>1. grade # NONE
    BY <1>1, TurnState
  <2> QED
    BY <1>1, <2>1 DEF DialInv, TimesOK
<1>5. CASE Finished(pulse, n)
  <2>1. /\ digit_finished(silence, FALSE) /\ pulse_released' = FALSE
        /\ pulse_active' = TRUE /\ at' = at
    BY <1>5 DEF PulseDigit
  <2> HIDE DEF n
  <2>2. /\ e \in PulseFields /\ e.break = pulse.break /\ e.make = pulse.make
        /\ e.remaining = 0 /\ hook_on' = e.off_hook /\ ~e.off_hook
        /\ pulse_dial' \in 0 .. 10 /\ breaks' \in Nat /\ broken' \in Nat
    BY <1>1, <1>3, <1>5, PulseStart, PulseTurn
  <2>3. e.off_hook = FALSE
    BY <2>2 DEF PulseFields
  <2> HIDE DEF e
  <2>4. AtRest'
    BY <1>1, <1>4, <2>1, <2>2, <2>3 DEF AtRest
  <2>5. silence \in Nat /\ at' \in 0 .. BlockSamples
    BY <1>2, <2>1 DEF Typed
  <2> QED
    BY <1>1, <2>1, <2>4, <2>5, FinishKeeps
<1>6. CASE ~Finished(pulse, n)
  <2>1. /\ at' = BlockSamples /\ pulse_started' = (pulse_started \/ Loads(pulse))
        /\ UNCHANGED << dialer, pulse_active, pulse_released, gap_due >>
    BY <1>6 DEF PulseDigit
  <2> HIDE DEF n
  <2>2. /\ e \in PulseFields /\ e.break = pulse.break /\ e.make = pulse.make
        /\ e.remaining # 0 /\ hook_on' = e.off_hook /\ BreakOK(e, broken')
        /\ pulse_dial' \in 0 .. 10 /\ breaks' \in Nat /\ broken' \in Nat
        /\ pulse_started \/ Loads(pulse)
    BY <1>1, <1>3, <1>6, PulseStart, PulseTurn
  <2> HIDE DEF e
  <2>3. /\ pulse_started' = TRUE /\ progress_state' = 1 /\ tone' = tone /\ grade' = grade
        /\ UNCHANGED << string, last_digit, grade, tone, dtmf_duration, pos, digit,
                        progress_state, gap_due, silence >>
    BY <1>1, <2>1, <2>2 DEF dialer
  <2>4. PulseOK'
    BY <1>1, <2>2, <2>3 DEF PulseOK, Pulsing
  <2>5. TimesOK'
    BY <1>1, <1>4, <2>2, <2>3 DEF TimesOK
  <2>6. /\ silence' \in Nat /\ at' \in 0 .. BlockSamples /\ pulse_started' \in BOOLEAN
        /\ pulse_active' \in BOOLEAN /\ pulse_released' \in BOOLEAN
    BY <1>1, <1>2, <2>1, <2>3, AudioFits DEF Typed
  <2> QED
    BY <1>1, <1>2, <2>3, <2>4, <2>5, <2>6, WaitKeeps
<1> QED
  BY <1>5, <1>6

\* What a turn of a flash starts from: the call object, with the times of the
\* flash set before it is loaded.
LEMMA FlashStart ==
  ASSUME DialInv, progress_state = 3, grade # NONE, NEW p,
         p = IF pulse_started THEN pulse ELSE FlashTimes(pulse)
  PROVE  /\ p \in PulseFields /\ pulse_started \in BOOLEAN
         /\ pulse_started <=> p.remaining # 0
         /\ p.off_hook => pulse_started
         /\ hook_on = p.off_hook /\ breaks \in Nat /\ broken \in Nat
         /\ pulse_dial \in 0 .. 10
         /\ pulse_started => BreakOK(p, broken)
         /\ p.break = HookFlash * 10 /\ p.make = 0
<1>1. HookFlash * 10 \in Nat /\ 0 \in Nat
  BY DialerAssumption
<1>2. CASE pulse_started
  <2>1. p = pulse
    BY <1>2
  <2>2. pulse.break = HookFlash * 10 /\ pulse.make = 0
    BY <1>2 DEF DialInv, TimesOK
  <2> QED
    BY <2>1, <2>2, PulseStart
<1>3. CASE ~pulse_started
  <2>1. p = [pulse EXCEPT !.make = 0, !.break = HookFlash * 10]
    BY <1>3 DEF FlashTimes
  <2>2. /\ pulse \in PulseFields /\ pulse_started \in BOOLEAN
        /\ pulse_started <=> pulse.remaining # 0
        /\ pulse.off_hook => pulse_started
        /\ hook_on = pulse.off_hook /\ breaks \in Nat /\ broken \in Nat
        /\ pulse_dial \in 0 .. 10
    BY PulseStart
  <2>3. /\ p \in PulseFields /\ p.remaining = pulse.remaining
        /\ p.off_hook = pulse.off_hook /\ p.break = HookFlash * 10 /\ p.make = 0
    BY <1>1, <2>1, <2>2 DEF PulseFields
  <2> QED
    BY <1>3, <2>2, <2>3
<1> QED
  BY <1>2, <1>3

\* A hook flash: the times of the call object are the flash's until it is over.
LEMMA FlashKeeps ==
  ASSUME DialInv, Flash
  PROVE  DialInv'
<1> DEFINE p == IF pulse_started THEN pulse ELSE FlashTimes(pulse)
           e == Advanced(p, 1)
<1>1. /\ running /\ at < BlockSamples /\ progress_state = 3 /\ TurnFrame
      /\ LineMoves(p, 1)
      /\ UNCHANGED << string, last_digit, grade, tone, dtmf_duration, pos, digit,
                      gap_due >>
  BY DEF Flash, Turn, TurnFrame
<1>2. /\ Typed /\ progress_state \notin {9, 10} /\ grade # NONE /\ 1 \in 1 .. 10
      /\ code \notin {"COMMAND", "DONE"}
  BY <1>1, TurnState DEF DialInv
<1>3. /\ HookFlash * 10 \in Nat /\ PulseBreak \in Nat /\ PulseMake \in Nat /\ 0 \in Nat
      /\ PulseGap * SamplesPerMs \in Nat
  <2>1. /\ HookFlash \in Nat /\ PulseBreak \in Nat /\ PulseMake \in Nat
        /\ PulseBetweenDigits \in Nat /\ SamplesPerMs \in Nat
    BY DialerAssumption
  <2>2. PulseGap \in Nat
    BY <2>1 DEF PulseGap
  <2> QED
    BY <2>1, <2>2, NatProduct
<1>4. /\ p \in PulseFields /\ pulse_started \in BOOLEAN
      /\ pulse_started <=> p.remaining # 0
      /\ p.off_hook => pulse_started
      /\ hook_on = p.off_hook /\ breaks \in Nat /\ broken \in Nat
      /\ pulse_dial \in 0 .. 10
      /\ pulse_started => BreakOK(p, broken)
      /\ p.break = HookFlash * 10 /\ p.make = 0
  BY <1>1, <1>2, FlashStart
<1>5. CASE Finished(p, 1)
  <2>1. /\ pulse' = DigitTimes(e) /\ pulse_started' = FALSE /\ pulse_released' = FALSE
        /\ pulse_active' = TRUE /\ progress_state' = 2
        /\ silence' = PulseGap * SamplesPerMs /\ at' = at
    BY <1>5 DEF Flash
  <2> HIDE DEF p
  <2>2. /\ e \in PulseFields /\ e.remaining = 0 /\ hook_on' = e.off_hook /\ ~e.off_hook
        /\ pulse_dial' \in 0 .. 10 /\ breaks' \in Nat /\ broken' \in Nat
    BY <1>1, <1>2, <1>4, <1>5, PulseTurn
  <2>3. e.off_hook = FALSE
    BY <2>2 DEF PulseFields
  <2> HIDE DEF e
  <2>4. /\ pulse' \in PulseFields /\ pulse'.remaining = 0 /\ pulse'.off_hook = FALSE
        /\ pulse'.break = PulseBreak /\ pulse'.make = PulseMake
    <3>1. pulse' = [e EXCEPT !.make = PulseMake, !.break = PulseBreak]
      BY <2>1 DEF DigitTimes
    <3> QED
      BY <1>3, <2>2, <2>3, <3>1 DEF PulseFields
  <2>5. hook_on' = FALSE
    BY <2>2, <2>3
  <2>6. PulseOK'
    BY <2>1, <2>2, <2>4, <2>5 DEF PulseOK
  <2>7. TimesOK'
    BY <2>1, <2>2, <2>4 DEF TimesOK
  <2>8. Typed'
    <3>1. silence' \in Nat /\ 2 \in 0 .. 10
      BY <1>3, <2>1
    <3> QED
      BY <1>1, <1>2, <2>1, <3>1 DEF Typed, TurnFrame
  <2>9. WalkOK'
    <3>1. /\ LastRight(string', country', last_digit') /\ grade' # NONE
          /\ code' \notin {"COMMAND", "DONE"}
      BY <1>1, <1>2 DEF DialInv, WalkOK, TurnFrame
    <3> QED
      BY <2>1, <3>1 DEF WalkOK
  <2> QED
    BY <2>6, <2>7, <2>8, <2>9 DEF DialInv
<1>6. CASE ~Finished(p, 1)
  <2>1. /\ pulse' = e /\ at' = BlockSamples /\ pulse_started' = (pulse_started \/ Loads(p))
        /\ UNCHANGED << pulse_active, pulse_released, progress_state, silence >>
    BY <1>6 DEF Flash
  <2> HIDE DEF p
  <2>2. /\ e \in PulseFields /\ e.break = p.break /\ e.make = p.make
        /\ e.remaining # 0 /\ hook_on' = e.off_hook /\ BreakOK(e, broken')
        /\ pulse_dial' \in 0 .. 10 /\ breaks' \in Nat /\ broken' \in Nat
        /\ pulse_started \/ Loads(p)
    BY <1>1, <1>2, <1>4, <1>6, PulseTurn
  <2> HIDE DEF e
  <2>3. pulse_started' = TRUE /\ progress_state' = 3
    BY <1>1, <2>1, <2>2
  <2>4. PulseOK'
    BY <2>1, <2>2, <2>3 DEF PulseOK, Pulsing
  <2>5. TimesOK'
    BY <1>4, <2>1, <2>2, <2>3 DEF TimesOK
  <2>6. /\ silence' \in Nat /\ at' \in 0 .. BlockSamples /\ pulse_started' \in BOOLEAN
        /\ pulse_active' \in BOOLEAN /\ pulse_released' \in BOOLEAN
    BY <1>1, <1>2, <2>1, <2>3, AudioFits DEF Typed
  <2> QED
    BY <1>1, <1>2, <2>1, <2>4, <2>5, <2>6, WaitKeeps
<1> QED
  BY <1>5, <1>6

-----------------------------------------------------------------------------
(***************************************************************************)
(* The theorems.                                                           *)
(***************************************************************************)

\* The dialler starts in the invariant.
LEMMA InitRight ==
  ASSUME Init
  PROVE  DialInv
<1>1. country \in Countries
  BY DialerAssumption DEF Init
<1>2. /\ MaxString \in Nat /\ BlockSamples \in Nat /\ 0 \in Nat /\ Len(<< >>) = 0
      /\ 0 \in 0 .. 10
  BY DialerAssumption
<1>3. pulse \in PulseFields /\ pulse.remaining = 0 /\ pulse.off_hook = FALSE
  BY <1>2 DEF Init, PulseFields
<1>4. Typed
  <2>1. "1" \in Keys
    BY DEF Keys, Digits
  <2>2. -1 \in -1 .. MaxString /\ -1 \in -1 .. 3 /\ 0 \in 0 .. MaxString + 1
        /\ 0 \in 0 .. BlockSamples /\ 0 <= MaxString
    BY <1>2
  <2>3. last_digit \in -1 .. MaxString /\ grade \in NONE .. VALID
    BY <2>2 DEF Init, NONE, VALID
  <2>4. string = << >> /\ Len(string) <= MaxString
    BY <1>2, <2>2 DEF Init
  <2> QED
    BY <1>1, <1>2, <2>1, <2>2, <2>3, <2>4 DEF Init, Typed
<1>5. WalkOK
  BY <1>2 DEF Init, WalkOK, LastRight
<1>6. PulseOK
  BY <1>2, <1>3 DEF Init, PulseOK
<1>7. TimesOK
  BY <1>2 DEF Init, TimesOK
<1> QED
  BY <1>4, <1>5, <1>6, <1>7 DEF DialInv

\* Every step of the dialler keeps the invariant.
LEMMA NextKeeps ==
  ASSUME DialInv, [Next]_vars
  PROVE  DialInv'
<1>1. CASE \E c \in Countries, s \in Strings : DialerCreate(c, s)
  BY <1>1, CreateKeeps
<1>2. CASE DialerAbort \/ UNCHANGED vars
  BY <1>2, CallsKeep
<1>3. CASE Progress
  BY <1>3, CallsKeep, InitialStateKeeps, ToneDigitKeeps, PulseDigitKeeps, GapKeeps,
     FlashKeeps DEF Progress
<1> QED
  BY <1>1, <1>2, <1>3 DEF Next

\* The inductive invariant of the dialler.
THEOREM DialerHolds == Spec => []DialInv
<1>1. Init => DialInv
  BY InitRight
<1>2. DialInv /\ [Next]_vars => DialInv'
  BY NextKeeps
<1> QED
  BY <1>1, <1>2, PTL DEF Spec

(***************************************************************************)
(* The dialler is safe for every string, country and buffer: the analyser  *)
(* and the walk of DialerProgress agree on the last digit, so that no two  *)
(* digits run together, and when the string is over the line is whole and  *)
(* the host has been told so.                                              *)
(***************************************************************************)
THEOREM DialerSafe == Spec => []DialerInv
BY DialerHolds, InvSafe, PTL

\* A break that ends has lasted its time, in a digit and in a flash.
LEMMA BreaksInTime ==
  ASSUME DialInv, [Next]_vars
  PROVE  BreakLength
<1> SUFFICES ASSUME hook_on, ~hook_on'
             PROVE  LET due == IF progress_state = 3 THEN HookFlash * 10 ELSE PulseBreak
                    IN due - Tick <= broken' /\ broken' < due + Tick
  BY DEF BreakLength
<1>1. PulseDigit \/ Flash
  BY DEF Next, Progress, DialerCreate, DialerAbort, DialerProgress, Full, InitialState,
         ToneDigit, Gap, Modifier, Stop, line, vars
<1>2. CASE PulseDigit
  <2> DEFINE n == pulse_count(country, digit)
  <2>1. progress_state = 1 /\ ~tone /\ LineMoves(pulse, n)
    BY <1>2 DEF PulseDigit, Turn
  <2>2. n \in 1 .. 10
    BY <2>1, PulsesOfDigit DEF DialInv, WalkOK, Typed
  <2>3. pulse.break = PulseBreak
    <3>1. grade # NONE
      BY <2>1, TurnState
    <3> QED
      BY <2>1, <3>1 DEF DialInv, TimesOK
  <2> HIDE DEF n
  <2>4. pulse.break - Tick <= broken' /\ broken' < pulse.break + Tick
    BY <2>1, <2>2, PulseStart, PulseTurn
  <2> QED
    BY <2>1, <2>3, <2>4
<1>3. CASE Flash
  <2> DEFINE p == IF pulse_started THEN pulse ELSE FlashTimes(pulse)
  <2>1. progress_state = 3 /\ LineMoves(p, 1) /\ 1 \in 1 .. 10
    BY <1>3 DEF Flash, Turn
  <2>2. grade # NONE
    BY <2>1, TurnState
  <2>3. /\ p \in PulseFields /\ pulse_started \in BOOLEAN
        /\ pulse_started <=> p.remaining # 0
        /\ p.off_hook => pulse_started
        /\ hook_on = p.off_hook /\ breaks \in Nat /\ broken \in Nat
        /\ pulse_dial \in 0 .. 10
        /\ pulse_started => BreakOK(p, broken)
        /\ p.break = HookFlash * 10
    BY <2>1, <2>2, FlashStart
  <2> HIDE DEF p
  <2>4. p.break - Tick <= broken' /\ broken' < p.break + Tick
    BY <2>1, <2>3, PulseTurn
  <2> QED
    BY <2>1, <2>3, <2>4
<1> QED
  BY <1>1, <1>2, <1>3

\* Outside PulseDigit no pulsed digit is loaded, counted or ended.
LEMMA CountRests ==
  ASSUME DialInv, CountOK, [Next]_vars, ~PulseDigit
  PROVE  CountOK' /\ PulseCount
<1>1. CASE DialerAbort \/ DialerProgress \/ Full \/ Stop \/ UNCHANGED vars
  <2>1. UNCHANGED << progress_state, pulse_started, breaks, pulse, country, digit >>
    BY <1>1 DEF DialerAbort, DialerProgress, Full, Stop, vars, dialer, handshake, line
  <2> QED
    BY <2>1 DEF CountOK, PulseCount
<1>2. CASE \E c \in Countries, s \in Strings : DialerCreate(c, s)
  <2>1. grade = NONE /\ pulse_started' = FALSE
    BY <1>2 DEF DialerCreate
  <2>2. progress_state = 0
    BY <2>1 DEF DialInv, WalkOK
  <2> QED
    BY <2>1, <2>2 DEF CountOK, PulseCount
<1>3. CASE Modifier \/ Flash
  <2>1. progress_state # 1 /\ progress_state' # 1
    BY <1>3 DEF Modifier, Flash, Turn
  <2> QED
    BY <2>1 DEF CountOK, PulseCount
<1>4. CASE InitialState \/ Gap \/ ToneDigit
  <2>1. progress_state # 1 \/ tone
    BY <1>4 DEF InitialState, Gap, ToneDigit, Turn
  <2>2. Typed /\ pulse_started = FALSE
    <3>1. progress_state # 3
      BY <1>4 DEF InitialState, Gap, ToneDigit, Turn
    <3> QED
      BY <2>1, <3>1 DEF DialInv, Typed, PulseOK, Pulsing
  <2>3. \/ pulse_started' = pulse_started
        \/ \E owed \in Nat : begin_next(owed, pulse_started)
        \/ \E owed \in Nat : digit_finished(owed, pulse_started)
    <3>1. silence \in Nat /\ 0 \in Nat
      BY <2>2 DEF Typed
    <3> QED
      BY <1>4, <3>1 DEF InitialState, Gap, ToneDigit
  <2>4. pulse_started' = FALSE
    <3>1. \A owed \in Nat : begin_next(owed, FALSE) => pulse_started' = FALSE
      BY <2>2, BeginNext
    <3>2. \A owed \in Nat : digit_finished(owed, FALSE) => pulse_started' = FALSE
      BY <3>1 DEF digit_finished
    <3> QED
      BY <2>2, <2>3, <3>1, <3>2
  <2> QED
    BY <2>1, <2>4 DEF CountOK, PulseCount
<1> QED
  BY <1>1, <1>2, <1>3, <1>4 DEF Next, Progress

\* A turn of a pulsed digit counts its breaks, and ends it at the last.
LEMMA CountTurns ==
  ASSUME DialInv, CountOK, PulseDigit, Tick < PulseBreak
  PROVE  CountOK' /\ PulseCount
<1> DEFINE n == pulse_count(country, digit)
           e == Advanced(pulse, n)
<1>1. /\ progress_state = 1 /\ ~tone /\ pulse' = e /\ LineMoves(pulse, n)
      /\ country' = country /\ running
  BY DEF PulseDigit, Turn
<1>2. Typed /\ digit \in Digits
  BY <1>1 DEF DialInv, WalkOK
<1>3. n \in 1 .. 10 /\ n = Pulses(country.pattern, Value[digit])
  BY <1>2, PulsesOfDigit DEF Typed
<1>4. pulse.break > Tick
  <2>1. grade # NONE
    BY <1>1, TurnState
  <2>2. pulse.break = PulseBreak
    BY <1>1, <2>1 DEF DialInv, TimesOK
  <2> QED
    BY <2>2, DialerAssumption
<1>5. pulse_started => breaks = BreaksOf(pulse, n)
  BY <1>1 DEF CountOK
<1>6. CASE Finished(pulse, n)
  <2>1. digit_finished(silence, FALSE)
    BY <1>6 DEF PulseDigit
  <2> HIDE DEF n
  <2>2. breaks' = n
    BY <1>1, <1>3, <1>4, <1>5, <1>6, PulseStart, PulseTurn
  <2>3. pulse_started' = FALSE
    <3>1. silence \in Nat
      BY <1>2 DEF Typed
    <3>2. begin_next(silence, FALSE) => pulse_started' = FALSE
      BY <1>2, <3>1, BeginNext
    <3> QED
      BY <2>1, <3>2 DEF digit_finished
  <2> QED
    BY <1>3, <2>2, <2>3 DEF CountOK, PulseCount
<1>7. CASE ~Finished(pulse, n)
  <2>1. progress_state' = progress_state /\ digit' = digit
    BY <1>7 DEF PulseDigit, dialer
  <2>2. n = pulse_count(country', digit')
    BY <1>1, <2>1
  <2> HIDE DEF n
  <2>3. breaks' = BreaksOf(e, n)
    BY <1>1, <1>3, <1>4, <1>5, PulseStart, PulseTurn
  <2> HIDE DEF e
  <2>4. breaks' = BreaksOf(pulse', pulse_count(country', digit'))
    BY <1>1, <2>2, <2>3
  <2> QED
    BY <1>1, <2>1, <2>4 DEF CountOK, PulseCount
<1> QED
  BY <1>6, <1>7

(***************************************************************************)
(* What the exchange hears is what the country's dial makes, for every     *)
(* string, country, buffer size and timing: as many breaks as the digit    *)
(* has pulses under the country's pattern, each as long as the country     *)
(* says to within a tick, and a flash's times never left to a digit.  A    *)
(* break has to be longer than a poll's tick: IsPulseDialerReady starts    *)
(* every pulse but the first with a tick already counted, so that with a   *)
(* shorter one only the first pulse would break the line.                  *)
(***************************************************************************)
THEOREM PulsesTrue ==
  ASSUME Tick < PulseBreak
  PROVE  Spec => PulsesRight
<1>1. Init => CountOK
  BY DEF Init, CountOK
<1>2. DialInv /\ CountOK /\ [Next]_vars => CountOK' /\ PulseCount
  BY CountRests, CountTurns
<1>3. DialInv /\ [Next]_vars => BreakLength
  BY BreaksInTime
<1>4. Spec => []CountOK
  BY <1>1, <1>2, DialerHolds, PTL DEF Spec
<1> QED
  BY <1>2, <1>3, <1>4, DialerHolds, PTL DEF Spec, PulsesRight

-----------------------------------------------------------------------------
(***************************************************************************)
(* The script of a dial string.                                            *)
(***************************************************************************)
DialCodes ==
  {"WAIT_DIALTONE", "WAIT_ANSWER", "WAIT_BONG", "CALLING_TONE", "COMMAND", "DONE"}

\* What CallProg takes a script to be: codes of which the last ends the string.
WellFormed(t) ==
  t \in Seq(DialCodes) /\ Len(t) > 0 /\ t[Len(t)] \in {"COMMAND", "DONE"}

\* A script with one more code in front of it.
LEMMA Prefixed ==
  ASSUME NEW x \in DialCodes, NEW t, WellFormed(t)
  PROVE  /\ WellFormed(<< x >> \o t) /\ Len(<< x >> \o t) > 1
         /\ Head(<< x >> \o t) = x /\ Tail(<< x >> \o t) = t
<1> DEFINE u == << x >> \o t
<1>1. t \in Seq(DialCodes) /\ Len(t) \in Nat /\ Len(t) > 0
  BY LenProperties DEF WellFormed
<1>2. << x >> \in Seq(DialCodes) /\ Len(<< x >>) = 1 /\ << x >>[1] = x
  OBVIOUS
<1>3. /\ u \in Seq(DialCodes) /\ Len(u) = 1 + Len(t)
      /\ \A i \in 1 .. 1 + Len(t) : u[i] = IF i <= 1 THEN << x >>[i] ELSE t[i - 1]
  BY <1>1, <1>2, ConcatProperties
<1>4. u[Len(u)] = t[Len(t)]
  BY <1>1, <1>3
<1>5. WellFormed(u) /\ Len(u) > 1
  BY <1>1, <1>3, <1>4 DEF WellFormed
<1>6. u # << >>
  BY <1>1, <1>3
<1>7. Head(u) = x /\ Tail(u) \in Seq(DialCodes) /\ Len(Tail(u)) = Len(u) - 1
      /\ \A i \in 1 .. Len(Tail(u)) : Tail(u)[i] = u[i + 1]
  BY <1>1, <1>2, <1>3, <1>6, HeadTailProperties
<1>8. Tail(u) = t
  <2>1. Len(Tail(u)) = Len(t)
    BY <1>1, <1>3, <1>7
  <2>2. ASSUME NEW i \in 1 .. Len(Tail(u)) PROVE Tail(u)[i] = t[i]
    <3>1. i \in 1 .. Len(t) /\ i + 1 \in 1 .. 1 + Len(t) /\ ~(i + 1 <= 1) /\ (i + 1) - 1 = i
      BY <1>1, <2>1
    <3> QED
      BY <1>3, <1>7, <3>1
  <2> QED
    BY <1>1, <1>7, <2>1, <2>2, SeqEqual
<1> QED
  BY <1>5, <1>7, <1>8

\* The end of the string.
LEMMA Alone ==
  ASSUME NEW x \in {"COMMAND", "DONE"}
  PROVE  WellFormed(<< x >>)
BY DEF WellFormed, DialCodes

\* What each kind of character adds to the script.
LEMMA ReportedCases ==
  ASSUME NEW c, NEW s, NEW i, NEW rest
  PROVE  \/ Reported(c, s, i, rest) \in {<< "DONE" >>, << "COMMAND" >>, rest}
         \/ Reported(c, s, i, rest) \in
              {<< x >> \o rest : x \in {"WAIT_DIALTONE", "WAIT_ANSWER", "WAIT_BONG", "CALLING_TONE"}}
BY Zenon DEF Reported

\* The script goes on being one.
LEMMA ReportedWell ==
  ASSUME NEW c, NEW s, NEW i, NEW rest, WellFormed(rest)
  PROVE  WellFormed(Reported(c, s, i, rest))
<1>1. CASE Reported(c, s, i, rest) \in {<< "DONE" >>, << "COMMAND" >>, rest}
  <2>1. WellFormed(<< "DONE" >>) /\ WellFormed(<< "COMMAND" >>)
    BY Alone
  <2> QED
    BY <1>1, <2>1
<1>2. CASE Reported(c, s, i, rest) \in
             {<< x >> \o rest : x \in {"WAIT_DIALTONE", "WAIT_ANSWER", "WAIT_BONG", "CALLING_TONE"}}
  <2>1. PICK x \in {"WAIT_DIALTONE", "WAIT_ANSWER", "WAIT_BONG", "CALLING_TONE"} :
          Reported(c, s, i, rest) = << x >> \o rest
    BY <1>2
  <2>2. x \in DialCodes
    BY DEF DialCodes
  <2> QED
    BY <2>1, <2>2, Prefixed
<1> QED
  BY <1>1, <1>2, ReportedCases

\* The tables that agree with the script in the last k + 1 positions.
Agrees(c, s, f, k) ==
  /\ f \in [1 .. Len(s) + 1 -> {t \in Seq(DialCodes) : WellFormed(t)}]
  /\ \A i \in Len(s) + 1 - k .. Len(s) + 1 : f[i] = Reported(c, s, i, f[i + 1])

\* The table of one more position.
LEMMA OneMore ==
  ASSUME NEW c, NEW s \in Seq(STRING), NEW k \in 0 .. Len(s) - 1,
         NEW g, Agrees(c, s, g, k)
  PROVE  \E f : Agrees(c, s, f, k + 1)
<1> DEFINE n == Len(s)
           j == n - k
           W == {t \in Seq(DialCodes) : WellFormed(t)}
           r == Reported(c, s, j, g[j + 1])
           h == [g EXCEPT ![j] = r]
<1>1. n \in Nat /\ k \in Nat /\ j \in 1 .. n + 1 /\ j + 1 \in 1 .. n + 1 /\ j # n + 1
      /\ n + 1 - (k + 1) = j /\ n + 1 - k = j + 1
  OBVIOUS
<1>2. g \in [1 .. n + 1 -> W] /\ \A i \in j + 1 .. n + 1 : g[i] = Reported(c, s, i, g[i + 1])
  BY <1>1 DEF Agrees
<1> HIDE DEF n, j
<1>3. r \in W
  <2>1. g[j + 1] \in W
    BY <1>1, <1>2
  <2>2. WellFormed(r)
    BY <2>1, ReportedWell
  <2> QED
    BY <2>2 DEF WellFormed
<1> HIDE DEF r, W
<1>4. h \in [1 .. n + 1 -> W] /\ h[j] = r /\ \A i \in 1 .. n + 1 : i # j => h[i] = g[i]
  BY <1>1, <1>2, <1>3
<1>5. ASSUME NEW i \in j .. n + 1 PROVE h[i] = Reported(c, s, i, h[i + 1])
  <2>1. CASE i = n + 1
    <3>1. i > Len(s) /\ i \in j + 1 .. n + 1 /\ i \in 1 .. n + 1 /\ i # j
      BY <1>1, <2>1 DEF n
    <3>2. h[i] = Reported(c, s, i, g[i + 1])
      BY <1>2, <1>4, <3>1
    <3>3. \A x : Reported(c, s, i, x) = << "DONE" >>
      BY <3>1, Zenon DEF Reported
    <3> QED
      BY <3>2, <3>3
  <2>2. CASE i \in j + 1 .. n
    <3>1. i \in j + 1 .. n + 1 /\ i \in 1 .. n + 1 /\ i # j /\ i + 1 \in 1 .. n + 1 /\ i + 1 # j
      BY <1>1, <2>2
    <3>2. h[i] = g[i] /\ h[i + 1] = g[i + 1] /\ g[i] = Reported(c, s, i, g[i + 1])
      BY <1>2, <1>4, <3>1
    <3> QED
      BY <3>2
  <2>3. CASE i = j
    <3>1. j + 1 # j /\ j + 1 \in 1 .. n + 1
      BY <1>1
    <3>2. h[j + 1] = g[j + 1] /\ h[j] = r
      BY <1>4, <3>1
    <3> QED
      BY <2>3, <3>2 DEF r
  <2>4. i = n + 1 \/ i \in j + 1 .. n \/ i = j
    BY <1>1
  <2> QED
    BY <2>1, <2>2, <2>3, <2>4
<1> HIDE DEF h
<1>6. Agrees(c, s, h, k + 1)
  BY <1>1, <1>4, <1>5 DEF Agrees, n, W
<1> QED
  BY <1>6

\* There is a table of the whole string.
LEMMA ScriptExists ==
  ASSUME NEW c, NEW s \in Seq(STRING)
  PROVE  \E f : Agrees(c, s, f, Len(s))
<1> DEFINE n == Len(s)
           B == {k \in 0 .. n : ~\E f : Agrees(c, s, f, k)}
<1>1. n \in Nat
  OBVIOUS
<1>2. \E f : Agrees(c, s, f, 0)
  <2> DEFINE g == [i \in 1 .. n + 1 |-> << "DONE" >>]
  <2>1. << "DONE" >> \in {t \in Seq(DialCodes) : WellFormed(t)}
    BY Alone DEF WellFormed
  <2>2. n + 1 - 0 = n + 1 /\ n + 1 > n /\ n + 1 \in 1 .. n + 1 /\ n + 1 .. n + 1 = {n + 1}
    BY <1>1
  <2>3. Reported(c, s, n + 1, g[n + 1 + 1]) = << "DONE" >>
    BY <2>2, Zenon DEF Reported
  <2>4. g[n + 1] = << "DONE" >>
    BY <2>2
  <2>5. g \in [1 .. n + 1 -> {t \in Seq(DialCodes) : WellFormed(t)}]
    BY <2>1
  <2> HIDE DEF g
  <2>6. Agrees(c, s, g, 0)
    BY <2>2, <2>3, <2>4, <2>5 DEF Agrees
  <2> QED
    BY <2>6
<1>3. B = {}
  <2> SUFFICES ASSUME B # {} PROVE FALSE
    OBVIOUS
  <2> DEFINE m == Min(B)
  <2>1. B \subseteq Nat
    BY <1>1
  <2>2. m \in B /\ \A y \in B : m <= y
    BY <2>1, LeastNat
  <2> HIDE DEF m
  <2>3. m \in 0 .. n /\ m # 0 /\ ~\E f : Agrees(c, s, f, m)
    BY <1>2, <2>2
  <2>4. m - 1 \in 0 .. n - 1 /\ m - 1 \in 0 .. n /\ ~(m <= m - 1) /\ (m - 1) + 1 = m
    BY <1>1, <2>3
  <2>5. m - 1 \notin B
    BY <2>2, <2>4
  <2>6. PICK g : Agrees(c, s, g, m - 1)
    BY <2>4, <2>5
  <2> HIDE DEF B
  <2>7. \E f : Agrees(c, s, f, (m - 1) + 1)
    BY <2>4, <2>6, OneMore
  <2> QED
    BY <2>3, <2>4, <2>7
<1>4. n \in 0 .. n
  BY <1>1
<1> QED
  BY <1>3, <1>4

\* The script unfolds by the rule of its characters.
LEMMA ScriptRight ==
  ASSUME NEW c, NEW s \in Seq(STRING), NEW i \in 1 .. Len(s) + 1
  PROVE  /\ Script(c, s)[i] = Reported(c, s, i, Script(c, s)[i + 1])
         /\ WellFormed(Script(c, s)[i])
<1> DEFINE n == Len(s)
           P(f) == f = [j \in 1 .. n + 1 |-> Reported(c, s, j, f[j + 1])]
           F == CHOOSE f : P(f)
<1>1. n \in Nat
  OBVIOUS
<1>2. Script(c, s) = F
  BY DEF Script
<1>3. \E f : P(f)
  <2>1. PICK f : Agrees(c, s, f, n)
    BY ScriptExists
  <2>2. n + 1 - n = 1
    BY <1>1
  <2>3. f \in [1 .. n + 1 -> {t \in Seq(DialCodes) : WellFormed(t)}]
        /\ \A j \in 1 .. n + 1 : f[j] = Reported(c, s, j, f[j + 1])
    BY <2>1, <2>2 DEF Agrees
  <2> HIDE DEF n
  <2>4. P(f)
    BY <2>3
  <2> QED
    BY <2>4
<1>4. P(F)
  BY <1>3
<1> HIDE DEF F
<1>5. \A j \in 1 .. n + 1 : F[j] = Reported(c, s, j, F[j + 1])
  BY <1>4
<1> HIDE DEF P
<1> DEFINE B == {k \in 0 .. n : ~WellFormed(F[n + 1 - k])}
<1>6. B = {}
  <2> SUFFICES ASSUME B # {} PROVE FALSE
    OBVIOUS
  <2> DEFINE m == Min(B)
             j == n + 1 - m
  <2>1. B \subseteq Nat
    BY <1>1
  <2>2. m \in B /\ \A y \in B : m <= y
    BY <2>1, LeastNat
  <2> HIDE DEF m
  <2>3. m \in 0 .. n /\ ~WellFormed(F[j])
    BY <2>2
  <2>4. j \in 1 .. n + 1 /\ (m = 0 => j > Len(s))
    BY <1>1, <2>3
  <2>5. CASE m = 0
    <3>1. Reported(c, s, j, F[j + 1]) = << "DONE" >>
      BY <2>4, <2>5, Zenon DEF Reported
    <3> QED
      BY <1>5, <2>3, <2>4, <3>1, Alone
  <2>6. CASE m # 0
    <3>1. m - 1 \in 0 .. n /\ ~(m <= m - 1) /\ n + 1 - (m - 1) = j + 1
      BY <1>1, <2>3, <2>6
    <3>2. WellFormed(F[n + 1 - (m - 1)])
      BY <2>2, <3>1
    <3>3. WellFormed(F[j + 1])
      BY <3>1, <3>2
    <3> HIDE DEF j
    <3> QED
      BY <1>5, <2>3, <2>4, <3>3, ReportedWell
  <2> QED
    BY <2>5, <2>6
<1>7. n + 1 - i \in 0 .. n /\ n + 1 - (n + 1 - i) = i
  BY <1>1
<1>8. WellFormed(F[i])
  BY <1>6, <1>7
<1> QED
  BY <1>2, <1>5, <1>8

\* Characters that report nothing leave the script as it is.
LEMMA QuietRun ==
  ASSUME NEW c, NEW s \in Seq(STRING), NEW i \in 1 .. Len(s) + 1, NEW j \in i .. Len(s) + 1,
         \A k \in i .. j - 1 : \A rest : Reported(c, s, k, rest) = rest
  PROVE  Script(c, s)[i] = Script(c, s)[j]
<1> DEFINE F == Script(c, s)
           B == {k \in 0 .. j - i : F[j - k] # F[j]}
<1>1. Len(s) \in Nat /\ i \in Nat /\ j \in Nat /\ i <= j /\ i > 0 /\ j <= Len(s) + 1
      /\ j - i \in 0 .. j - i /\ j - (j - i) = i /\ j - 0 = j
  OBVIOUS
<1>2. B = {}
  <2> SUFFICES ASSUME B # {} PROVE FALSE
    OBVIOUS
  <2> DEFINE m == Min(B)
             l == j - m
  <2>1. B \subseteq Nat
    BY <1>1
  <2>2. m \in B /\ \A y \in B : m <= y
    BY <2>1, LeastNat
  <2> HIDE DEF m
  <2>3. m \in 0 .. j - i /\ F[l] # F[j]
    BY <2>2
  <2>4. m # 0
    BY <1>1, <2>3
  <2>5. /\ m - 1 \in 0 .. j - i /\ ~(m <= m - 1) /\ j - (m - 1) = l + 1
        /\ l \in i .. j - 1 /\ l \in 1 .. Len(s) + 1
    BY <1>1, <2>3, <2>4
  <2>6. F[j - (m - 1)] = F[j]
    BY <2>2, <2>5
  <2> HIDE DEF l
  <2>7. F[l] = Reported(c, s, l, F[l + 1])
    BY <2>5, ScriptRight
  <2>8. Reported(c, s, l, F[l + 1]) = F[l + 1]
    BY <2>5
  <2> QED
    BY <2>3, <2>5, <2>6, <2>7, <2>8
<1>3. F[j - (j - i)] = F[j]
  <2>1. j - i \notin B
    BY <1>2
  <2> HIDE DEF F
  <2> QED
    BY <1>1, <2>1
<1> QED
  BY <1>1, <1>3

\* A character the walk passes over or dials adds nothing.
LEMMA QuietStates ==
  ASSUME NEW c, NEW s \in Seq(STRING), NEW i \in 1 .. Len(s), NEW rest,
         StateFor(c, s, i) \in {0, 1, 3, 4} \/ s[i] \in {"T", "P"}
  PROVE  Reported(c, s, i, rest) = rest
<1>1. ~(i > Len(s))
  OBVIOUS
<1>2. /\ ~(s[i] = ";" /\ i = Len(s)) /\ s[i] # "W" /\ s[i] # "@" /\ s[i] # "$"
      /\ ~(s[i] = "^" /\ c.calling \in {1, 3})
  <2>1. CASE s[i] \in {"T", "P"}
    BY <2>1, Zenon
  <2>2. CASE StateFor(c, s, i) \in {0, 1, 3, 4}
    <3>1. 5 \notin {0, 1, 3, 4} /\ 6 \notin {0, 1, 3, 4} /\ 7 \notin {0, 1, 3, 4}
          /\ 8 \notin {0, 1, 3, 4} /\ 9 \notin {0, 1, 3, 4}
      OBVIOUS
    <3>2. ASSUME s[i] = ";", i = Len(s) PROVE StateFor(c, s, i) = 9
      BY <3>2, ZenonT(30) DEF StateFor, Digits, ABCD
    <3>3. ASSUME s[i] = "W" PROVE StateFor(c, s, i) = 5
      BY <3>3, ZenonT(30) DEF StateFor, Digits, ABCD
    <3>4. ASSUME s[i] = "@" PROVE StateFor(c, s, i) = 6
      BY <3>4, ZenonT(30) DEF StateFor, Digits, ABCD
    <3>5. ASSUME s[i] = "$" PROVE StateFor(c, s, i) = 7
      BY <3>5, ZenonT(30) DEF StateFor, Digits, ABCD
    <3>6. ASSUME s[i] = "^", c.calling \in {1, 3} PROVE StateFor(c, s, i) = 8
      BY <3>6, ZenonT(30) DEF StateFor, Digits, ABCD
    <3> QED
      BY <2>2, <3>1, <3>2, <3>3, <3>4, <3>5, <3>6, Zenon
  <2> QED
    BY <2>1, <2>2
<1> QED
  BY <1>1, <1>2, Zenon DEF Reported

\* A modifier adds its code, and `;' ends the script.
LEMMA LoudStates ==
  ASSUME NEW c, NEW s \in Seq(STRING), NEW i \in 1 .. Len(s), NEW rest
  PROVE  /\ StateFor(c, s, i) \in 5 .. 8 =>
              /\ Reported(c, s, i, rest) = << CodeFor(StateFor(c, s, i)) >> \o rest
              /\ CodeFor(StateFor(c, s, i)) \in DialCodes
         /\ StateFor(c, s, i) = 9 => Reported(c, s, i, rest) = << CodeFor(9) >> /\ i = Len(s)
<1>1. ~(i > Len(s))
  OBVIOUS
<1>2. /\ CodeFor(5) = "WAIT_DIALTONE" /\ CodeFor(6) = "WAIT_ANSWER" /\ CodeFor(7) = "WAIT_BONG"
      /\ CodeFor(8) = "CALLING_TONE" /\ CodeFor(9) = "COMMAND"
  BY DEF CodeFor
<1>3. ASSUME StateFor(c, s, i) = 5 PROVE Reported(c, s, i, rest) = << CodeFor(5) >> \o rest
  <2>1. 0 # 5 /\ 1 # 5 /\ 3 # 5 /\ 4 # 5 /\ 6 # 5 /\ 7 # 5 /\ 8 # 5 /\ 9 # 5
    OBVIOUS
  <2>2. s[i] = "W"
    BY <1>3, <2>1, ZenonT(30) DEF StateFor
  <2> QED
    BY <1>1, <1>2, <2>2, Zenon DEF Reported
<1>4. ASSUME StateFor(c, s, i) = 6 PROVE Reported(c, s, i, rest) = << CodeFor(6) >> \o rest
  <2>1. 0 # 6 /\ 1 # 6 /\ 3 # 6 /\ 4 # 6 /\ 5 # 6 /\ 7 # 6 /\ 8 # 6 /\ 9 # 6
    OBVIOUS
  <2>2. s[i] = "@"
    BY <1>4, <2>1, ZenonT(30) DEF StateFor
  <2> QED
    BY <1>1, <1>2, <2>2, Zenon DEF Reported
<1>5. ASSUME StateFor(c, s, i) = 7 PROVE Reported(c, s, i, rest) = << CodeFor(7) >> \o rest
  <2>1. 0 # 7 /\ 1 # 7 /\ 3 # 7 /\ 4 # 7 /\ 5 # 7 /\ 6 # 7 /\ 8 # 7 /\ 9 # 7
    OBVIOUS
  <2>2. s[i] = "$"
    BY <1>5, <2>1, ZenonT(30) DEF StateFor
  <2> QED
    BY <1>1, <1>2, <2>2, Zenon DEF Reported
<1>6. ASSUME StateFor(c, s, i) = 8 PROVE Reported(c, s, i, rest) = << CodeFor(8) >> \o rest
  <2>1. 0 # 8 /\ 1 # 8 /\ 3 # 8 /\ 4 # 8 /\ 5 # 8 /\ 6 # 8 /\ 7 # 8 /\ 9 # 8
    OBVIOUS
  <2>2. s[i] = "^" /\ c.calling \in {1, 3}
    BY <1>6, <2>1, ZenonT(30) DEF StateFor
  <2> QED
    BY <1>1, <1>2, <2>2, Zenon DEF Reported
<1>7. ASSUME StateFor(c, s, i) = 9
      PROVE  Reported(c, s, i, rest) = << CodeFor(9) >> /\ i = Len(s)
  <2>1. 0 # 9 /\ 1 # 9 /\ 3 # 9 /\ 4 # 9 /\ 5 # 9 /\ 6 # 9 /\ 7 # 9 /\ 8 # 9
    OBVIOUS
  <2>2. s[i] = ";" /\ i = Len(s)
    BY <1>7, <2>1, ZenonT(30) DEF StateFor
  <2> QED
    BY <1>1, <1>2, <2>2, Zenon DEF Reported
<1>8. 5 .. 8 = {5, 6, 7, 8}
  OBVIOUS
<1>9. {CodeFor(5), CodeFor(6), CodeFor(7), CodeFor(8)} \subseteq DialCodes
  BY <1>2, Zenon DEF DialCodes
<1> QED
  BY <1>3, <1>4, <1>5, <1>6, <1>7, <1>8, <1>9, Zenon

-----------------------------------------------------------------------------
(***************************************************************************)
(* The dialler follows the script.                                         *)
(***************************************************************************)

\* Where the walk stands: on the modifier it will report, on the NUL at the
\* end, or past something that reports nothing.
ScriptInv ==
  /\ running => Dialling
  /\ grade > INVALID => Len(string) = 0 \/ string[1] \in {"T", "P"}
  /\ progress_state \in 5 .. 9 =>
       pos \in 1 .. Len(string) /\ StateFor(country, string, pos) = progress_state
  /\ progress_state = 10 => pos = Len(string) + 1
  /\ progress_state \in 0 .. 4 => pos \in 0 .. Len(string)

\* The string of the walk.
LEMMA StringTyped ==
  ASSUME Typed
  PROVE  string \in Seq(STRING) /\ Len(string) \in Nat
<1>1. string \in Strings \cup {<< >>} /\ Strings \subseteq Seq(STRING)
  BY DialerAssumption DEF Typed
<1>2. << >> \in Seq(STRING)
  OBVIOUS
<1>3. string \in Seq(STRING)
  BY <1>1, <1>2
<1> QED
  BY <1>3

\* Between two positions of the walk nothing is reported.
LEMMA SkipsQuietly ==
  ASSUME NEW c, NEW s \in Seq(STRING), NEW i \in 0 .. Len(s),
         Len(s) = 0 \/ s[1] \in {"T", "P"}
  PROVE  LET j == NextPos(c, s, i)
         IN /\ j \in i + 1 .. Len(s) + 1 /\ j \in 1 .. Len(s) + 1
            /\ Script(c, s)[i + 1] = Script(c, s)[j]
<1> DEFINE D == {k \in i + 1 .. Len(s) : k > 1 /\ StateFor(c, s, k) # 0}
           S == {Len(s) + 1} \cup D
           j == NextPos(c, s, i)
<1>1. Len(s) \in Nat /\ i \in Nat /\ i <= Len(s)
  OBVIOUS
<1>2. S \subseteq Nat /\ S # {} /\ S \subseteq i + 1 .. Len(s) + 1
  BY <1>1
<1>3. j = Min(S)
  BY DEF NextPos
<1>4. j \in S /\ \A y \in S : j <= y
  BY <1>2, <1>3, LeastNat
<1> HIDE DEF j
<1>5. j \in i + 1 .. Len(s) + 1 /\ j \in 1 .. Len(s) + 1 /\ i + 1 \in 1 .. Len(s) + 1
      /\ j \in Nat
  BY <1>1, <1>2, <1>4
<1>6. ASSUME NEW k \in i + 1 .. j - 1, NEW rest PROVE Reported(c, s, k, rest) = rest
  <2>1. k \in 1 .. Len(s) /\ k \in i + 1 .. Len(s) /\ ~(j <= k) /\ (k = 1 \/ k > 1) /\ Len(s) # 0
    BY <1>1, <1>5
  <2>2. k \notin D
    BY <1>4, <2>1
  <2>3. StateFor(c, s, k) = 0 \/ k = 1
    BY <2>1, <2>2
  <2>4. StateFor(c, s, k) \in {0, 1, 3, 4} \/ s[k] \in {"T", "P"}
    BY <2>1, <2>3
  <2> QED
    BY <2>1, <2>4, QuietStates
<1>7. Script(c, s)[i + 1] = Script(c, s)[j]
  BY <1>5, <1>6, QuietRun
<1> QED
  BY <1>5, <1>7 DEF j

\* begin_next takes nothing from the script.
LEMMA BeginKeepsScript ==
  ASSUME Typed, ScriptInv, Dialling, progress_state \in 0 .. 4,
         NEW owed, NEW started, begin_next(owed, started),
         UNCHANGED << live, country, code, running >>
  PROVE  ScriptInv' /\ Dialling' /\ ToReport' = ToReport
<1> DEFINE j == NextPos(country, string, pos)
           F == Script(country, string)
<1>1. string \in Seq(STRING) /\ Len(string) \in Nat
  BY StringTyped
<1>2. pos \in 0 .. Len(string) /\ (Len(string) = 0 \/ string[1] \in {"T", "P"})
  BY DEF ScriptInv, Dialling
<1>3. j \in pos + 1 .. Len(string) + 1 /\ j \in 1 .. Len(string) + 1 /\ F[pos + 1] = F[j]
  BY <1>1, <1>2, SkipsQuietly
<1>4. /\ pos' = j /\ string' = string /\ grade' = grade /\ country' = country
      /\ progress_state' = IF j > Len(string) THEN 10 ELSE StateFor(country, string, j)
      /\ live' = live /\ running' = running
  BY DEF begin_next
<1> HIDE DEF j, F
<1>5. Dialling' /\ Script(country', string') = F
  BY <1>4 DEF Dialling, F
<1>6. CASE j > Len(string)
  <2>1. progress_state' = 10 /\ j = Len(string) + 1 /\ progress_state' \in 5 .. 10
        /\ progress_state' \notin 5 .. 9 /\ progress_state' \notin 0 .. 4
    BY <1>1, <1>3, <1>4, <1>6
  <2>2. ScriptInv'
    BY <1>2, <1>4, <1>5, <2>1 DEF ScriptInv
  <2>3. ToReport' = F[j]
    BY <1>4, <1>5, <2>1 DEF ToReport
  <2> QED
    BY <1>3, <1>5, <2>2, <2>3 DEF ToReport, F
<1>7. CASE ~(j > Len(string))
  <2>1. progress_state' = StateFor(country, string, j) /\ j \in 1 .. Len(string)
        /\ progress_state' # 10
    <3>1. progress_state' = StateFor(country, string, j) /\ j \in 1 .. Len(string)
      BY <1>1, <1>3, <1>4, <1>7
    <3> QED
      BY <3>1, StateForRange
  <2>2. ScriptInv'
    BY <1>1, <1>2, <1>4, <1>5, <2>1 DEF ScriptInv
  <2>3. CASE StateFor(country, string, j) \in 5 .. 9
    <3>1. ToReport' = F[j]
      BY <1>4, <1>5, <2>1, <2>3 DEF ToReport
    <3> QED
      BY <1>3, <1>5, <2>2, <3>1 DEF ToReport, F
  <2>4. CASE StateFor(country, string, j) \in {0, 1, 3, 4}
    <3>1. ToReport' = F[j + 1]
      BY <1>4, <1>5, <2>1, <2>4 DEF ToReport
    <3>2. F[j] = Reported(country, string, j, F[j + 1])
      BY <1>1, <1>3, ScriptRight DEF F
    <3>3. Reported(country, string, j, F[j + 1]) = F[j + 1]
      BY <1>1, <2>1, <2>4, QuietStates
    <3> QED
      BY <1>3, <1>5, <2>2, <3>1, <3>2, <3>3 DEF ToReport, F
  <2> QED
    BY <2>3, <2>4, StateForRange
<1> QED
  BY <1>6, <1>7

\* A turn that stays where it is takes nothing from the script either.
LEMMA StayKeepsScript ==
  ASSUME ScriptInv, UNCHANGED << live, country, string, grade, pos, code >>,
         progress_state' = progress_state
           \/ (progress_state \in 0 .. 4 /\ progress_state' \in 0 .. 4),
         running' => Dialling
  PROVE  ScriptInv' /\ UNCHANGED Dial!vars
<1>1. Dialling' = Dialling
  BY DEF Dialling
<1>2. (progress_state' \in 5 .. 10 <=> progress_state \in 5 .. 10)
      /\ (progress_state' \in 5 .. 9 <=> progress_state \in 5 .. 9)
      /\ (progress_state' \in 0 .. 4 <=> progress_state \in 0 .. 4)
      /\ (progress_state' = 10 <=> progress_state = 10)
  OBVIOUS
<1>3. ToReport' = ToReport
  BY <1>1, <1>2 DEF ToReport
<1>4. ScriptInv'
  BY <1>1, <1>2 DEF ScriptInv
<1> QED
  BY <1>1, <1>3, <1>4 DEF Dial!vars

\* The modifiers: each takes its code from the head of the script.
LEMMA ModifierReports ==
  ASSUME Typed, ScriptInv, Modifier
  PROVE  ScriptInv' /\ Dial!Report
<1> DEFINE F == Script(country, string)
<1>1. string \in Seq(STRING) /\ Len(string) \in Nat
  BY StringTyped
<1>2. /\ running /\ progress_state \in 5 .. 8 /\ progress_state' = 0
      /\ running' = FALSE /\ code' = CodeFor(progress_state)
      /\ UNCHANGED << live, country, string, grade, pos >>
  BY DEF Modifier, Turn, Return
<1>3. Dialling /\ Dialling' /\ progress_state \in 5 .. 9 /\ progress_state \in 5 .. 10
      /\ 0 \notin 5 .. 10 /\ 0 \notin 5 .. 9 /\ 0 # 10
  BY <1>2 DEF ScriptInv, Dialling
<1>4. pos \in 1 .. Len(string) /\ StateFor(country, string, pos) = progress_state
      /\ pos \in 1 .. Len(string) + 1 /\ pos + 1 \in 1 .. Len(string) + 1 /\ pos \in 0 .. Len(string)
  <2>1. pos \in 1 .. Len(string) /\ StateFor(country, string, pos) = progress_state
    BY <1>3 DEF ScriptInv
  <2> QED
    BY <1>1, <2>1
<1>5. ToReport = F[pos] /\ ToReport' = F[pos + 1]
  BY <1>2, <1>3 DEF ToReport
<1>6. F[pos] = Reported(country, string, pos, F[pos + 1]) /\ WellFormed(F[pos + 1])
  BY <1>1, <1>4, ScriptRight
<1> HIDE DEF F
<1>7. /\ Reported(country, string, pos, F[pos + 1]) = << CodeFor(progress_state) >> \o F[pos + 1]
      /\ CodeFor(progress_state) \in DialCodes
  BY <1>1, <1>2, <1>4, LoudStates
<1>8. /\ Head(ToReport) = CodeFor(progress_state) /\ Tail(ToReport) = F[pos + 1]
      /\ Len(ToReport) > 1
  BY <1>5, <1>6, <1>7, Prefixed
<1>9. ScriptInv'
  <2>1. (grade > INVALID => Len(string) = 0 \/ string[1] \in {"T", "P"})'
    BY <1>2 DEF ScriptInv
  <2> QED
    BY <1>2, <1>3, <1>4, <2>1 DEF ScriptInv
<1>10. Dial!Report
  BY <1>2, <1>3, <1>5, <1>8 DEF Dial!Report
<1> QED
  BY <1>9, <1>10

\* The end of the string, reported once more.
LEMMA StopReports ==
  ASSUME Typed, ScriptInv, Stop
  PROVE  ScriptInv' /\ Dial!Report
<1> DEFINE F == Script(country, string)
<1>1. string \in Seq(STRING) /\ Len(string) \in Nat
  BY StringTyped
<1>2. /\ running /\ progress_state \in {9, 10} /\ progress_state' = progress_state
      /\ running' = FALSE /\ code' = CodeFor(progress_state)
      /\ UNCHANGED << live, country, string, grade, pos >>
  BY DEF Stop, Turn, Return, dialer
<1>3. Dialling /\ Dialling' /\ progress_state \in 5 .. 10
  BY <1>2 DEF ScriptInv, Dialling
<1>4. ToReport = F[pos] /\ ToReport' = F[pos]
  BY <1>2, <1>3 DEF ToReport
<1>5. F[pos] = << CodeFor(progress_state) >>
  <2>1. CASE progress_state = 9
    <3>1. pos \in 1 .. Len(string) /\ StateFor(country, string, pos) = 9
      BY <2>1 DEF ScriptInv
    <3>2. pos \in 1 .. Len(string) + 1
      BY <1>1, <3>1
    <3>3. F[pos] = Reported(country, string, pos, F[pos + 1])
      BY <1>1, <3>2, ScriptRight
    <3> QED
      BY <1>1, <2>1, <3>1, <3>3, LoudStates
  <2>2. CASE progress_state = 10
    <3>1. pos = Len(string) + 1 /\ pos > Len(string) /\ pos \in 1 .. Len(string) + 1
      BY <1>1, <2>2 DEF ScriptInv
    <3>2. F[pos] = Reported(country, string, pos, F[pos + 1])
      BY <1>1, <3>1, ScriptRight
    <3>3. Reported(country, string, pos, F[pos + 1]) = << "DONE" >>
      BY <3>1, Zenon DEF Reported
    <3>4. CodeFor(10) = "DONE"
      BY DEF CodeFor
    <3> QED
      BY <2>2, <3>2, <3>3, <3>4
  <2> QED
    BY <1>2, <2>1, <2>2
<1> HIDE DEF F
<1>6. Head(ToReport) = CodeFor(progress_state) /\ ~(Len(ToReport) > 1)
  <2> DEFINE x == CodeFor(progress_state)
  <2>1. Head(<< x >>) = x /\ Len(<< x >>) = 1 /\ ~(1 > 1)
    OBVIOUS
  <2> QED
    BY <1>4, <1>5, <2>1
<1>7. ScriptInv'
  BY <1>2, <1>3 DEF ScriptInv
<1>8. Dial!Report
  BY <1>2, <1>3, <1>4, <1>6 DEF Dial!Report
<1> QED
  BY <1>7, <1>8

\* A string is prepared, or refused.
LEMMA CreateBegins ==
  ASSUME DialInv, ScriptInv, NEW c \in Countries, NEW s \in Strings, DialerCreate(c, s)
  PROVE  ScriptInv' /\ [Dial!Create]_(Dial!vars)
<1>1. /\ grade = NONE /\ live' = TRUE /\ country' = c /\ grade' = AnalyseDialString(c, s)
      /\ string' = IF grade' <= INVALID THEN string ELSE s
      /\ pos' = 0 /\ progress_state' = 0 /\ UNCHANGED << running, code >>
  BY DEF DialerCreate
<1>2. running = FALSE /\ code = "NONE" /\ string = << >>
  BY <1>1 DEF DialInv, WalkOK
<1>3. s \in Seq(STRING) /\ Len(s) \in Nat
  <2>1. s \in Seq(STRING)
    BY DialerAssumption
  <2> QED
    BY <2>1
<1>4. ~Dialling /\ ToReport = << >>
  BY <1>1 DEF Dialling, NONE, INVALID, ToReport
<1>5. grade' \in 0 .. 3
      /\ (grade' > INVALID => Len(s) <= MaxString /\ (Len(s) = 0 \/ s[1] \in {"T", "P"}))
  BY <1>1, <1>3, AnalyserRight
<1>6. (grade' > INVALID <=> ~(grade' <= INVALID)) /\ 0 \notin 5 .. 10 /\ 0 \notin 5 .. 9
      /\ 0 # 10 /\ 0 \in 0 .. Len(s) /\ 0 \in 0 .. Len(<< >>) /\ 0 + 1 = 1
  BY <1>3, <1>5 DEF INVALID
<1>7. CASE grade' > INVALID
  <2>1. string' = s /\ Dialling'
    BY <1>1, <1>6, <1>7 DEF Dialling
  <2>2. ToReport' = Script(c, s)[1]
    BY <1>1, <1>6, <2>1 DEF ToReport
  <2>3. ToReport' \in AllScripts
    BY <2>2 DEF AllScripts
  <2>4. Dial!Create
    BY <1>1, <1>2, <1>4, <2>1, <2>3 DEF Dial!Create
  <2>5. ScriptInv'
    BY <1>1, <1>2, <1>5, <1>6, <1>7, <2>1 DEF ScriptInv
  <2> QED
    BY <2>4, <2>5
<1>8. CASE ~(grade' > INVALID)
  <2>1. string' = << >> /\ ~Dialling' /\ ToReport' = << >> /\ Dialling' = Dialling
    BY <1>1, <1>2, <1>4, <1>6, <1>8 DEF Dialling, ToReport
  <2>2. UNCHANGED Dial!vars
    BY <1>1, <1>4, <2>1 DEF Dial!vars
  <2>3. ScriptInv'
    BY <1>1, <1>2, <1>6, <1>8, <2>1 DEF ScriptInv
  <2> QED
    BY <2>2, <2>3
<1> QED
  BY <1>7, <1>8

\* A turn that dials.
LEMMA DialsQuietly ==
  ASSUME Typed, ScriptInv, InitialState \/ ToneDigit \/ PulseDigit \/ Gap \/ Flash
  PROVE  ScriptInv' /\ UNCHANGED Dial!vars
<1>1. /\ running /\ progress_state \in 0 .. 4
      /\ UNCHANGED << live, country, code, running >>
  <2>1. UNCHANGED << live, country, code, running >>
    BY DEF InitialState, ToneDigit, PulseDigit, Gap, Flash
  <2>2. Turn(0) \/ Turn(1) \/ Turn(2) \/ Turn(3) \/ Turn(4)
    BY DEF InitialState, ToneDigit, PulseDigit, Gap, Flash
  <2> QED
    BY <2>1, <2>2 DEF Turn
<1>2. Dialling
  BY <1>1 DEF ScriptInv
<1>3. \/ \E owed, started : begin_next(owed, started)
      \/ /\ UNCHANGED << string, grade, pos >>
         /\ progress_state' = progress_state \/ progress_state' = 2
  BY DEF InitialState, ToneDigit, PulseDigit, Gap, Flash, digit_finished, dialer
<1>4. CASE \E owed, started : begin_next(owed, started)
  BY <1>1, <1>2, <1>4, BeginKeepsScript DEF Dial!vars
<1>5. CASE /\ UNCHANGED << string, grade, pos >>
           /\ progress_state' = progress_state \/ progress_state' = 2
  <2>1. 2 \in 0 .. 4
    OBVIOUS
  <2> QED
    BY <1>1, <1>2, <1>5, <2>1, StayKeepsScript
<1> QED
  BY <1>3, <1>4, <1>5

\* Every step of the dialler is one of the script's, or none.
LEMMA ScriptStep ==
  ASSUME DialInv, ScriptInv, [Next]_vars
  PROVE  ScriptInv' /\ [Dial!Next]_(Dial!vars)
<1>1. Typed
  BY DEF DialInv
<1>2. CASE \E c \in Countries, s \in Strings : DialerCreate(c, s)
  BY <1>2, CreateBegins DEF Dial!Next
<1>3. CASE DialerAbort
  <2>1. /\ live /\ ~running /\ live' = FALSE /\ running' = running /\ code' = code
        /\ UNCHANGED << country, string, grade, pos, progress_state >>
    BY <1>3 DEF DialerAbort, dialer
  <2>2. ~Dialling' /\ ToReport' = << >>
    BY <2>1 DEF Dialling, ToReport
  <2>3. ScriptInv'
    BY <2>1 DEF ScriptInv
  <2>4. CASE Dialling
    BY <2>1, <2>2, <2>3, <2>4 DEF Dial!Next, Dial!Abort
  <2>5. CASE ~Dialling
    <3>1. ToReport = << >> /\ Dialling' = Dialling
      BY <2>2, <2>5 DEF ToReport, Dialling
    <3> QED
      BY <2>1, <2>2, <2>3, <3>1 DEF Dial!vars
  <2> QED
    BY <2>4, <2>5
<1>4. CASE DialerProgress \/ UNCHANGED vars
  <2>1. /\ UNCHANGED << live, country, string, grade, pos, code, progress_state >>
        /\ running' => Dialling
    BY <1>4 DEF DialerProgress, vars, dialer, Dialling, ScriptInv
  <2> QED
    BY <2>1, StayKeepsScript
<1>5. CASE Full
  <2>1. /\ running /\ ~running' /\ code' = "BUSY"
        /\ UNCHANGED << live, country, string, grade, pos, progress_state >>
    BY <1>5 DEF Full, Return, dialer
  <2>2. Dialling
    BY <2>1 DEF ScriptInv
  <2>3. Dialling' = Dialling /\ ToReport' = ToReport
    BY <2>1 DEF Dialling, ToReport
  <2>4. ScriptInv'
    BY <2>1 DEF ScriptInv
  <2> QED
    BY <2>1, <2>2, <2>3, <2>4 DEF Dial!Next, Dial!Busy
<1>6. CASE InitialState \/ ToneDigit \/ PulseDigit \/ Gap \/ Flash
  BY <1>1, <1>6, DialsQuietly
<1>7. CASE Modifier
  BY <1>1, <1>7, ModifierReports DEF Dial!Next
<1>8. CASE Stop
  BY <1>1, <1>8, StopReports DEF Dial!Next
<1> QED
  BY <1>2, <1>3, <1>4, <1>5, <1>6, <1>7, <1>8 DEF Next, Progress

(***************************************************************************)
(* DialerProgress is the script that CALLPROG_Progress takes it for, for   *)
(* every string, country, buffer size and timing: each modifier of the     *)
(* string is reported once, in its order, whatever is dialled, paused or   *)
(* flashed in between and wherever the buffers end, and the end of the     *)
(* string for ever after.                                                  *)
(***************************************************************************)
THEOREM ScriptKept == Spec => ScriptFollowed
<1>1. Init => ScriptInv /\ Dial!Init
  <2> SUFFICES ASSUME Init PROVE ScriptInv /\ Dial!Init
    OBVIOUS
  <2>1. live = FALSE /\ running = FALSE /\ code = "NONE" /\ pos = 0 /\ progress_state = 0
        /\ grade = -1 /\ string = << >>
    BY DEF Init, NONE
  <2>2. ~Dialling /\ ToReport = << >>
    BY <2>1 DEF Dialling, ToReport
  <2>3. Len(<< >>) = 0 /\ ~(-1 > INVALID) /\ 0 \notin 5 .. 9 /\ 0 # 10 /\ 0 \in 0 .. 0
    BY DEF INVALID
  <2> QED
    BY <2>1, <2>2, <2>3 DEF ScriptInv, Dial!Init
<1>2. DialInv /\ ScriptInv /\ [Next]_vars => ScriptInv' /\ [Dial!Next]_(Dial!vars)
  BY ScriptStep
<1> QED
  BY <1>1, <1>2, DialerHolds, PTL DEF Spec, ScriptFollowed, Dial!Spec

(***************************************************************************)
(* Every dial string stands for a script that CallProg can follow          *)
(* (ScriptAssumption there): codes it knows, at least one, and an end that *)
(* is COMMAND or DONE and nothing else.                                    *)
(***************************************************************************)
THEOREM ScriptsWellFormed == \A t \in AllScripts : WellFormed(t)
<1> SUFFICES ASSUME NEW c \in Countries, NEW s \in Strings PROVE WellFormed(Script(c, s)[1])
  BY DEF AllScripts
<1>1. s \in Seq(STRING)
  BY DialerAssumption
<1>2. 1 \in 1 .. Len(s) + 1
  BY <1>1
<1> QED
  BY <1>1, <1>2, ScriptRight

=============================================================================
