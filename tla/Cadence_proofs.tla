--------------------------- MODULE Cadence_proofs ---------------------------
(***************************************************************************)
(* The cadence matcher never overruns its arrays of periods, never         *)
(* compares periods across a long silence, never hears again once it has   *)
(* given up, records the bursts and gaps the line made and recognises only *)
(* a rhythm that was there: for every country table, line and array size.  *)
(***************************************************************************)
EXTENDS Cadence, TLAPS

(***************************************************************************)
(* A detector, apart from the bounds on n and on failures.                 *)
(***************************************************************************)
Detectors ==
  [ state : {"TONE", "SILENCE"}, run : Nat, on : Seq(Nat), off : Seq(Nat),
    failures : Nat ]

\* The parts of the invariant that speak of one detector d under f.
Good(f, d) ==
  /\ d \in Detectors
  /\ Len(d.on) < MaxPeriods
  /\ Len(d.off) = IF d.state = "TONE" THEN Len(d.on) + 1 ELSE Len(d.on)
  /\ \A i \in 2 .. Len(d.off) : d.off[i] <= f.max_silence
  /\ d.state = "SILENCE" /\ d.on # << >> => d.run <= f.max_silence

\* The windows of every setup, in intervals, are natural numbers.
LEMMA ConfiguredNat ==
  ASSUME NEW s \in Setups
  PROVE  Configured(s).max_silence \in Nat
<1> s.max_off \in Nat
  BY CadenceAssumption
<1>1. \A t \in Nat : to_intervals(t) \in Nat
  BY SMTT(30) DEF to_intervals, FP_Value
<1>2. to_intervals(IF windows_are_set(s) THEN s.max_off ELSE DEFAULT_MAX) \in Nat
  BY <1>1 DEF DEFAULT_MAX
<1>3. CASE s.tone = "DIAL"
  BY <1>3 DEF Configured
<1>4. CASE s.tone # "DIAL"
  <2> DEFINE m == to_intervals(IF windows_are_set(s) THEN s.max_off ELSE DEFAULT_MAX)
  <2>1. Configured(s).max_silence = (IF s.tone = "BUSY" THEN 3 ELSE 4) * m
    BY <1>4 DEF Configured
  <2>2. m \in Nat
    BY <1>2
  <2> HIDE DEF m
  <2> QED
    BY <2>1, <2>2
<1> QED
  BY <1>3, <1>4

\* What Append does to a sequence of periods.
LEMMA AppendPeriod ==
  ASSUME NEW s \in Seq(Nat), NEW x \in Nat
  PROVE  /\ Append(s, x) \in Seq(Nat)
         /\ Len(s) \in Nat /\ Len(Append(s, x)) = Len(s) + 1
         /\ \A i \in 1 .. Len(s) : Append(s, x)[i] = s[i]
         /\ Append(s, x)[Len(s) + 1] = x
OBVIOUS

\* A detector that starts over is good under any windows.
LEMMA FreshGood ==
  ASSUME NEW f, NEW k \in Nat
  PROVE  Good(f, Fresh(k))
BY CadenceAssumption DEF Good, Fresh, Detectors

\* An interval with the tone present.
LEMMA PresentGood ==
  ASSUME NEW f, f.max_silence \in Nat, NEW d, Good(f, d)
  PROVE  Good(f, Present(f, d)) /\ Present(f, d).failures = d.failures
<1> d \in Detectors
  BY DEF Good
<1>1. CASE d.state = "SILENCE"
  <2> DEFINE e == [d EXCEPT !.state = "TONE", !.off = Append(@, d.run), !.run = 0]
  <2>1. Present(f, d) = e
    BY <1>1 DEF Present
  <2> d.off \in Seq(Nat) /\ d.run \in Nat
    BY DEF Detectors
  <2>a. Append(d.off, d.run) \in Seq(Nat)
    BY AppendPeriod
  <2>2. /\ e \in Detectors /\ e.state = "TONE" /\ e.on = d.on
        /\ e.off = Append(d.off, d.run) /\ e.failures = d.failures
    BY <2>a DEF Detectors
  <2>3. Len(e.off) = Len(e.on) + 1
    BY <2>2, <1>1 DEF Good, Detectors
  <2>4. ASSUME NEW i \in 2 .. Len(e.off)
        PROVE  e.off[i] <= f.max_silence
    <3>1. CASE i <= Len(d.off)
      <4>1. i \in 2 .. Len(d.off) /\ e.off[i] = d.off[i]
        BY <3>1, <2>2, <2>4, AppendPeriod
      <4> QED
        BY <4>1 DEF Good
    <3>2. CASE i > Len(d.off)
      <4>1. i = Len(d.off) + 1 /\ e.off[i] = d.run
        BY <3>2, <2>2, <2>4 DEF Detectors
      <4>2. Len(d.on) >= 1
        BY <4>1, <2>4, <1>1 DEF Good, Detectors
      <4>3. d.on # << >>
        BY <4>2 DEF Detectors
      <4> QED
        BY <4>1, <4>3, <1>1 DEF Good
    <3> QED
      BY <3>1, <3>2, <2>2, <2>4 DEF Detectors
  <2> HIDE DEF e
  <2> QED
    BY <2>1, <2>2, <2>3, <2>4 DEF Good
<1>2. CASE d.state = "TONE" /\ f.max_on = 0
  <2>1. Present(f, d) = Fresh(d.failures)
    BY <1>2 DEF Present, Dropped
  <2> QED
    BY <2>1, FreshGood DEF Detectors, Fresh
<1>3. CASE d.state = "TONE" /\ f.max_on # 0
  <2>1. Present(f, d) = [d EXCEPT !.run = @ + 1]
    BY <1>3 DEF Present
  <2> DEFINE e == [d EXCEPT !.run = @ + 1]
  <2>a. d.run + 1 \in Nat
    BY DEF Detectors
  <2>2. /\ e \in Detectors /\ e.state = d.state /\ e.on = d.on /\ e.off = d.off
        /\ e.failures = d.failures
    BY <2>a DEF Detectors
  <2>3. Good(f, e)
    BY <2>2, <1>3 DEF Good
  <2> QED
    BY <2>1, <2>2, <2>3
<1> QED
  BY <1>1, <1>2, <1>3 DEF Detectors

\* The end of a burst, or one more interval of silence.
LEMMA AbsentGood ==
  ASSUME NEW f, f.max_silence \in Nat, NEW d, Good(f, d)
  PROVE  /\ Good(f, Absent(f, d))
         /\ Absent(f, d).failures \in {d.failures, d.failures + 1}
         /\ d.state = "SILENCE" => Absent(f, d).failures = d.failures
<1> d \in Detectors
  BY DEF Good
<1>1. CASE d.state = "SILENCE"
  <2>1. Absent(f, d) = Silent(f, d)
    BY <1>1 DEF Absent
  <2>2. CASE d.run + 1 > f.max_silence
    <3> DEFINE e == [d EXCEPT !.run = d.run + 1, !.on = << >>, !.off = << >>]
    <3>1. Absent(f, d) = e
      BY <2>1, <2>2 DEF Silent
    <3>a. d.run + 1 \in Nat /\ << >> \in Seq(Nat)
      BY DEF Detectors
    <3>2. /\ e \in Detectors /\ e.state = d.state /\ e.on = << >> /\ e.off = << >>
          /\ e.failures = d.failures
      BY <3>a DEF Detectors
    <3>3. Good(f, e)
      BY <3>2, <1>1, CadenceAssumption DEF Good
    <3> QED
      BY <3>1, <3>2, <3>3
  <2>3. CASE ~(d.run + 1 > f.max_silence)
    <3>1. Absent(f, d) = [d EXCEPT !.run = d.run + 1]
      BY <2>1, <2>3 DEF Silent
    <3> QED
      BY <1>1, <3>1, <2>3 DEF Good, Detectors
  <2> QED
    BY <2>2, <2>3
<1>2. CASE d.state = "TONE"
  <2> DEFINE e == Recorded(d)
  <2>1. /\ e \in Detectors /\ e.state = "SILENCE" /\ e.run = 0 /\ e.off = d.off
        /\ e.on = Append(d.on, d.run)
        /\ e.failures \in {d.failures, d.failures + 1}
    <3>1. Append(d.on, d.run) \in Seq(Nat)
      BY AppendPeriod DEF Detectors
    <3> DEFINE n == IF d.on = << >> THEN d.failures + 1 ELSE d.failures
    <3>2. n \in Nat /\ n \in {d.failures, d.failures + 1}
      BY DEF Detectors
    <3>3. e = [d EXCEPT !.on = Append(d.on, d.run), !.run = 0,
                        !.state = "SILENCE", !.failures = n]
      BY DEF Recorded, Detectors
    <3> HIDE DEF n, e
    <3> QED
      BY <3>1, <3>2, <3>3 DEF Detectors
  <2>2. Len(e.on) = Len(d.on) + 1 /\ Len(e.off) = Len(e.on)
    BY <2>1, <1>2 DEF Good, Detectors
  <2>3. Good(f, Dropped(e)) /\ Dropped(e).failures = e.failures
    BY <2>1, FreshGood DEF Dropped, Detectors, Fresh
  <2>4. Good(f, Wrapped(e)) /\ Wrapped(e).failures = e.failures
    <3>1. CASE Len(e.on) > MaxPeriods - 1
      BY <3>1, <2>3 DEF Wrapped
    <3>2. CASE ~(Len(e.on) > MaxPeriods - 1)
      <4>1. Len(e.on) < MaxPeriods
        BY <3>2, <2>1, CadenceAssumption DEF Detectors
      <4>2. \A i \in 2 .. Len(e.off) : e.off[i] <= f.max_silence
        BY <2>1 DEF Good
      <4>3. Good(f, e)
        BY <4>1, <4>2, <2>1, <2>2 DEF Good
      <4> QED
        BY <4>3, <3>2 DEF Wrapped
    <3> QED
      BY <3>1, <3>2
  <2>5. Absent(f, d) \in {Dropped(e), Wrapped(e)}
    BY <1>2 DEF Absent
  <2> HIDE DEF e
  <2> QED
    BY <2>1, <2>3, <2>4, <2>5, <1>2
<1> QED
  BY <1>1, <1>2 DEF Detectors

(***************************************************************************)
(* A detector is good, and listens once it has given up; so failures stop  *)
(* at MaxFailures + 1.                                                     *)
(***************************************************************************)
Kept(f, d) ==
  /\ Good(f, d)
  /\ d.failures <= MaxFailures + 1
  /\ d.failures > MaxFailures => d.state = "SILENCE"

\* The invariant, in those terms.
LEMMA InvIsKept ==
  CadenceInv <=>
    /\ live \in BOOLEAN
    /\ result \in {"NOTHING", "DETECTED", "RESTART"}
    /\ hostcalls \in 0 .. MaxHostCalls
    /\ cfg.max_silence \in Nat
    /\ Kept(cfg, c)
BY CadenceAssumption
  DEF CadenceInv, TypeOK, OneStretch, GaveUp, Kept, Good, Detectors

\* A detector that starts again with k failures is within the bounds.
LEMMA FreshKept ==
  ASSUME NEW f, NEW k \in 0 .. MaxFailures + 1
  PROVE  Kept(f, Fresh(k))
BY FreshGood, CadenceAssumption DEF Kept, Fresh

\* Failures never fall, and what has been given up only listens.
LEMMA AfterKept ==
  ASSUME NEW f, f.max_silence \in Nat, NEW d, Kept(f, d),
         NEW v \in {"PRESENT", "ABSENT", "UNDECIDED"}
  PROVE  /\ Good(f, After(f, d, v))
         /\ After(f, d, v).failures \in d.failures .. MaxFailures + 1
<1> Good(f, d) /\ d \in Detectors /\ d.failures \in Nat
  BY DEF Kept, Good, Detectors
<1>1. CASE v = "PRESENT"
  BY <1>1, PresentGood, CadenceAssumption DEF After, Kept
<1>2. CASE v = "ABSENT"
  <2>1. After(f, d, v) = Absent(f, d)
    BY <1>2 DEF After
  <2>2. CASE d.failures > MaxFailures
    BY <2>1, <2>2, AbsentGood, CadenceAssumption DEF Kept
  <2>3. CASE ~(d.failures > MaxFailures)
    BY <2>1, <2>3, AbsentGood, CadenceAssumption DEF Kept
  <2> QED
    BY <2>2, <2>3
<1>3. CASE v = "UNDECIDED"
  BY <1>3, CadenceAssumption DEF After, Kept
<1> QED
  BY <1>1, <1>2, <1>3

\* One sample.
LEMMA ProgressKept ==
  ASSUME CadenceInv, NEW v \in {"PRESENT", "ABSENT", "UNDECIDED"},
         cadence_progress(v)
  PROVE  CadenceInv' /\ (c.failures > MaxFailures => result' = "RESTART")
<1> DEFINE d == After(cfg, c, v)
<1>1. Kept(cfg, c) /\ cfg.max_silence \in Nat
  BY InvIsKept
<1>2. Good(cfg, d) /\ d.failures \in c.failures .. MaxFailures + 1
      /\ c.failures \in Nat
  BY <1>1, AfterKept DEF Kept, Good, Detectors
<1> HIDE DEF d
<1>3. /\ c' = IF Hopeless(d) THEN Dropped(d) ELSE d
      /\ cfg' = cfg /\ live' = live /\ hostcalls' = hostcalls
      /\ result' \in {"NOTHING", "DETECTED", "RESTART"}
      /\ Hopeless(d) => result' = "RESTART"
  <2>1. /\ c' = IF Hopeless(d) THEN Dropped(d) ELSE d
        /\ cfg' = cfg /\ live' = live /\ hostcalls' = hostcalls
    BY DEF cadence_progress, d
  <2>2. result' = CASE Hopeless(d) -> "RESTART"
                    [] ~Hopeless(d) /\ Detected(cfg, c, v) -> "DETECTED"
                    [] OTHER -> "NOTHING"
    BY DEF cadence_progress, d
  <2> QED
    BY <2>1, <2>2
<1>4. Kept(cfg, c')
  <2>1. CASE Hopeless(d)
    BY <2>1, <1>2, <1>3, FreshKept, CadenceAssumption DEF Dropped
  <2>2. CASE ~Hopeless(d)
    BY <2>2, <1>2, <1>3, CadenceAssumption DEF Hopeless, Kept
  <2> QED
    BY <2>1, <2>2
<1>5. c.failures > MaxFailures => Hopeless(d)
  BY <1>2, CadenceAssumption DEF Hopeless
<1>6. CadenceInv'
  <2>1. /\ live' \in BOOLEAN /\ hostcalls' \in 0 .. MaxHostCalls
        /\ cfg'.max_silence \in Nat
    BY <1>1, <1>3, InvIsKept
  <2>2. Kept(cfg', c')
    BY <1>3, <1>4
  <2> QED
    BY <1>3, <2>1, <2>2, CadenceAssumption
    DEF CadenceInv, TypeOK, OneStretch, GaveUp, Kept, Good, Detectors
<1> QED
  BY <1>3, <1>5, <1>6

\* A host call that leaves a fresh detector.
LEMMA HostCallKept ==
  ASSUME CadenceInv, HostCall, live' \in BOOLEAN,
         cfg'.max_silence \in Nat, Kept(cfg', c')
  PROVE  CadenceInv'
BY CadenceAssumption
  DEF HostCall, CadenceInv, TypeOK, OneStretch, GaveUp, Kept, Good, Detectors

\* Every step keeps the invariant.
LEMMA NextKept ==
  ASSUME CadenceInv, [Next]_vars
  PROVE  CadenceInv'
<1> Kept(cfg, c) /\ cfg.max_silence \in Nat /\ live \in BOOLEAN
    /\ c.failures \in 0 .. MaxFailures + 1
  BY InvIsKept DEF CadenceInv, TypeOK
<1>1. ASSUME NEW s \in Setups, cadence_create(s) PROVE CadenceInv'
  <2>1. HostCall /\ cfg' = Configured(s) /\ c' = Fresh(KeptFailures)
    BY <1>1 DEF cadence_create
  <2>2. live' \in BOOLEAN
    BY <1>1 DEF cadence_create, Usable, windows_are_set
  <2>3. KeptFailures \in 0 .. MaxFailures + 1
    BY CadenceAssumption DEF KeptFailures
  <2>4. Kept(cfg', c')
    BY <2>1, <2>3, FreshKept
  <2>5. cfg'.max_silence \in Nat
    BY <2>1, ConfiguredNat
  <2> QED
    BY <2>1, <2>2, <2>4, <2>5, HostCallKept
<1>2. CASE cadence_reset
  <2>1. Kept(cfg', c')
    BY <1>2, FreshKept, CadenceAssumption DEF cadence_reset
  <2> QED
    BY <1>2, <2>1, HostCallKept DEF cadence_reset
<1>3. CASE cadence_delete
  BY <1>3, HostCallKept DEF cadence_delete
<1>4. CASE Interval
  BY <1>4, ProgressKept DEF Interval
<1>5. CASE MidInterval
  BY <1>5, ProgressKept DEF MidInterval
<1>6. CASE UNCHANGED vars
  BY <1>6 DEF vars, CadenceInv, TypeOK, OneStretch, GaveUp
<1> QED
  BY <1>1, <1>2, <1>3, <1>4, <1>5, <1>6 DEF Next

\* CADENCE_MAX_PERIODS, max_silence and the failure count of cadence_progress:
\* their invariant holds in every reachable state.
THEOREM CadenceInvariant == Spec => []CadenceInv
<1>1. Init => CadenceInv
  <2> SUFFICES ASSUME Init PROVE CadenceInv
    OBVIOUS
  <2>1. cfg.max_silence \in Nat
    BY ConfiguredNat, CadenceAssumption DEF Init
  <2>2. Kept(cfg, c)
    BY FreshKept, CadenceAssumption DEF Init
  <2>3. live \in BOOLEAN
    BY DEF Init
  <2>4. /\ result \in {"NOTHING", "DETECTED", "RESTART"}
        /\ hostcalls \in 0 .. MaxHostCalls
    BY CadenceAssumption DEF Init
  <2> QED
    BY <2>1, <2>2, <2>3, <2>4, InvIsKept
<1>2. CadenceInv /\ [Next]_vars => CadenceInv'
  BY NextKept
<1> QED
  BY <1>1, <1>2, PTL DEF Spec

\* The arrays of periods are never overrun and the failure count is bounded.
THEOREM CadenceTypes == Spec => []TypeOK
<1>1. CadenceInv => TypeOK
  BY DEF CadenceInv
<1> QED
  BY <1>1, CadenceInvariant, PTL

\* Periods on both sides of a silence longer than max_silence are never compared.
THEOREM PeriodsTogether == Spec => []OneStretch
<1>1. CadenceInv => OneStretch
  BY DEF CadenceInv
<1> QED
  BY <1>1, CadenceInvariant, PTL

(***************************************************************************)
(* Every cadence recognised has cost a failure, and the measuring under    *)
(* way has cost one more; a detector that has reported CADENCE_RESTART has *)
(* more of them than it may.                                               *)
(***************************************************************************)
Paid(d, n) == n <= d.failures /\ (d.on # << >> => n < d.failures)

SpentInv ==
  /\ found \in Nat /\ found <= MaxFailures /\ Paid(c, found)
  /\ deaf => c.failures > MaxFailures /\ result # "DETECTED"

\* A sample takes no failure back, and one that starts a measuring adds one.
LEMMA AfterPaid ==
  ASSUME NEW f, NEW d, d \in Detectors, NEW n \in Nat, Paid(d, n),
         NEW v \in {"PRESENT", "ABSENT", "UNDECIDED"}
  PROVE  Paid(After(f, d, v), n)
<1> d.failures \in Nat
  BY DEF Detectors
<1>1. \A e : e.failures = d.failures /\ e.on \in {<< >>, d.on} => Paid(e, n)
  BY DEF Paid
<1>2. Dropped(d).failures = d.failures /\ Dropped(d).on = << >>
  BY DEF Dropped, Fresh
<1>3. CASE v = "PRESENT"
  <2>1. \/ Present(f, d) = Dropped(d)
        \/ Present(f, d) = [d EXCEPT !.state = "TONE", !.off = Append(d.off, d.run), !.run = 0]
        \/ Present(f, d) = [d EXCEPT !.run = d.run + 1]
    BY DEF Present, Detectors
  <2>2. Present(f, d).failures = d.failures /\ Present(f, d).on \in {<< >>, d.on}
    BY <2>1, <1>2 DEF Detectors
  <2> QED
    BY <1>1, <1>3, <2>2 DEF After
<1>4. CASE v = "ABSENT" /\ d.state = "SILENCE"
  <2>1. \/ Absent(f, d) = [d EXCEPT !.run = d.run + 1, !.on = << >>, !.off = << >>]
        \/ Absent(f, d) = [d EXCEPT !.run = d.run + 1]
    BY <1>4 DEF Absent, Silent
  <2>2. Absent(f, d).failures = d.failures /\ Absent(f, d).on \in {<< >>, d.on}
    BY <2>1 DEF Detectors
  <2> QED
    BY <1>1, <1>4, <2>2 DEF After
<1>5. CASE v = "ABSENT" /\ d.state = "TONE"
  <2> DEFINE e == Recorded(d)
  <2>1. e.failures = IF d.on = << >> THEN d.failures + 1 ELSE d.failures
    BY DEF Recorded, Detectors
  <2>2. n < e.failures
    BY <2>1 DEF Paid
  <2>3. Absent(f, d) = e \/ Absent(f, d) = Dropped(e)
    BY <1>5 DEF Absent, Wrapped
  <2>4. Dropped(e).failures = e.failures
    BY DEF Dropped, Fresh
  <2>5. e.failures \in Nat
    BY <2>1
  <2> HIDE DEF e
  <2>6. n < Absent(f, d).failures /\ Absent(f, d).failures \in Nat
    BY <2>2, <2>3, <2>4, <2>5
  <2> QED
    BY <1>5, <2>6 DEF After, Paid
<1>6. CASE v = "UNDECIDED"
  BY <1>6 DEF After
<1> QED
  BY <1>3, <1>4, <1>5, <1>6 DEF Detectors

\* One sample.
LEMMA ProgressSpent ==
  ASSUME CadenceInv, SpentInv, NEW v \in {"PRESENT", "ABSENT", "UNDECIDED"},
         cadence_progress(v)
  PROVE  SpentInv'
<1> DEFINE d == After(cfg, c, v)
<1>1. Kept(cfg, c) /\ cfg.max_silence \in Nat
  BY InvIsKept
<1>2. /\ c \in Detectors /\ found \in Nat /\ MaxFailures \in Nat
      /\ c.failures \in Nat
  BY <1>1, CadenceAssumption DEF Kept, Good, Detectors, SpentInv
<1>3. d.failures \in c.failures .. MaxFailures + 1
  BY <1>1, AfterKept
<1>4. Paid(d, found)
  BY <1>2, AfterPaid DEF SpentInv
<1>5. /\ c' = IF Hopeless(d) THEN Dropped(d) ELSE d
      /\ result' = CASE Hopeless(d) -> "RESTART"
                     [] ~Hopeless(d) /\ Detected(cfg, c, v) -> "DETECTED"
                     [] OTHER -> "NOTHING"
      /\ found' = IF result' = "DETECTED" /\ v = "ABSENT" THEN found + 1 ELSE found
      /\ deaf' = (deaf \/ result' = "RESTART")
  BY DEF cadence_progress
<1>6. Dropped(d).failures = d.failures /\ Dropped(d).on = << >>
  BY DEF Dropped, Fresh
<1>7. result' = "DETECTED" /\ v = "ABSENT" =>
        /\ found < c.failures /\ d.on = << >> /\ ~Hopeless(d)
  <2> SUFFICES ASSUME result' = "DETECTED", v = "ABSENT"
               PROVE  found < c.failures /\ d.on = << >> /\ ~Hopeless(d)
    OBVIOUS
  <2>1. ~Hopeless(d) /\ Detected(cfg, c, v)
    BY <1>5
  <2>2. Matched(cfg, c)
    BY <2>1 DEF Detected
  <2>3. d = Dropped(Recorded(c))
    BY <2>2 DEF After, Absent, Matched
  <2>4. d.on = << >>
    BY <2>3 DEF Dropped, Fresh
  <2> QED
    BY <2>1, <2>2, <2>4 DEF Matched, SpentInv, Paid
<1> HIDE DEF d
<1>8. c'.failures = d.failures /\ c'.on \in {<< >>, d.on}
  BY <1>5, <1>6
<1>9. Hopeless(d) <=> d.failures > MaxFailures
  BY DEF Hopeless
<1>10. /\ found' \in Nat /\ found' <= MaxFailures /\ Paid(c', found')
  <2>1. CASE result' = "DETECTED" /\ v = "ABSENT"
    <3>1. found' = found + 1 /\ c' = d /\ d.on = << >>
      BY <1>5, <1>7, <2>1
    <3>2. /\ found + 1 <= d.failures /\ d.failures <= MaxFailures
          /\ d.failures \in Nat
      BY <1>2, <1>3, <1>7, <1>9, <2>1
    <3>3. found' \in Nat /\ found' <= MaxFailures
      BY <1>2, <3>1, <3>2
    <3>4. Paid(d, found + 1)
      BY <3>1, <3>2 DEF Paid
    <3> QED
      BY <3>1, <3>3, <3>4
  <2>2. CASE ~(result' = "DETECTED" /\ v = "ABSENT")
    <3>1. found' = found
      BY <1>5, <2>2
    <3> QED
      BY <1>2, <1>4, <1>8, <3>1 DEF Paid, SpentInv
  <2> QED
    BY <2>1, <2>2
<1>11. deaf' => c'.failures > MaxFailures /\ result' # "DETECTED"
  <2> SUFFICES ASSUME deaf' PROVE Hopeless(d)
    BY <1>5, <1>8, <1>9
  <2>1. CASE deaf
    BY <1>2, <1>3, <1>9, <2>1 DEF SpentInv
  <2>2. CASE ~deaf
    BY <1>5, <2>2
  <2> QED
    BY <2>1, <2>2
<1> QED
  BY <1>5, <1>10, <1>11 DEF SpentInv

\* Every step keeps the account.
LEMMA NextSpent ==
  ASSUME CadenceInv, SpentInv, [Next]_vars
  PROVE  SpentInv'
<1>1. c.failures \in Nat /\ MaxFailures \in Nat
  BY CadenceAssumption DEF CadenceInv, TypeOK
<1>2. \A k \in Nat : Fresh(k).failures = k /\ Fresh(k).on = << >>
  BY DEF Fresh
<1>3. ASSUME NEW s \in Setups, cadence_create(s) PROVE SpentInv'
  <2>1. /\ c' = Fresh(KeptFailures) /\ result' = "NOTHING"
        /\ found' = (IF live THEN found ELSE 0) /\ deaf' = (live /\ deaf)
    BY <1>3 DEF cadence_create, HostCall
  <2>2. c'.failures = KeptFailures /\ c'.on = << >>
    BY <1>1, <1>2, <2>1 DEF KeptFailures
  <2>3. CASE live
    <3>1. c'.failures = c.failures /\ found' = found /\ (deaf' => deaf)
      BY <2>1, <2>2, <2>3 DEF KeptFailures
    <3> QED
      BY <1>1, <2>1, <2>2, <3>1 DEF SpentInv, Paid
  <2>4. CASE ~live
    <3>1. c'.failures = 0 /\ found' = 0 /\ ~deaf'
      BY <2>1, <2>2, <2>4 DEF KeptFailures
    <3> QED
      BY <1>1, <2>2, <3>1 DEF SpentInv, Paid
  <2> QED
    BY <2>3, <2>4
<1>4. CASE cadence_reset
  <2>1. c' = Fresh(0) /\ found' = 0 /\ deaf' = FALSE
    BY <1>4 DEF cadence_reset
  <2>2. c'.failures = 0 /\ c'.on = << >>
    BY <1>2, <2>1
  <2> QED
    BY <1>1, <2>1, <2>2 DEF SpentInv, Paid
<1>5. CASE cadence_delete
  BY <1>5 DEF cadence_delete, HostCall, life, SpentInv, Paid
<1>6. CASE Interval
  BY <1>6, ProgressSpent DEF Interval
<1>7. CASE MidInterval
  BY <1>7, ProgressSpent DEF MidInterval
<1>8. CASE UNCHANGED vars
  BY <1>8 DEF vars, life, SpentInv, Paid
<1> QED
  BY <1>3, <1>4, <1>5, <1>6, <1>7, <1>8 DEF Next

(***************************************************************************)
(* `failures' counts for the life of the object, successes included: from  *)
(* cadence_reset or its allocation on, whatever creations in place there   *)
(* are, a detector recognises at most MaxFailures cadences, and none once  *)
(* it has reported CADENCE_RESTART.                                        *)
(***************************************************************************)
THEOREM FailuresForLife == Spec => []CountedForLife
<1>1. Init => SpentInv
  <2> SUFFICES ASSUME Init PROVE SpentInv
    OBVIOUS
  <2>1. c.failures = 0 /\ c.on = << >>
    BY DEF Init, Fresh
  <2> QED
    BY <2>1, CadenceAssumption DEF Init, SpentInv, Paid
<1>2. CadenceInv /\ SpentInv /\ [Next]_vars => SpentInv'
  BY NextSpent
<1>3. SpentInv => CountedForLife
  BY DEF SpentInv, CountedForLife, Paid
<1> QED
  BY <1>1, <1>2, <1>3, CadenceInvariant, PTL DEF Spec

-----------------------------------------------------------------------------
(***************************************************************************)
(* What the detector measures is what the line did.                        *)
(*                                                                         *)
(* Measured speaks of the periods that are complete.  To carry it on, the  *)
(* run that is being counted has to follow the burst or gap that is under  *)
(* way, from the interval in which it was first heard, and the gap before  *)
(* a burst under way has to be the one recorded with it.                   *)
(***************************************************************************)

Periods == [off : Int, on : Int]

\* A line that makes the sound snd and has made the periods past.
LineOK(snd, p) ==
  /\ snd \in {"PRESENT", "ABSENT"} /\ p \in Seq(Periods)
  /\ snd = "PRESENT" => Len(p) > 0

\* Its complete periods.
Complete(snd, p) == Len(p) - (IF snd = "PRESENT" THEN 1 ELSE 0)

\* The detector d follows the line, which has been heard for h intervals of
\* the burst or gap under way.
Follows(d, snd, h, p) ==
  /\ d.on # << >> => Complete(snd, p) > 0 /\ d.failures <= MaxFailures
  /\ d.failures <= MaxFailures =>
       /\ snd = "ABSENT" => d.state = "SILENCE" /\ (d.on # << >> => d.run = h - 1)
       /\ snd = "PRESENT" /\ h = 0 => d.state = "SILENCE" /\ d.on = << >>
       /\ snd = "PRESENT" /\ h > 0 =>
            /\ d.state = "TONE" /\ d.run = h - 1
            /\ d.on # << >> => d.off[Len(d.on) + 1] = p[Len(p)].off - 1

\* The periods of d are those of the line.
Matches(d, snd, p) ==
  LET n == Len(d.on)
      m == Complete(snd, p)
  IN \A k \in 0 .. n - 1 :
       k < m => /\ d.on[n - k] = p[m - k].on - 1
                /\ k < n - 1 => d.off[n - k] = p[m - k].off - 1

LineInv ==
  /\ LineOK(sound, past) /\ len \in Nat /\ missed \in 0 .. len
  /\ live /\ cfg.max_on # 0 =>
       ~cfg.continuous /\ Follows(c, sound, len - missed, past) /\ Matches(c, sound, past)

\* Measured, in those terms.
LEMMA LineInvMeasured == LineInv => Measured
BY DEF LineInv, Measured, Matches, Complete

\* What an interval with the tone does to a detector that is not for dial
\* tone.
LEMMA PresentFields ==
  ASSUME NEW f, f.max_on # 0, NEW d \in Detectors
  PROVE  /\ Present(f, d).state = "TONE" /\ Present(f, d).on = d.on
         /\ Present(f, d).failures = d.failures
         /\ d.state = "SILENCE" => /\ Present(f, d).run = 0
                                   /\ Present(f, d).off = Append(d.off, d.run)
         /\ d.state = "TONE" => /\ Present(f, d).run = d.run + 1
                                /\ Present(f, d).off = d.off
<1>1. CASE d.state = "SILENCE"
  <2>1. Present(f, d) = [d EXCEPT !.state = "TONE", !.off = Append(d.off, d.run), !.run = 0]
    BY <1>1 DEF Present, Detectors
  <2> QED
    BY <1>1, <2>1 DEF Detectors
<1>2. CASE d.state = "TONE"
  <2>1. Present(f, d) = [d EXCEPT !.run = d.run + 1]
    BY <1>2 DEF Present, Detectors
  <2> QED
    BY <1>2, <2>1 DEF Detectors
<1> QED
  BY <1>1, <1>2 DEF Detectors

\* What an interval without it does.
LEMMA AbsentFields ==
  ASSUME NEW f, NEW d \in Detectors
  PROVE  /\ Absent(f, d).state = "SILENCE"
         /\ d.state = "SILENCE" =>
              /\ Absent(f, d).run = d.run + 1 /\ Absent(f, d).failures = d.failures
              /\ \/ Absent(f, d).on = << >>
                 \/ Absent(f, d).on = d.on /\ Absent(f, d).off = d.off
         /\ d.state = "TONE" =>
              \/ Absent(f, d).on = << >>
              \/ /\ Absent(f, d).on = Append(d.on, d.run) /\ Absent(f, d).off = d.off
                 /\ Absent(f, d).run = 0
<1>1. CASE d.state = "SILENCE"
  <2>1. \/ Absent(f, d) = [d EXCEPT !.run = d.run + 1, !.on = << >>, !.off = << >>]
        \/ Absent(f, d) = [d EXCEPT !.run = d.run + 1]
    BY <1>1 DEF Absent, Silent
  <2>2. CASE Absent(f, d) = [d EXCEPT !.run = d.run + 1, !.on = << >>, !.off = << >>]
    BY <1>1, <2>2 DEF Detectors
  <2>3. CASE Absent(f, d) = [d EXCEPT !.run = d.run + 1]
    BY <1>1, <2>3 DEF Detectors
  <2> QED
    BY <2>1, <2>2, <2>3
<1>2. CASE d.state = "TONE"
  <2> DEFINE e == Recorded(d)
  <2>1. /\ e.state = "SILENCE" /\ e.run = 0 /\ e.off = d.off /\ e.on = Append(d.on, d.run)
    BY DEF Recorded, Detectors
  <2>2. Absent(f, d) = e \/ Absent(f, d) = Dropped(e)
    BY <1>2 DEF Absent, Wrapped
  <2>3. Dropped(e).state = "SILENCE" /\ Dropped(e).on = << >>
    BY DEF Dropped, Fresh
  <2> HIDE DEF e
  <2> QED
    BY <1>2, <2>1, <2>2, <2>3
<1> QED
  BY <1>1, <1>2 DEF Detectors

\* To follow a burst.
LEMMA FollowBurst ==
  ASSUME NEW e, NEW q, NEW i \in Nat, i > 0, e.state = "TONE", e.run = i - 1,
         e.failures <= MaxFailures,
         e.on # << >> => /\ Complete("PRESENT", q) > 0
                         /\ e.off[Len(e.on) + 1] = q[Len(q)].off - 1
  PROVE  Follows(e, "PRESENT", i, q)
<1>1. i # 0 /\ "PRESENT" # "ABSENT"
  OBVIOUS
<1> QED
  BY <1>1 DEF Follows

\* To follow a gap.
LEMMA FollowGap ==
  ASSUME NEW e, NEW q, NEW i \in Nat, e.state = "SILENCE",
         e.on # << >> => /\ Complete("ABSENT", q) > 0 /\ e.run = i - 1
                         /\ e.failures <= MaxFailures
  PROVE  Follows(e, "ABSENT", i, q)
<1>1. "PRESENT" # "ABSENT"
  OBVIOUS
<1> QED
  BY <1>1 DEF Follows

\* A detector that starts over follows any line of which nothing has been
\* heard, or only silence, or that it has given up on.
LEMMA FreshFollows ==
  ASSUME NEW k \in Nat, NEW snd, NEW h \in Nat, NEW p,
         h = 0 \/ snd = "ABSENT" \/ k > MaxFailures
  PROVE  Follows(Fresh(k), snd, h, p) /\ Matches(Fresh(k), snd, p)
<1>1. /\ Fresh(k).on = << >> /\ Fresh(k).state = "SILENCE" /\ Fresh(k).failures = k
  BY DEF Fresh
<1>2. Len(Fresh(k).on) = 0
  BY <1>1
<1>3. Matches(Fresh(k), snd, p)
  BY <1>2 DEF Matches
<1>4. ~(h > 0 /\ h = 0) /\ ~(k > MaxFailures /\ k <= MaxFailures)
  BY CadenceAssumption
<1>5. Follows(Fresh(k), snd, h, p)
  <2>1. CASE h = 0
    BY <1>1, <1>4, <2>1 DEF Follows
  <2>2. CASE snd = "ABSENT"
    BY <1>1, <2>2 DEF Follows
  <2>3. CASE k > MaxFailures
    BY <1>1, <1>4, <2>3 DEF Follows
  <2> QED
    BY <2>1, <2>2, <2>3
<1> QED
  BY <1>3, <1>5

\* The end of a burst of x intervals, as it is remembered.
Ended(p, x) == [p EXCEPT ![Len(p)].on = x]

\* It changes the last period, and only its burst.
LEMMA BurstEnds ==
  ASSUME NEW p \in Seq(Periods), Len(p) > 0, NEW x \in Int
  PROVE  /\ Ended(p, x) \in Seq(Periods) /\ Len(Ended(p, x)) = Len(p)
         /\ Ended(p, x)[Len(p)].on = x /\ Ended(p, x)[Len(p)].off = p[Len(p)].off
         /\ \A i \in 1 .. Len(p) - 1 : Ended(p, x)[i] = p[i]
<1> DEFINE q == Ended(p, x)
<1>1. Len(p) \in Nat /\ Len(p) \in DOMAIN p /\ DOMAIN p = 1 .. Len(p)
  OBVIOUS
<1>2. p[Len(p)] \in Periods
  BY <1>1
<1> DEFINE r == [p[Len(p)] EXCEPT !.on = x]
<1>3. r \in Periods /\ r.on = x /\ r.off = p[Len(p)].off
  BY <1>2 DEF Periods
<1>4. q = [p EXCEPT ![Len(p)] = r]
  BY DEF Ended
<1> HIDE DEF r, q
<1>5. q \in Seq(Periods) /\ Len(q) = Len(p)
  BY <1>1, <1>3, <1>4
<1>6. q[Len(p)] = r
  BY <1>1, <1>4
<1>7. ASSUME NEW i \in 1 .. Len(p) - 1 PROVE q[i] = p[i]
  <2>1. i \in DOMAIN p /\ i # Len(p)
    OBVIOUS
  <2> QED
    BY <1>4, <2>1
<1> QED
  BY <1>3, <1>5, <1>6, <1>7 DEF q

\* What LineDoes does to the history, sound by sound.
LEMMA LineStep ==
  ASSUME LineInv, NEW v \in {"PRESENT", "ABSENT"}, LineDoes(v)
  PROVE  /\ LineOK(sound', past') /\ len' \in Nat /\ missed' \in 0 .. len' /\ sound' = v
         /\ v = sound => past' = past /\ len' - missed' = len - missed + 1
         /\ v # sound => len' - missed' = 1
         /\ v = "PRESENT" /\ sound = "ABSENT" =>
              /\ Len(past') = Len(past) + 1 /\ past'[Len(past')].off = len - missed
              /\ \A i \in 1 .. Len(past) : past'[i] = past[i]
         /\ v = "ABSENT" /\ sound = "PRESENT" =>
              \E z \in {0, 1} :
                 /\ Len(past') = Len(past) - z /\ Len(past') > 0
                 /\ Len(past) > 1 => Len(past') > 1
                 /\ past'[Len(past')].on = len - missed
                 /\ past'[Len(past')].off = past[Len(past)].off
                 /\ \A i \in 1 .. Len(past') - 1 : past'[i] = past[i + z]
<1>1. /\ sound \in {"PRESENT", "ABSENT"} /\ past \in Seq(Periods) /\ Len(past) \in Nat
      /\ len \in Nat /\ missed \in 0 .. len /\ len - missed \in Int
      /\ sound = "PRESENT" => Len(past) > 0
  BY DEF LineInv, LineOK
<1>2. CASE v = sound
  BY <1>1, <1>2 DEF LineDoes, LineOK
<1>3. CASE v = "PRESENT" /\ sound = "ABSENT"
  <2> DEFINE r == [off |-> len - missed, on |-> 0]
  <2>1. r \in Periods /\ r.off = len - missed
    BY <1>1 DEF Periods
  <2>2. past' = Append(past, r) /\ sound' = v /\ len' = 1 /\ missed' = 0
    BY <1>3 DEF LineDoes
  <2> HIDE DEF r
  <2>3. /\ past' \in Seq(Periods) /\ Len(past') = Len(past) + 1 /\ past'[Len(past) + 1] = r
        /\ \A i \in 1 .. Len(past) : past'[i] = past[i]
    BY <1>1, <2>1, <2>2
  <2> QED
    BY <1>1, <1>3, <2>1, <2>2, <2>3 DEF LineOK
<1>4. CASE v = "ABSENT" /\ sound = "PRESENT"
  <2> DEFINE q == Ended(past, len - missed)
  <2>1. /\ past' = (IF Len(q) > Remembered THEN Tail(q) ELSE q)
        /\ sound' = v /\ len' = 1 /\ missed' = 0
    BY <1>4 DEF LineDoes, Ended
  <2>2. /\ q \in Seq(Periods) /\ Len(q) = Len(past)
        /\ q[Len(past)].on = len - missed /\ q[Len(past)].off = past[Len(past)].off
        /\ \A i \in 1 .. Len(past) - 1 : q[i] = past[i]
    BY <1>1, <1>4, BurstEnds
  <2> HIDE DEF q
  <2>3. CASE Len(q) > Remembered
    <3>1. /\ Tail(q) \in Seq(Periods) /\ Len(Tail(q)) = Len(q) - 1 /\ Len(q) >= 3
          /\ \A i \in 1 .. Len(q) - 1 : Tail(q)[i] = q[i + 1]
      BY <2>2, <2>3, CadenceAssumption
    <3>2. /\ Len(past') = Len(past) - 1 /\ Len(past') > 1
          /\ past'[Len(past')] = q[Len(past)]
          /\ \A i \in 1 .. Len(past') - 1 : past'[i] = past[i + 1]
      BY <1>1, <2>1, <2>2, <2>3, <3>1
    <3> QED
      BY <1>1, <1>4, <2>1, <2>2, <2>3, <3>1, <3>2 DEF LineOK
  <2>4. CASE ~(Len(q) > Remembered)
    <3>1. past' = q
      BY <2>1, <2>4
    <3>2. \A i \in 1 .. Len(past') - 1 : past'[i] = past[i + 0]
      BY <1>1, <2>2, <3>1
    <3>3. /\ Len(past') = Len(past) - 0 /\ Len(past') > 0
          /\ Len(past) > 1 => Len(past') > 1
          /\ past'[Len(past')].on = len - missed
          /\ past'[Len(past')].off = past[Len(past)].off
      BY <1>1, <1>4, <2>2, <3>1
    <3>4. LineOK(sound', past')
      <4>1. past' \in Seq(Periods) /\ sound' = "ABSENT"
        BY <1>4, <2>1, <2>2, <3>1
      <4> QED
        BY <4>1 DEF LineOK
    <3>5. len' \in Nat /\ missed' \in 0 .. len' /\ sound' = v /\ len' - missed' = 1
      BY <2>1
    <3> QED
      BY <1>4, <3>2, <3>3, <3>4, <3>5
  <2> QED
    BY <2>3, <2>4
<1> QED
  BY <1>1, <1>2, <1>3, <1>4

\* An interval of the tone: a gap ends, or the burst goes on.
LEMMA PresentFollows ==
  ASSUME NEW f, f.max_on # 0, NEW d, Good(f, d), d.failures <= MaxFailures,
         NEW snd, NEW p, LineOK(snd, p), NEW h \in Nat, NEW q, LineOK("PRESENT", q),
         NEW i \in Nat,
         Follows(d, snd, h, p), Matches(d, snd, p),
         snd = "PRESENT" => q = p /\ i = h + 1,
         snd = "ABSENT" => /\ i = 1 /\ Len(q) = Len(p) + 1 /\ q[Len(q)].off = h
                           /\ \A j \in 1 .. Len(p) : q[j] = p[j]
  PROVE  Follows(Present(f, d), "PRESENT", i, q) /\ Matches(Present(f, d), "PRESENT", q)
<1> DEFINE e == Present(f, d)
           n == Len(d.on)
<1>1. /\ d \in Detectors /\ d.on \in Seq(Nat) /\ d.off \in Seq(Nat) /\ d.run \in Nat
      /\ d.state \in {"TONE", "SILENCE"} /\ n \in Nat /\ d.failures \in Nat
      /\ Len(d.off) = IF d.state = "TONE" THEN n + 1 ELSE n
  BY DEF Good, Detectors
<1>2. /\ p \in Seq(Periods) /\ q \in Seq(Periods) /\ Len(p) \in Nat /\ Len(q) \in Nat
      /\ snd \in {"PRESENT", "ABSENT"} /\ Len(q) > 0
  BY DEF LineOK
<1>3. /\ e.state = "TONE" /\ e.on = d.on /\ e.failures = d.failures
      /\ d.state = "SILENCE" => e.run = 0 /\ e.off = Append(d.off, d.run)
      /\ d.state = "TONE" => e.run = d.run + 1 /\ e.off = d.off
  BY <1>1, PresentFields
<1> HIDE DEF e
<1>4. \A j \in 1 .. n : e.off[j] = d.off[j]
  <2>1. CASE d.state = "SILENCE"
    <3>1. Len(d.off) = n
      BY <1>1, <2>1
    <3>2. \A j \in 1 .. Len(d.off) : Append(d.off, d.run)[j] = d.off[j]
      BY <1>1, AppendPeriod
    <3> QED
      BY <1>3, <2>1, <3>1, <3>2
  <2>2. CASE d.state = "TONE"
    BY <1>3, <2>2
  <2> QED
    BY <1>1, <2>1, <2>2
<1>5. CASE snd = "PRESENT"
  <2>1. q = p /\ i = h + 1 /\ i # 0 /\ i > 0
    BY <1>5
  <2>2. Complete("PRESENT", q) = Complete(snd, p)
    BY <1>5, <2>1
  <2>3. Matches(e, "PRESENT", q)
    <3> DEFINE m == Complete(snd, p)
    <3>1. ASSUME NEW k \in 0 .. n - 1, k < m
          PROVE  /\ e.on[n - k] = q[m - k].on - 1
                 /\ k < n - 1 => e.off[n - k] = q[m - k].off - 1
      <4>1. n - k \in 1 .. n
        BY <1>1, <3>1
      <4>2. /\ d.on[n - k] = p[m - k].on - 1
            /\ k < n - 1 => d.off[n - k] = p[m - k].off - 1
        BY <3>1 DEF Matches
      <4> QED
        BY <1>3, <1>4, <2>1, <4>1, <4>2
    <3> QED
      BY <1>3, <2>2, <3>1 DEF Matches
  <2>4. CASE h = 0
    <3>1. d.state = "SILENCE" /\ d.on = << >>
      BY <1>5, <2>4 DEF Follows
    <3>2. e.run = i - 1 /\ e.on = << >>
      BY <1>3, <2>1, <2>4, <3>1
    <3>3. e.failures <= MaxFailures
      BY <1>3
    <3>4. Follows(e, "PRESENT", i, q)
      BY <1>3, <2>1, <3>2, <3>3, FollowBurst
    <3> QED
      BY <2>3, <3>4 DEF e
  <2>5. CASE h > 0
    <3>1. d.state = "TONE" /\ d.run = h - 1
      BY <1>5, <2>5 DEF Follows
    <3>2. e.run = i - 1
      BY <1>3, <2>1, <3>1
    <3>3. /\ d.on # << >> => Complete(snd, p) > 0
          /\ d.on # << >> => d.off[n + 1] = p[Len(p)].off - 1
      BY <1>5, <2>5 DEF Follows
    <3>4. e.on # << >> => /\ Complete("PRESENT", q) > 0
                          /\ e.off[Len(e.on) + 1] = q[Len(q)].off - 1
      BY <1>3, <2>1, <2>2, <3>1, <3>3
    <3>5. e.failures <= MaxFailures
      BY <1>3
    <3>6. Follows(e, "PRESENT", i, q)
      BY <1>3, <2>1, <3>2, <3>4, <3>5, FollowBurst
    <3> QED
      BY <2>3, <3>6 DEF e
  <2> QED
    BY <2>4, <2>5
<1>6. CASE snd = "ABSENT"
  <2>1. /\ i = 1 /\ Len(q) = Len(p) + 1 /\ q[Len(q)].off = h
        /\ \A j \in 1 .. Len(p) : q[j] = p[j]
    BY <1>6
  <2>2. Complete("PRESENT", q) = Len(p) /\ Complete(snd, p) = Len(p)
    BY <1>2, <1>6, <2>1 DEF Complete
  <2>3. /\ d.state = "SILENCE" /\ (d.on # << >> => d.run = h - 1 /\ Len(p) > 0)
    BY <1>6, <2>2 DEF Follows
  <2>4. Matches(e, "PRESENT", q)
    <3>1. ASSUME NEW k \in 0 .. n - 1, k < Len(p)
          PROVE  /\ e.on[n - k] = q[Len(p) - k].on - 1
                 /\ k < n - 1 => e.off[n - k] = q[Len(p) - k].off - 1
      <4>1. n - k \in 1 .. n /\ Len(p) - k \in 1 .. Len(p)
        BY <1>1, <1>2, <3>1
      <4>2. q[Len(p) - k] = p[Len(p) - k] /\ e.off[n - k] = d.off[n - k]
        BY <1>4, <2>1, <4>1
      <4>3. /\ d.on[n - k] = p[Len(p) - k].on - 1
            /\ k < n - 1 => d.off[n - k] = p[Len(p) - k].off - 1
        BY <2>2, <3>1 DEF Matches
      <4> QED
        BY <1>3, <4>2, <4>3
    <3> QED
      BY <1>3, <2>2, <3>1 DEF Matches
  <2>5. d.on # << >> => e.off[n + 1] = h - 1
    BY <1>1, <1>3, <2>3, AppendPeriod
  <2>6. e.run = i - 1
    BY <1>3, <2>1, <2>3
  <2>7. e.on # << >> => /\ Complete("PRESENT", q) > 0
                        /\ e.off[Len(e.on) + 1] = q[Len(q)].off - 1
    BY <1>3, <2>1, <2>2, <2>3, <2>5
  <2>8. i > 0
    BY <2>1
  <2>9. e.failures <= MaxFailures
    BY <1>3
  <2>10. Follows(e, "PRESENT", i, q)
    BY <1>3, <2>6, <2>7, <2>8, <2>9, FollowBurst
  <2> QED
    BY <2>4, <2>10 DEF e
<1> QED
  BY <1>2, <1>5, <1>6 DEF e

\* An interval without it: a burst ends and is recorded, or the gap goes on.
LEMMA AbsentFollows ==
  ASSUME NEW f, NEW d, Good(f, d), d.failures <= MaxFailures,
         NEW snd, NEW p, LineOK(snd, p), NEW h \in Nat, NEW q, LineOK("ABSENT", q),
         NEW i \in Nat, Absent(f, d).failures <= MaxFailures,
         Follows(d, snd, h, p), Matches(d, snd, p),
         snd = "ABSENT" => q = p /\ i = h + 1,
         snd = "PRESENT" =>
           /\ i = 1
           /\ \E z \in {0, 1} :
                /\ Len(q) = Len(p) - z /\ Len(q) > 0
                /\ q[Len(q)].on = h /\ q[Len(q)].off = p[Len(p)].off
                /\ \A j \in 1 .. Len(q) - 1 : q[j] = p[j + z]
  PROVE  Follows(Absent(f, d), "ABSENT", i, q) /\ Matches(Absent(f, d), "ABSENT", q)
<1> DEFINE e == Absent(f, d)
           n == Len(d.on)
<1>1. /\ d \in Detectors /\ d.on \in Seq(Nat) /\ d.off \in Seq(Nat) /\ d.run \in Nat
      /\ d.state \in {"TONE", "SILENCE"} /\ n \in Nat /\ d.failures \in Nat
  BY DEF Good, Detectors
<1>2. /\ p \in Seq(Periods) /\ q \in Seq(Periods) /\ Len(p) \in Nat /\ Len(q) \in Nat
      /\ snd \in {"PRESENT", "ABSENT"}
  BY DEF LineOK
<1>3. /\ e.state = "SILENCE" /\ e.failures <= MaxFailures
      /\ d.state = "SILENCE" =>
              /\ e.run = d.run + 1
              /\ e.on = << >> \/ (e.on = d.on /\ e.off = d.off)
      /\ d.state = "TONE" =>
           \/ e.on = << >>
           \/ e.on = Append(d.on, d.run) /\ e.off = d.off /\ e.run = 0
  BY <1>1, AbsentFields
<1> HIDE DEF e
<1>4. ASSUME e.on = << >>
      PROVE  Follows(e, "ABSENT", i, q) /\ Matches(e, "ABSENT", q)
  <2>1. Len(e.on) = 0
    BY <1>4
  <2>2. Matches(e, "ABSENT", q)
    BY <2>1 DEF Matches
  <2> QED
    BY <1>3, <1>4, <2>2, FollowGap
<1>5. CASE snd = "ABSENT" /\ e.on # << >>
  <2>1. q = p /\ i = h + 1
    BY <1>5
  <2>2. d.state = "SILENCE" /\ (d.on # << >> => d.run = h - 1 /\ Complete(snd, p) > 0)
    BY <1>5 DEF Follows
  <2>3. e.on = d.on /\ e.off = d.off /\ e.run = d.run + 1
    BY <1>3, <1>5, <2>2
  <2>4. Matches(e, "ABSENT", q)
    BY <1>5, <2>1, <2>3 DEF Matches
  <2>5. e.run = i - 1
    BY <1>1, <1>5, <2>1, <2>2, <2>3
  <2>6. Complete("ABSENT", q) > 0
    BY <1>5, <2>1, <2>2, <2>3
  <2>7. Follows(e, "ABSENT", i, q)
    BY <1>3, <2>5, <2>6, FollowGap
  <2> QED
    BY <2>4, <2>7 DEF e
<1>6. CASE snd = "PRESENT" /\ e.on # << >>
  <2>1. i = 1
    BY <1>6
  <2>2. PICK z \in {0, 1} :
          /\ Len(q) = Len(p) - z /\ Len(q) > 0
          /\ q[Len(q)].on = h /\ q[Len(q)].off = p[Len(p)].off
          /\ \A j \in 1 .. Len(q) - 1 : q[j] = p[j + z]
    BY <1>6
  <2>3. h > 0
    <3>1. h = 0 => d.state = "SILENCE" /\ d.on = << >>
      BY <1>6 DEF Follows
    <3>2. h = 0 => e.on = << >>
      BY <1>3, <3>1
    <3> QED
      BY <1>6, <3>2
  <2>4. /\ d.state = "TONE" /\ d.run = h - 1
        /\ d.on # << >> => d.off[n + 1] = p[Len(p)].off - 1
    BY <1>6, <2>3 DEF Follows
  <2>5. e.on = Append(d.on, d.run) /\ e.off = d.off /\ e.run = 0
    BY <1>3, <1>6, <2>4
  <2>6. /\ Len(e.on) = n + 1 /\ e.on[n + 1] = d.run
        /\ \A j \in 1 .. n : e.on[j] = d.on[j]
    BY <1>1, <2>5, AppendPeriod
  <2>7. Complete("ABSENT", q) = Len(q) /\ Complete(snd, p) = Len(p) - 1
    BY <1>2, <1>6 DEF Complete
  <2>8. ASSUME NEW k \in 0 .. n, k < Len(q)
        PROVE  /\ e.on[n + 1 - k] = q[Len(q) - k].on - 1
               /\ k < n => e.off[n + 1 - k] = q[Len(q) - k].off - 1
    <3>1. CASE k = 0
      <4>1. n + 1 - k = n + 1 /\ Len(q) - k = Len(q)
        BY <1>1, <1>2, <3>1
      <4>2. k < n => d.on # << >>
        BY <1>1, <3>1
      <4> QED
        BY <2>2, <2>4, <2>5, <2>6, <4>1, <4>2
    <3>2. CASE k # 0
      <4> DEFINE a == k - 1
      <4>1. /\ a \in 0 .. n - 1 /\ a < Len(p) - 1
            /\ n + 1 - k = n - a /\ n - a \in 1 .. n
            /\ Len(q) - k \in 1 .. Len(q) - 1 /\ Len(q) - k + z = Len(p) - 1 - a
            /\ k < n => a < n - 1
        <5> DEFINE lp == Len(p)
                   lq == Len(q)
        <5>1. lp \in Nat /\ lq \in Nat /\ n \in Nat
          BY <1>1, <1>2
        <5>2. k \in 0 .. n /\ k < lq /\ k # 0
          BY <2>8, <3>2
        <5>3. lq = lp - z
          BY <2>2
        <5> HIDE DEF lp, lq, n
        <5>4. CASE z = 0
          BY <5>1, <5>2, <5>3, <5>4 DEF lp, lq
        <5>5. CASE z = 1
          BY <5>1, <5>2, <5>3, <5>5 DEF lp, lq
        <5> QED
          BY <5>4, <5>5
      <4>2. q[Len(q) - k] = p[Len(p) - 1 - a]
        BY <2>2, <4>1
      <4>3. /\ d.on[n - a] = p[Len(p) - 1 - a].on - 1
            /\ a < n - 1 => d.off[n - a] = p[Len(p) - 1 - a].off - 1
        BY <2>7, <4>1 DEF Matches
      <4> QED
        BY <2>5, <2>6, <4>1, <4>2, <4>3
    <3> QED
      BY <3>1, <3>2
  <2>9. Matches(e, "ABSENT", q)
    <3> DEFINE l == Len(e.on)
               m == Complete("ABSENT", q)
    <3>1. l = n + 1 /\ m = Len(q)
      BY <2>6, <2>7
    <3>2. ASSUME NEW k \in 0 .. l - 1, k < m
          PROVE  /\ e.on[l - k] = q[m - k].on - 1
                 /\ k < l - 1 => e.off[l - k] = q[m - k].off - 1
      <4>1. k \in 0 .. n /\ k < Len(q) /\ l - k = n + 1 - k /\ (k < l - 1 => k < n)
        BY <1>1, <3>1, <3>2
      <4> HIDE DEF l, m
      <4> QED
        BY <2>8, <3>1, <4>1
    <3> QED
      BY <3>2 DEF Matches
  <2>10. Complete("ABSENT", q) > 0 /\ e.run = i - 1
    BY <2>1, <2>2, <2>5, <2>7
  <2>11. Follows(e, "ABSENT", i, q)
    BY <1>3, <2>10, FollowGap
  <2> QED
    BY <2>9, <2>11 DEF e
<1> QED
  BY <1>2, <1>4, <1>5, <1>6 DEF e

\* A detector with windows for a tone waits for more than one interval of it.
LEMMA WindowsNotContinuous ==
  ASSUME NEW s \in Setups, Configured(s).max_on # 0
  PROVE  ~Configured(s).continuous
BY DEF Configured

\* One interval of tone or silence: the detector goes on following the line.
LEMMA IntervalFollows ==
  ASSUME CadenceInv, LineInv, NEW v \in {"PRESENT", "ABSENT"},
         cadence_progress(v), LineDoes(v), cfg.max_on # 0
  PROVE  Follows(c', sound', len' - missed', past') /\ Matches(c', sound', past')
<1> DEFINE d == After(cfg, c, v)
           h == len - missed
           i == len' - missed'
           q == past'
<1>1. /\ Kept(cfg, c) /\ Good(cfg, c) /\ cfg.max_silence \in Nat
      /\ c.failures \in Nat /\ live /\ MaxFailures \in Nat
  BY InvIsKept, CadenceAssumption DEF Kept, Good, Detectors, cadence_progress
<1>2. /\ LineOK(sound, past) /\ h \in Nat
      /\ Follows(c, sound, h, past) /\ Matches(c, sound, past)
  <2>1. len \in Nat /\ missed \in 0 .. len /\ LineOK(sound, past)
    BY DEF LineInv
  <2>2. h \in Nat
    BY <2>1
  <2> QED
    BY <1>1, <2>1, <2>2 DEF LineInv
<1>3. d.failures \in c.failures .. MaxFailures + 1 /\ d.failures \in Nat
  <2>1. d.failures \in c.failures .. MaxFailures + 1
    BY <1>1, AfterKept
  <2> QED
    BY <1>1, <2>1
<1>4. LineOK(v, q) /\ i \in Nat /\ sound' = v
  <2>1. /\ LineOK(sound', past') /\ len' \in Nat /\ missed' \in 0 .. len' /\ sound' = v
    BY LineStep
  <2>2. i \in Nat
    <3>1. i = h + 1 \/ i = 1
      BY LineStep
    <3> HIDE DEF i, h
    <3> QED
      BY <1>2, <3>1
  <2>3. LineOK(v, q)
    BY <2>1, Zenon
  <2> QED
    BY <2>1, <2>2, <2>3
<1>5. c' = IF Hopeless(d) THEN Fresh(d.failures) ELSE d
  BY DEF cadence_progress, Dropped
<1> HIDE DEF d
<1>6. CASE Hopeless(d)
  <2>1. d.failures > MaxFailures /\ c' = Fresh(d.failures)
    BY <1>5, <1>6 DEF Hopeless
  <2>2. Follows(Fresh(d.failures), v, i, q) /\ Matches(Fresh(d.failures), v, q)
    BY <1>3, <1>4, <2>1, FreshFollows
  <2> QED
    BY <1>4, <2>1, <2>2
<1>7. CASE ~Hopeless(d)
  <2>1. c' = d /\ d.failures <= MaxFailures /\ c.failures <= MaxFailures
    BY <1>1, <1>3, <1>5, <1>7 DEF Hopeless
  <2>2. CASE v = "PRESENT"
    <3>1. d = Present(cfg, c)
      BY <2>2 DEF d, After
    <3>2. /\ sound = "PRESENT" => q = past /\ i = h + 1
          /\ sound = "ABSENT" => /\ i = 1 /\ Len(q) = Len(past) + 1 /\ q[Len(q)].off = h
                                 /\ \A j \in 1 .. Len(past) : q[j] = past[j]
      BY <2>2, LineStep
    <3>3. LineOK("PRESENT", q)
      BY <1>4, <2>2
    <3> HIDE DEF h, i, q
    <3>4. Follows(Present(cfg, c), "PRESENT", i, q) /\ Matches(Present(cfg, c), "PRESENT", q)
      BY <1>1, <1>2, <1>4, <2>1, <3>2, <3>3, PresentFollows
    <3> QED
      BY <1>4, <2>1, <2>2, <3>1, <3>4 DEF i, q
  <2>3. CASE v = "ABSENT"
    <3>1. d = Absent(cfg, c)
      BY <2>3 DEF d, After
    <3>2. /\ sound = "ABSENT" => q = past /\ i = h + 1
          /\ sound = "PRESENT" =>
               /\ i = 1
               /\ \E z \in {0, 1} :
                    /\ Len(q) = Len(past) - z /\ Len(q) > 0
                    /\ q[Len(q)].on = h /\ q[Len(q)].off = past[Len(past)].off
                    /\ \A j \in 1 .. Len(q) - 1 : q[j] = past[j + z]
      BY <2>3, LineStep
    <3>3. LineOK("ABSENT", q) /\ Absent(cfg, c).failures <= MaxFailures
      BY <1>4, <2>1, <2>3, <3>1
    <3> HIDE DEF h, i, q
    <3>4. Follows(Absent(cfg, c), "ABSENT", i, q) /\ Matches(Absent(cfg, c), "ABSENT", q)
      BY <1>1, <1>2, <1>4, <2>1, <3>2, <3>3, AbsentFollows
    <3> QED
      BY <1>4, <2>1, <2>3, <3>1, <3>4 DEF i, q
  <2> QED
    BY <2>2, <2>3
<1> QED
  BY <1>6, <1>7

\* Every step keeps what is recorded in step with the line.
LEMMA NextFollows ==
  ASSUME CadenceInv, LineInv, [Next]_vars
  PROVE  LineInv'
<1>1. /\ LineOK(sound, past) /\ len \in Nat /\ missed \in 0 .. len
      /\ c.failures \in Nat /\ MaxFailures \in Nat
  BY InvIsKept, CadenceAssumption DEF LineInv, Kept, Good, Detectors
<1>2. ASSUME HostCall, live' /\ cfg'.max_on # 0 => ~cfg'.continuous,
             NEW k \in Nat, live' => c' = Fresh(k)
      PROVE  LineInv'
  <2>1. LineOK(sound', past') /\ len' \in Nat /\ missed' \in 0 .. len' /\ len' - missed' = 0
    BY <1>1, <1>2 DEF HostCall
  <2>2. live' => Follows(c', sound', len' - missed', past') /\ Matches(c', sound', past')
    <3> DEFINE snd == sound'
               h == len' - missed'
               p == past'
    <3>0. h = 0
      BY <2>1, Zenon
    <3> HIDE DEF snd, h, p
    <3>1. h \in Nat /\ h = 0
      BY <3>0
    <3>2. Follows(Fresh(k), snd, h, p) /\ Matches(Fresh(k), snd, p)
      BY <3>1, FreshFollows
    <3> QED
      BY <1>2, <3>2 DEF snd, h, p
  <2> QED
    BY <1>2, <2>1, <2>2 DEF LineInv
<1>3. ASSUME NEW s \in Setups, cadence_create(s) PROVE LineInv'
  <2>1. /\ HostCall /\ cfg' = Configured(s)
        /\ c' = Fresh(KeptFailures) /\ KeptFailures \in Nat
    BY <1>1, <1>3 DEF cadence_create, KeptFailures
  <2> QED
    BY <1>2, <2>1, WindowsNotContinuous
<1>4. CASE cadence_reset
  <2>1. HostCall /\ live /\ live' = live /\ cfg' = cfg /\ c' = Fresh(0)
    BY <1>4 DEF cadence_reset
  <2> QED
    BY <1>2, <2>1 DEF LineInv
<1>5. CASE cadence_delete
  <2>1. HostCall /\ ~live'
    BY <1>5 DEF cadence_delete
  <2> QED
    BY <1>2, <2>1
<1>6. CASE Interval
  <2>1. PICK v \in {"PRESENT", "ABSENT"} : cadence_progress(v) /\ LineDoes(v)
    BY <1>6 DEF Interval
  <2>2. LineOK(sound', past') /\ len' \in Nat /\ missed' \in 0 .. len'
    BY <2>1, LineStep
  <2>3. live' = live /\ cfg' = cfg
    BY <2>1 DEF cadence_progress
  <2>4. cfg.max_on # 0 =>
          Follows(c', sound', len' - missed', past') /\ Matches(c', sound', past')
    BY <2>1, IntervalFollows
  <2> QED
    BY <2>2, <2>3, <2>4 DEF LineInv
<1>7. CASE MidInterval
  <2>1. /\ c' = IF Hopeless(c) THEN Fresh(c.failures) ELSE c
        /\ live' = live /\ cfg' = cfg /\ sound' = sound /\ past' = past
        /\ len' = len /\ missed' = missed
    BY <1>7 DEF MidInterval, cadence_progress, After, Dropped, world
  <2>2. CASE Hopeless(c)
    <3>1. c.failures > MaxFailures /\ c' = Fresh(c.failures) /\ len - missed \in Nat
      BY <1>1, <2>1, <2>2 DEF Hopeless
    <3>2. Follows(c', sound, len - missed, past) /\ Matches(c', sound, past)
      BY <1>1, <3>1, FreshFollows
    <3> QED
      BY <2>1, <3>2 DEF LineInv
  <2>3. CASE ~Hopeless(c)
    BY <2>1, <2>3 DEF LineInv
  <2> QED
    BY <2>2, <2>3
<1>8. CASE UNCHANGED vars
  BY <1>8 DEF vars, world, LineInv
<1> QED
  BY <1>3, <1>4, <1>5, <1>6, <1>7, <1>8 DEF Next

\* The detector follows the line in every reachable state.
LEMMA LineFollowed == Spec => [](CadenceInv /\ LineInv)
<1>1. Init => LineInv
  <2> SUFFICES ASSUME Init PROVE LineInv
    OBVIOUS
  <2>1. ~live /\ sound = "ABSENT" /\ past = << >> /\ len = 0 /\ missed = 0
    BY DEF Init
  <2>2. << >> \in Seq(Periods) /\ 0 \in Nat /\ 0 \in 0 .. 0
    OBVIOUS
  <2> QED
    BY <2>1, <2>2 DEF LineInv, LineOK
<1>2. CadenceInv /\ LineInv /\ [Next]_vars => LineInv'
  BY NextFollows
<1> QED
  BY <1>1, <1>2, CadenceInvariant, PTL DEF Spec

\* cadence_progress records the bursts and the gaps of the line as they were,
\* each with its own, whatever wraps, drops and restarts there were.
THEOREM MeasuredRight == Spec => []Measured
BY LineFollowed, LineInvMeasured, PTL

\* CADENCE_DETECTED is the answer to a rhythm within the windows, and to nothing
\* else.
THEOREM RhythmTrue == Spec => RhythmHeard
<1> DEFINE P == result' = "DETECTED" /\ cfg.max_on # 0 =>
                  /\ Len(past') > 1
                  /\ past'[Len(past')].on - 1 \in cfg.min_on .. cfg.max_on
                  /\ past'[Len(past')].off - 1 \in cfg.min_off .. cfg.max_off
<1>1. ASSUME CadenceInv, LineInv, NEW v \in {"PRESENT", "ABSENT", "UNDECIDED"},
             cadence_progress(v), v # "UNDECIDED" => LineDoes(v),
             result' = "DETECTED", cfg.max_on # 0
      PROVE  P
  <2> DEFINE n == Len(c.on)
  <2>1. Detected(cfg, c, v) /\ live
    BY <1>1 DEF cadence_progress
  <2>2. /\ ~cfg.continuous /\ Follows(c, sound, len - missed, past)
        /\ LineOK(sound, past) /\ len \in Nat /\ missed \in 0 .. len
    BY <1>1, <2>1 DEF LineInv
  <2>3. v = "ABSENT" /\ Matched(cfg, c)
    BY <1>1, <2>1, <2>2 DEF Detected
  <2>4. /\ c \in Detectors /\ c.on \in Seq(Nat) /\ n \in Nat /\ c.off \in Seq(Nat)
        /\ c.run \in Nat /\ c.state = "TONE" /\ c.on # << >> /\ Len(c.off) = n + 1
    BY <1>1, <2>3, InvIsKept DEF Kept, Good, Detectors, Matched
  <2>5. InWindows(cfg, Recorded(c))
    BY <2>3 DEF Matched, match, match_looped, match_unrolled
  <2>6. /\ Recorded(c).on = Append(c.on, c.run) /\ Recorded(c).off = c.off
    BY <2>4 DEF Recorded, Detectors
  <2>7. Len(Recorded(c).on) = n + 1 /\ Recorded(c).on[n + 1] = c.run
    BY <2>4, <2>6, AppendPeriod
  <2>8. /\ cfg.min_off <= c.off[n + 1] /\ c.off[n + 1] <= cfg.max_off
        /\ cfg.min_on <= c.run /\ c.run <= cfg.max_on
    <3>1. n + 1 - 0 = n + 1
      BY <2>4
    <3> QED
      BY <2>5, <2>6, <2>7, <3>1 DEF InWindows, On, Off
  <2>9. /\ sound = "PRESENT" /\ len - missed > 0 /\ c.run = len - missed - 1
        /\ c.off[n + 1] = past[Len(past)].off - 1 /\ Complete(sound, past) > 0
    <3>1. c.failures <= MaxFailures /\ Complete(sound, past) > 0
      BY <2>2, <2>4 DEF Follows
    <3>2. sound = "PRESENT"
      BY <2>2, <2>4, <3>1 DEF Follows, LineOK
    <3>3. len - missed > 0
      <4>1. len - missed # 0
        BY <2>2, <2>4, <3>1, <3>2 DEF Follows
      <4> QED
        BY <2>2, <4>1
    <3> QED
      BY <2>2, <2>4, <3>1, <3>2, <3>3 DEF Follows
  <2>10. Len(past) > 1
    BY <2>2, <2>9 DEF Complete, LineOK
  <2>11. /\ Len(past') > 1 /\ past'[Len(past')].on = len - missed
         /\ past'[Len(past')].off = past[Len(past)].off
    BY <1>1, <2>3, <2>9, <2>10, LineStep
  <2>12. c.off[n + 1] \in Nat
    BY <2>4
  <2> QED
    BY <2>2, <2>4, <2>8, <2>9, <2>11, <2>12
<1>2. ASSUME CadenceInv, LineInv, [Next]_vars PROVE P \/ UNCHANGED vars
  <2>1. CASE \E s \in Setups : cadence_create(s)
    BY <2>1 DEF cadence_create, HostCall
  <2>2. CASE cadence_reset \/ cadence_delete
    BY <2>2 DEF cadence_reset, cadence_delete, HostCall
  <2>3. CASE Interval
    BY <1>1, <1>2, <2>3 DEF Interval
  <2>4. CASE MidInterval
    BY <1>1, <1>2, <2>4 DEF MidInterval
  <2> QED
    BY <1>2, <2>1, <2>2, <2>3, <2>4 DEF Next
<1>3. CadenceInv /\ LineInv /\ [Next]_vars => [P]_vars
  BY <1>2
<1> QED
  BY <1>3, LineFollowed, PTL DEF Spec, RhythmHeard

=============================================================================
