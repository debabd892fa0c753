------------------------------ MODULE Cadence ------------------------------
(***************************************************************************)
(* src/callprog/Cadence.c: telling a call-progress tone by its rhythm.     *)
(*                                                                         *)
(* One step is one sample, of which only those that end an interval of the *)
(* tone filter matter.  The recorded periods on[0 .. n-1] and off[0 .. n]  *)
(* are sequences, so that n is Len(on) and index i is position i + 1; what *)
(* the arrays hold beyond n is never read.  fixed_pattern is cleared by    *)
(* cadence_create and set by nobody, so match_fixed is left out.  The line *)
(* makes bursts and gaps of given lengths, counted in intervals.           *)
(***************************************************************************)
EXTENDS Integers, Sequences

CONSTANTS
  MaxPeriods,          \* CADENCE_MAX_PERIODS
  MaxFailures,         \* CADENCE_MAX_FAILURES
  Setups,              \* tones and country tables cadence_create is given
  Lines,               \* bursts and gaps the line may make
  Remembered,          \* how many periods the history `past' keeps
  MaxHostCalls         \* bound: creates, resets and deletes by the host

ASSUME CadenceAssumption ==
  /\ MaxPeriods \in Nat \ {0} /\ MaxFailures \in Nat /\ MaxHostCalls \in Nat
  /\ Remembered \in Nat \ {0, 1} /\ Setups # {}
  /\ \A s \in Setups :
       /\ s.tone \in {"BUSY", "CONG", "RING", "DIAL"}
       /\ {s.max_on, s.min_on, s.max_off, s.min_off} \subseteq Nat
       /\ s.cycles \in Nat \ {0} /\ s.diff \in Nat
       /\ {s.loose, s.voice} \subseteq BOOLEAN

VARIABLES
  live,                \* the detector exists
  cfg,                 \* its windows, in intervals
  c,                   \* state, run, on, off and failures
  result,              \* what cadence_progress last returned
  hostcalls,
  line, sound, len,    \* the line: its rhythm, what it does now, since when
  missed,              \* history: how much of this burst or gap was not heard
  past,                \* history: the gaps and bursts heard
  found,               \* history: cadences recognised since the object was
                       \* allocated or reset
  deaf                 \* history: it has reported CADENCE_RESTART since then

world == << line, sound, len, missed, past >>
life == << found, deaf >>
vars == << live, cfg, c, result, hostcalls, world, life >>

-----------------------------------------------------------------------------
(***************************************************************************)
(* cadence_create.                                                         *)
(***************************************************************************)

\* GetFP_Value(1, 160), and a time in units of 10 ms as intervals of 160.
FP_Value == 103
to_intervals(t) == (FP_Value * t * 80) \div 16384

windows_are_set(s) == 0 \notin {s.max_on, s.min_on, s.max_off, s.min_off}

\* Congestion and ringback are given up without windows, busy is not.
Usable(s) == s.tone \in {"BUSY", "DIAL"} \/ windows_are_set(s)

\* GetBusyToneDiffTime, and the least the matchers work with.
match_tolerance(s) == IF s.diff <= 2 THEN 3 ELSE s.diff

DEFAULT_MAX == 55
DEFAULT_MIN == 20

\* A detector for dial tone never comes to its matcher, so it needs no least
\* lengths; `voice' is extra > 0, which makes it wait for a second interval.
Configured(s) ==
  LET max_off == to_intervals(IF windows_are_set(s) THEN s.max_off ELSE DEFAULT_MAX)
  IN IF s.tone = "DIAL"
       THEN [ max_on |-> 0, min_on |-> 0, max_off |-> 0, min_off |-> 0,
              max_silence |-> 0, cycles |-> 100, looped |-> FALSE,
              continuous |-> ~s.voice, tol |-> match_tolerance(s) ]
       ELSE [ max_on |-> to_intervals(IF windows_are_set(s) THEN s.max_on ELSE DEFAULT_MAX),
              min_on |-> to_intervals(IF windows_are_set(s) THEN s.min_on ELSE DEFAULT_MIN),
              max_off |-> max_off,
              min_off |-> to_intervals(IF windows_are_set(s) THEN s.min_off ELSE DEFAULT_MIN),
              max_silence |-> (IF s.tone = "BUSY" THEN 3 ELSE 4) * max_off,
              cycles |-> s.cycles,
              looped |-> s.tone = "BUSY" /\ s.loose,
              continuous |-> FALSE, tol |-> match_tolerance(s) ]

Fresh(failures) ==
  [state |-> "SILENCE", run |-> 0, on |-> << >>, off |-> << >>, failures |-> failures]

-----------------------------------------------------------------------------
(***************************************************************************)
(* The matchers, on a detector d whose last period has just been recorded. *)
(***************************************************************************)
Abs(x) == IF x < 0 THEN -x ELSE x
adiff(a, b) == Abs(a - b)

\* on[last - k] and off[last - k].
On(d, k)  == d.on[Len(d.on) - k]
Off(d, k) == d.off[Len(d.on) - k]

InWindows(f, d) ==
  /\ f.min_off <= Off(d, 0) /\ Off(d, 0) <= f.max_off
  /\ f.min_on <= On(d, 0) /\ On(d, 0) <= f.max_on

Alike(f, d, j, k) == adiff(On(d, j), On(d, k)) < f.tol

\* The looped match that wants the silence to have become shorter.
match_loopedShrinking(f, d) ==
  /\ InWindows(f, d)
  /\ Off(d, 0) < Off(d, f.cycles - 1)
  /\ Alike(f, d, 0, f.cycles - 1)

match_looped(f, d) ==
  /\ InWindows(f, d)
  /\ \A k \in 1 .. f.cycles - 2 :
       Alike(f, d, 0, k) /\ adiff(Off(d, 0), Off(d, k)) < f.tol
  /\ Off(d, 0) <= Off(d, f.cycles - 1)
  /\ Alike(f, d, 0, f.cycles - 1)

one_period(f, d) ==
  \A k \in {1, 2} : Alike(f, d, 0, k) /\ adiff(Off(d, 0), Off(d, k)) < f.tol

two_period(f, d) ==
  /\ Len(d.on) > 6
  /\ \A k \in {2, 4} : Alike(f, d, 0, k) /\ adiff(Off(d, 0), Off(d, k)) < f.tol
  /\ \A k \in {3, 5} : adiff(Off(d, 1), Off(d, k)) < f.tol

\* The unrolled match without its upper bound on a tone.
match_unrolledNoMax(f, d) ==
  /\ Len(d.on) > 2
  /\ Off(d, 0) \in f.min_off .. f.max_off /\ f.min_on <= On(d, 0)
  /\ one_period(f, d) \/ two_period(f, d)

match_unrolled(f, d) ==
  /\ Len(d.on) > 2
  /\ InWindows(f, d)
  /\ one_period(f, d) \/ two_period(f, d)

\* Both return 0 for fewer than `cycles' periods.
match(f, d) ==
  /\ Len(d.on) >= f.cycles
  /\ IF f.looped THEN match_looped(f, d) ELSE match_unrolled(f, d)

-----------------------------------------------------------------------------
(***************************************************************************)
(* cadence_progress, as what becomes of the detector d under f.            *)
(***************************************************************************)

\* A fresh start forgives the failures before it.
DroppedForgiving(d) == Fresh(0)

\* n = 0, and back to listening.
Dropped(d) == Fresh(d.failures)

Present(f, d) ==
  CASE d.state = "SILENCE" ->
         [d EXCEPT !.state = "TONE", !.off = Append(@, d.run), !.run = 0]
    [] d.state = "TONE" /\ f.max_on = 0 -> Dropped(d)
    [] d.state = "TONE" /\ f.max_on # 0 -> [d EXCEPT !.run = @ + 1]

\* A silence that never ends what was being measured.
SilentKept(f, d) == [d EXCEPT !.run = @ + 1]

\* A silence too long ends what was being measured, and goes on counting.
Silent(f, d) ==
  LET run == d.run + 1
  IN IF run > f.max_silence
       THEN [d EXCEPT !.run = run, !.on = << >>, !.off = << >>]
       ELSE [d EXCEPT !.run = run]

\* The end of a burst, with the run going on.
RecordedRunning(d) ==
  [d EXCEPT !.on = Append(@, d.run), !.state = "SILENCE",
            !.failures = IF d.on = << >> THEN @ + 1 ELSE @]

\* The end of a burst: a period that starts the measuring counts as a failure.
Recorded(d) ==
  [d EXCEPT !.on = Append(@, d.run), !.run = 0, !.state = "SILENCE",
            !.failures = IF d.on = << >> THEN @ + 1 ELSE @]

Wrapped(d) == IF Len(d.on) > MaxPeriods - 1 THEN Dropped(d) ELSE d

Matched(f, d) == d.state = "TONE" /\ d.on # << >> /\ match(f, Recorded(d))

Absent(f, d) ==
  CASE d.state = "SILENCE" -> Silent(f, d)
    [] d.state = "TONE" -> IF Matched(f, d) THEN Dropped(Recorded(d))
                           ELSE Wrapped(Recorded(d))

\* Gives up when it has started over too often; failures stay as they are, and
\* nothing but a reset clears them.
Hopeless(d) == d.failures > MaxFailures

After(f, d, verdict) ==
  CASE verdict = "PRESENT" -> Present(f, d)
    [] verdict = "ABSENT" -> Absent(f, d)
    [] verdict = "UNDECIDED" -> d

Detected(f, d, verdict) ==
  \/ verdict = "PRESENT" /\ (f.continuous \/ (d.state = "TONE" /\ f.max_on = 0))
  \/ verdict = "ABSENT" /\ Matched(f, d)

cadence_progress(verdict) ==
  LET d == After(cfg, c, verdict)
  IN /\ live
     /\ c' = IF Hopeless(d) THEN Dropped(d) ELSE d
     /\ result' = CASE Hopeless(d) -> "RESTART"
                    [] ~Hopeless(d) /\ Detected(cfg, c, verdict) -> "DETECTED"
                    [] OTHER -> "NOTHING"
     /\ found' = IF result' = "DETECTED" /\ verdict = "ABSENT" THEN found + 1
                 ELSE found
     /\ deaf' = (deaf \/ result' = "RESTART")
     /\ UNCHANGED << live, cfg, hostcalls >>

-----------------------------------------------------------------------------
(***************************************************************************)
(* The line.                                                               *)
(***************************************************************************)
Lengths(s) ==
  CASE s = "PRESENT" -> line.bursts
    [] s = "ABSENT" -> IF past = << >> THEN line.first ELSE line.gaps

\* A burst or gap goes on, or ends at one of the line's lengths.
LineDoes(verdict) ==
  IF verdict = sound
    THEN /\ \E l \in Lengths(sound) : l > len
         /\ len' = len + 1
         /\ UNCHANGED << sound, missed, past, line >>
    ELSE /\ len \in Lengths(sound)
         /\ sound' = verdict /\ len' = 1 /\ missed' = 0
         /\ past' = IF sound = "ABSENT" THEN Append(past, [off |-> len - missed, on |-> 0])
                    ELSE LET p == [past EXCEPT ![Len(past)].on = len - missed]
                         IN IF Len(p) > Remembered THEN Tail(p) ELSE p
         /\ UNCHANGED line

Interval ==
  \E verdict \in {"PRESENT", "ABSENT"} :
    cadence_progress(verdict) /\ LineDoes(verdict)

MidInterval == cadence_progress("UNDECIDED") /\ UNCHANGED world

\* The host's calls.  What was under way on the line is heard from here on.
HostCall ==
  /\ hostcalls < MaxHostCalls
  /\ hostcalls' = hostcalls + 1
  /\ result' = "NOTHING"
  /\ missed' = len
  /\ UNCHANGED << line, sound, len, past >>

\* Every creation clears the count.
ClearedFailures == 0

\* The count a creation leaves: a new object's memory is cleared, and one that
\* is used again keeps its own.
KeptFailures == IF live THEN c.failures ELSE 0

cadence_create(s) ==
  /\ HostCall
  /\ live' = Usable(s)
  /\ cfg' = Configured(s)
  /\ c' = Fresh(KeptFailures)
  /\ found' = IF live THEN found ELSE 0
  /\ deaf' = (live /\ deaf)

cadence_reset ==
  /\ live
  /\ HostCall
  /\ c' = Fresh(0)
  /\ found' = 0 /\ deaf' = FALSE
  /\ UNCHANGED << live, cfg >>

cadence_delete ==
  /\ live
  /\ HostCall
  /\ live' = FALSE
  /\ UNCHANGED << cfg, c, life >>

Init ==
  /\ live = FALSE /\ result = "NOTHING" /\ hostcalls = 0
  /\ cfg = Configured(CHOOSE s \in Setups : TRUE)
  /\ c = Fresh(0)
  /\ line \in Lines /\ sound = "ABSENT" /\ len = 0 /\ missed = 0
  /\ past = << >>
  /\ found = 0 /\ deaf = FALSE

Next ==
  \/ \E s \in Setups : cadence_create(s)
  \/ cadence_reset
  \/ cadence_delete
  \/ Interval
  \/ MidInterval

Spec == Init /\ [][Next]_vars

\* Samples keep coming.
FairSpec == Spec /\ WF_vars(Interval)

-----------------------------------------------------------------------------
(***************************************************************************)
(* Properties.                                                             *)
(***************************************************************************)

\* Types; the period arrays are never overrun.
TypeOK ==
  /\ live \in BOOLEAN
  /\ c \in [ state : {"TONE", "SILENCE"}, run : Nat, on : Seq(Nat), off : Seq(Nat),
             failures : 0 .. MaxFailures + 1 ]
  /\ Len(c.on) < MaxPeriods
  /\ Len(c.off) = IF c.state = "TONE" THEN Len(c.on) + 1 ELSE Len(c.on)
  /\ result \in {"NOTHING", "DETECTED", "RESTART"}
  /\ hostcalls \in 0 .. MaxHostCalls

\* A detector that has given up listens, and records nothing.
GaveUp == c.failures > MaxFailures => c.state = "SILENCE"

(***************************************************************************)
(* The periods that are compared belong to one stretch of tone: no silence *)
(* between two of them is longer than max_silence.                         *)
(***************************************************************************)
OneStretch ==
  /\ \A i \in 2 .. Len(c.off) : c.off[i] <= cfg.max_silence
  /\ c.state = "SILENCE" /\ c.on # << >> => c.run <= cfg.max_silence

\* What makes OneStretch inductive.
CadenceInv == TypeOK /\ OneStretch /\ GaveUp /\ cfg.max_silence \in Nat

(***************************************************************************)
(* What is recorded is what the line did, one interval short, but for the  *)
(* silence before the first burst; wraps, drops and restarts in mid-burst  *)
(* never pair a burst with another one's gap.                              *)
(***************************************************************************)
Measured ==
  LET m == Len(past) - (IF sound = "PRESENT" THEN 1 ELSE 0)
      n == Len(c.on)
  IN live /\ cfg.max_on # 0 => \A k \in 0 .. n - 1 :
       k < m => /\ c.on[n - k] = past[m - k].on - 1
                /\ k < n - 1 => c.off[n - k] = past[m - k].off - 1

(***************************************************************************)
(* A cadence is recognised only when the line has just ended a burst and a *)
(* gap within the windows, at least the second of its stretch.             *)
(***************************************************************************)
RhythmHeard ==
  [][result' = "DETECTED" /\ cfg.max_on # 0 =>
       LET p == past'[Len(past')]
       IN /\ Len(past') > 1
          /\ p.on - 1 \in cfg.min_on .. cfg.max_on
          /\ p.off - 1 \in cfg.min_off .. cfg.max_off]_vars

(***************************************************************************)
(* The failures of a detector are counted for its life, from cadence_reset *)
(* or the allocation of the object on, and a creation in place is no new   *)
(* life.  Every cadence it recognises has cost one of them, although it    *)
(* was a success, so that it recognises at most MaxFailures; and once it   *)
(* has reported CADENCE_RESTART it recognises nothing more.                *)
(***************************************************************************)
CountedForLife ==
  /\ found <= c.failures /\ found <= MaxFailures
  /\ deaf => result # "DETECTED"

\* A line that makes one burst and one gap, which fit the windows.
Steady ==
  \E b \in line.bursts, g \in line.gaps :
    /\ line.bursts = {b} /\ line.gaps = {g}
    /\ b - 1 \in cfg.min_on .. cfg.max_on
    /\ g - 1 \in cfg.min_off .. cfg.max_off

(***************************************************************************)
(* A steady tone within the windows is recognised by a detector that has   *)
(* no failures yet and is left alone, whatever silence came before it and  *)
(* wherever in a burst it was started.                                     *)
(***************************************************************************)
SteadyHeard ==
  live /\ Steady /\ c.failures = 0 /\ hostcalls = MaxHostCalls
    ~> result = "DETECTED"

=============================================================================
