------------------------------- MODULE Dialer -------------------------------
(***************************************************************************)
(* src/dialer/Dialer.c, the walk of a dial string by DialerProgress, and   *)
(* the pulse dialler of src/call/call.c that it polls.                     *)
(*                                                                         *)
(* A dial string is a sequence of one-character strings.  Positions count  *)
(* from 1, so that position 0 is before the string and Len + 1 is its NUL. *)
(* One step is one turn of DialerProgress's loop.  Of the audio only its   *)
(* length is kept.  DP_ADDR always holds a call object, and the country's  *)
(* pulse pattern is one of the three that pulse_count knows.               *)
(***************************************************************************)
EXTENDS Integers, Sequences, FiniteSetsExt, SequencesExt

CONSTANTS
  BlockSamples,          \* room of one buffer
  SamplesPerMs,          \* 8
  DTMFDialSpeed,         \* tone time and gap of DTMF, in ms
  PulseBetweenDigits,    \* gap after a pulsed digit, in units of 10 ms
  SamplesPerSecond,      \* 8000
  Pause,                 \* seconds of one comma, and the cap on a run of them
  PauseLimit,
  PulseBreak, PulseMake, \* ms
  HookFlash,             \* units of 10 ms
  Tick,                  \* PULSE_TICK_MS
  MaxString,             \* DIALER_MAX_STRING
  Countries,             \* the flags of a country's configuration
  Strings                \* the dial strings the host may set

ASSUME DialerAssumption ==
  /\ {BlockSamples, SamplesPerMs, DTMFDialSpeed, Tick, MaxString} \subseteq Nat \ {0}
  /\ {PulseBetweenDigits, Pause, PauseLimit, SamplesPerSecond,
       PulseBreak, PulseMake, HookFlash} \subseteq Nat
  /\ Strings \subseteq Seq(STRING)
  /\ Countries # {}
  /\ \A c \in Countries :
       /\ {c.tone, c.validation, c.abcd, c.mixed} \subseteq BOOLEAN
       /\ c.calling \in Nat /\ c.pattern \in 1 .. 3

VARIABLES
  live,                                     \* between Create and Abort
  country,                                  \* the flags of struct dialer_cfg
  string, last_digit, grade,
  tone,                                     \* cfg.tone_or_pulse
  dtmf_duration,
  pos, digit, progress_state, silence,
  pulse_started, pulse_active, pulse_released,
  pulse,                                    \* the call object's pulse fields
  hook_on, pulse_dial,                      \* the host's two parameters
  running, at,                              \* DialerProgress: inside, and *pos
  code,                                     \* what it last returned
  gap_due,      \* history: a digit has sounded and no pause followed it yet
  breaks,       \* history: breaks of the line since PulseDialDigit
  broken        \* history: ms the line has been interrupted, or was last

dialer == << string, last_digit, grade, tone, dtmf_duration, pos, digit,
             progress_state, silence >>
handshake == << pulse_started, pulse_active, pulse_released >>
line == << pulse, hook_on, breaks, broken >>
vars == << live, country, dialer, handshake, line, pulse_dial, running, at,
           code, gap_due >>

-----------------------------------------------------------------------------
(***************************************************************************)
(* AnalyseDialString.                                                      *)
(***************************************************************************)
Digits == {"0", "1", "2", "3", "4", "5", "6", "7", "8", "9"}
ABCD   == {"A", "B", "C", "D"}
Legal  == Digits \cup ABCD \cup
          {"*", "#", "!", " ", "$", "(", ")", ",", "-", "@", "W", "T", "P", "^", ";"}

\* The analyser with the keys no pulse can send left out.
DialableDigits(c, s, i) == s[i] \in Digits \cup {"!"}

\* Something will be sent for this one.
Dialable(c, s, i) ==
  \/ s[i] \in Digits \cup {"*", "#", "!"}
  \/ s[i] \in ABCD /\ ~c.abcd

Illegal(c, s, i) ==
  \/ s[i] \notin Legal
  \/ s[i] \in ABCD /\ c.abcd
  \/ s[i] \in {"T", "P"} /\ s[i] # s[1] /\ c.mixed
  \/ s[i] = "^" /\ c.calling = 2
  \/ s[i] = ";" /\ i # Len(s)

LastDigit(c, s) ==
  IF Len(s) \in 1 .. MaxString /\ s[1] \in {"T", "P"}
    THEN Max({-1} \cup {i \in 2 .. Len(s) : Dialable(c, s, i)})
    ELSE -1

NONE == -1               \* no string analysed yet: one call per behaviour
FATAL == 0
INVALID == 1
TOLERABLE == 2
VALID == 3

AnalyseDialString(c, s) ==
  CASE Len(s) > MaxString -> FATAL
    [] Len(s) = 0 -> VALID
    [] Len(s) \in 1 .. MaxString /\ s[1] \notin {"T", "P"} -> INVALID
    [] OTHER -> IF \E i \in 2 .. Len(s) : Illegal(c, s, i)
                  THEN IF c.validation THEN TOLERABLE ELSE INVALID
                  ELSE VALID

-----------------------------------------------------------------------------
(***************************************************************************)
(* GetNextDigitAndReturnNextState.                                         *)
(***************************************************************************)

\* Tone or pulse when position i is looked at: the last mode letter before it,
\* or the first one where the country forbids a switch.
ToneAt(c, s, i) ==
  s[IF c.mixed THEN 1 ELSE Max({j \in 1 .. i - 1 : s[j] \in {"T", "P"}})] = "T"

\* The walk with `;' taken wherever it stands.
StateForAny(c, s, i) ==
  CASE s[i] \in Digits -> 1
    [] s[i] \in {"*", "#"} /\ ToneAt(c, s, i) -> 1
    [] s[i] \in ABCD /\ ~c.abcd /\ ToneAt(c, s, i) -> 1
    [] s[i] = "!" -> 3
    [] s[i] = "," /\ (i = Len(s) \/ s[i + 1] # ",") -> 4
    [] s[i] = "W" -> 5
    [] s[i] = "@" -> 6
    [] s[i] = "$" -> 7
    [] s[i] = "^" /\ c.calling \in {1, 3} -> 8
    [] s[i] = ";" -> 9
    [] OTHER -> 0

\* What a character asks for: the generator's state number, 0 for nothing.
StateFor(c, s, i) ==
  CASE s[i] \in Digits -> 1
    [] s[i] \in {"*", "#"} /\ ToneAt(c, s, i) -> 1
    [] s[i] \in ABCD /\ ~c.abcd /\ ToneAt(c, s, i) -> 1
    [] s[i] = "!" -> 3
    [] s[i] = "," /\ (i = Len(s) \/ s[i + 1] # ",") -> 4
    [] s[i] = "W" -> 5
    [] s[i] = "@" -> 6
    [] s[i] = "$" -> 7
    [] s[i] = "^" /\ c.calling \in {1, 3} -> 8
    [] s[i] = ";" /\ i = Len(s) -> 9
    [] OTHER -> 0

\* The next position that means something; the NUL asks for state 10.
NextPos(c, s, i) ==
  Min({Len(s) + 1} \cup {j \in i + 1 .. Len(s) : j > 1 /\ StateFor(c, s, j) # 0})

\* How many commas a pause stands for.
Repeat(s, i, j) == 1 + Cardinality({k \in i + 1 .. j - 1 : s[k] = ","})

\* The gaps that follow a digit, in ms and in samples.
PulseGap == PulseBetweenDigits * 10

dial_gap == (IF tone THEN DTMFDialSpeed ELSE PulseGap) * SamplesPerMs

\* begin_next: choose the next thing to do, and prepare it.  owed and started
\* are the silence and pulse_started that the caller leaves.
begin_next(owed, started) ==
  LET j    == NextPos(country, string, pos)
      atEnd == j > Len(string)
      next == IF atEnd THEN 10 ELSE StateFor(country, string, j)
      t    == IF j > 1 THEN ToneAt(country, string, j) ELSE tone
  IN /\ pos' = j
     /\ progress_state' = next
     /\ tone' = t
     /\ digit' = IF next = 1 THEN string[j] ELSE digit
     /\ silence' = CASE next = 1 /\ t -> dtmf_duration * SamplesPerMs
                     [] next = 4 -> Min({Repeat(string, pos, j) * Pause, PauseLimit})
                                   * SamplesPerSecond
                     [] OTHER -> owed
     /\ pulse_started' = (started /\ ~(next = 3 \/ (next = 1 /\ ~t)))
     /\ UNCHANGED << string, last_digit, grade, dtmf_duration >>

\* digit_finished: no gap after the last digit.
digit_finished(owed, started) ==
  IF pos = last_digit THEN begin_next(owed, started) /\ gap_due' = TRUE
  ELSE /\ silence' = dial_gap
       /\ progress_state' = 2
       /\ gap_due' = TRUE
       /\ pulse_started' = started
       /\ UNCHANGED << string, last_digit, grade, tone, dtmf_duration, pos, digit >>

-----------------------------------------------------------------------------
(***************************************************************************)
(* The pulse dialler.                                                      *)
(***************************************************************************)

\* row * 3 + col of a digit on the keypad.
KeyOf ==
  [ d \in Digits |->
      CASE d = "1" -> 0 [] d = "2" -> 1 [] d = "3" -> 2
        [] d = "4" -> 3 [] d = "5" -> 4 [] d = "6" -> 5
        [] d = "7" -> 6 [] d = "8" -> 7 [] d = "9" -> 8
        [] d = "0" -> 10 ]

\* Pulses of a digit under the country's pattern.
pulse_count(c, d) ==
  LET n == KeyOf[d]
  IN CASE c.pattern = 1 -> IF n = 10 THEN 10 ELSE n + 1
       [] c.pattern = 2 -> IF n = 10 THEN 1 ELSE n + 2
       [] c.pattern = 3 -> IF n = 10 THEN 10 ELSE 10 - (n + 1)

\* IsPulseDialerReady that counts a pulse when its break is over.
PolledEarly(p) ==
  CASE p.remaining = 0 -> p
    [] p.remaining # 0 /\ p.elapsed < p.break ->
         [p EXCEPT !.off_hook = TRUE, !.elapsed = @ + Tick]
    [] OTHER ->
         [p EXCEPT !.remaining = @ - 1, !.elapsed = Tick]

(***************************************************************************)
(* IsPulseDialerReady on the call object: one tick of the pulse in         *)
(* progress.  The line moves on a change of off_hook only, and a pulse     *)
(* after the first starts with a tick already counted.                     *)
(***************************************************************************)
Polled(p) ==
  CASE p.remaining = 0 -> p
    [] p.remaining # 0 /\ p.elapsed < p.break /\ ~p.off_hook ->
         [p EXCEPT !.off_hook = TRUE, !.elapsed = @ + Tick]
    [] p.remaining # 0 /\ p.elapsed >= p.break /\ p.off_hook ->
         [p EXCEPT !.off_hook = FALSE, !.elapsed = @ + Tick]
    [] OTHER ->
         IF p.elapsed < p.break + p.make THEN [p EXCEPT !.elapsed = @ + Tick]
         ELSE [p EXCEPT !.remaining = @ - 1, !.elapsed = Tick]

Ready(p) == p.remaining = 0

\* SetPulseMakeTime and SetPulseBreakTime, for digits and for a hook flash.
DigitTimes(p) == [p EXCEPT !.make = PulseMake, !.break = PulseBreak]
FlashTimes(p) == [p EXCEPT !.make = 0, !.break = HookFlash * 10]

\* PulseDialDigit.
Loaded(p, n) == [p EXCEPT !.remaining = IF n = 0 THEN 10 ELSE n, !.elapsed = 0]

\* A digit or a flash that is not under way is loaded into a ready dialler.
Loads(p0) == ~pulse_started /\ Ready(Polled(p0))

\* The call object after a turn with the pulse dialler: n pulses are loaded
\* once, then one tick.
Advanced(p0, n) == Polled(IF Loads(p0) THEN Loaded(Polled(p0), n) ELSE p0)

\* Such a turn ends the digit or flash.
Finished(p0, n) == (pulse_started \/ Loads(p0)) /\ Ready(Advanced(p0, n))

\* What the host and the line see of it.
LineMoves(p0, n) ==
  LET first == Loads(p0)
      off   == Advanced(p0, n).off_hook
  IN /\ hook_on' = off
     /\ pulse_dial' = IF first THEN Loaded(p0, n).remaining ELSE pulse_dial
     /\ breaks' = (IF first THEN 0 ELSE breaks)
                    + (IF off /\ ~hook_on THEN 1 ELSE 0)
     /\ broken' = CASE off /\ ~hook_on -> 0
                    [] hook_on -> broken + Tick
                    [] OTHER -> broken

-----------------------------------------------------------------------------
(***************************************************************************)
(* DialerCreate, DialerAbort and the turns of DialerProgress.              *)
(***************************************************************************)

\* dtmf_duration once the NUL of a string as long as its buffer is written
\* behind it: the low byte of the tone time is 0.
LowByteCleared == (DTMFDialSpeed \div 256) * 256

\* call_dial_string and DialerCreate: the configuration, then the string.
DialerCreate(c, s) ==
  /\ grade = NONE
  /\ live' = TRUE
  /\ country' = c
  /\ grade' = AnalyseDialString(c, s)
  /\ string' = IF grade' <= INVALID THEN string ELSE s
  /\ last_digit' = LastDigit(c, s)
  /\ dtmf_duration' = IF grade' > INVALID /\ Len(s) = MaxString THEN LowByteCleared
                      ELSE DTMFDialSpeed
  /\ tone' = c.tone
  /\ pos' = 0 /\ progress_state' = 0 /\ silence' = 0
  /\ pulse_started' = FALSE /\ pulse_active' = FALSE /\ pulse_released' = FALSE
  /\ pulse' = DigitTimes(pulse)
  /\ UNCHANGED << digit, hook_on, breaks, broken, pulse_dial,
                  running, at, code, gap_due >>

\* Tell the host the pulse dialler has finished, once.
Released ==
  IF ~pulse_released /\ pulse_active
    THEN pulse_dial' = 0 /\ pulse_released' = TRUE
    ELSE UNCHANGED << pulse_dial, pulse_released >>

\* CALLPROG_Delete between two calls of DialerProgress.
DialerAbort ==
  /\ live /\ ~running
  /\ live' = FALSE
  /\ Released
  /\ UNCHANGED << country, dialer, pulse_started, pulse_active, line, running,
                  at, code, gap_due >>

\* CALLPROG_Progress calls for a new buffer, or for the rest of one after `^'.
DialerProgress ==
  /\ live /\ ~running /\ grade > INVALID
  /\ running' = TRUE
  /\ at' = IF code = "CALLING_TONE" THEN at ELSE 0
  /\ UNCHANGED << live, country, dialer, handshake, line, pulse_dial, code,
                  gap_due >>

Return(c) == running' = FALSE /\ code' = c

Full ==
  /\ running /\ at >= BlockSamples
  /\ Return("BUSY")
  /\ UNCHANGED << live, country, dialer, handshake, line, pulse_dial, at,
                  gap_due >>

Turn(s) == running /\ at < BlockSamples /\ progress_state = s

InitialState ==
  /\ Turn(0)
  /\ begin_next(silence, pulse_started)
  /\ UNCHANGED << live, country, pulse_active, pulse_released, line,
                  pulse_dial, running, at, code, gap_due >>

\* A stretch of audio that starts again in every buffer.
OwedAfresh(owed) == owed

\* What is left of a stretch of audio that overflows this buffer.
Owed(owed) == owed - (BlockSamples - at)

Overflows(owed) == owed > BlockSamples - at

\* A DTMF digit.  The pulse dialler is let go of first; no tone time never ends.
ToneDigit ==
  /\ Turn(1) /\ tone
  /\ pulse_active' = (pulse_active /\ pulse_released)
  /\ Released
  /\ IF dtmf_duration = 0 \/ Overflows(silence)
       THEN /\ silence' = IF dtmf_duration = 0 THEN silence ELSE Owed(silence)
            /\ at' = BlockSamples
            /\ UNCHANGED << string, last_digit, grade, tone, dtmf_duration, pos,
                            digit, progress_state, pulse_started, gap_due >>
       ELSE /\ at' = at + silence
            /\ digit_finished(0, pulse_started)
  /\ UNCHANGED << live, country, line, running, code >>

PulseDigit ==
  /\ Turn(1) /\ ~tone
  /\ LET n == pulse_count(country, digit)
     IN /\ pulse' = Advanced(pulse, n)
        /\ LineMoves(pulse, n)
        /\ IF Finished(pulse, n)
             THEN /\ digit_finished(silence, FALSE)
                  /\ pulse_released' = FALSE /\ pulse_active' = TRUE
                  /\ UNCHANGED at
             ELSE /\ at' = BlockSamples
                  /\ pulse_started' = (pulse_started \/ Loads(pulse))
                  /\ UNCHANGED << dialer, pulse_active, pulse_released, gap_due >>
  /\ UNCHANGED << live, country, running, code >>

\* The gap after a digit and the pause of a run of commas.
Gap ==
  /\ Turn(2) \/ Turn(4)
  /\ IF Overflows(silence)
       THEN /\ silence' = Owed(silence)
            /\ at' = BlockSamples
            /\ UNCHANGED << string, last_digit, grade, tone, dtmf_duration,
                            pos, digit, progress_state, pulse_started, gap_due >>
       ELSE /\ at' = at + silence
            /\ gap_due' = FALSE
            /\ begin_next(0, pulse_started)
  /\ UNCHANGED << live, country, pulse_active, pulse_released, line,
                  pulse_dial, running, code >>

\* A hook flash: one long break, with the dialler's times put back after it.
Flash ==
  /\ Turn(3)
  /\ LET p == IF pulse_started THEN pulse ELSE FlashTimes(pulse)
     IN /\ LineMoves(p, 1)
        /\ IF Finished(p, 1)
             THEN /\ pulse' = DigitTimes(Advanced(p, 1))
                  /\ pulse_started' = FALSE
                  /\ pulse_released' = FALSE /\ pulse_active' = TRUE
                  /\ progress_state' = 2
                  /\ silence' = PulseGap * SamplesPerMs
                  /\ UNCHANGED at
             ELSE /\ pulse' = Advanced(p, 1)
                  /\ at' = BlockSamples
                  /\ pulse_started' = (pulse_started \/ Loads(p))
                  /\ UNCHANGED << pulse_active, pulse_released, progress_state,
                                  silence >>
  /\ UNCHANGED << live, country, string, last_digit, grade, tone,
                  dtmf_duration, pos, digit, running, code, gap_due >>

\* The code a modifier's state returns.
CodeFor(state) ==
  CASE state = 5 -> "WAIT_DIALTONE"
    [] state = 6 -> "WAIT_ANSWER"
    [] state = 7 -> "WAIT_BONG"
    [] state = 8 -> "CALLING_TONE"
    [] state = 9 -> "COMMAND"
    [] state = 10 -> "DONE"

Modifier ==
  /\ \E state \in 5 .. 8 : Turn(state)
  /\ Return(CodeFor(progress_state))
  /\ progress_state' = 0
  /\ UNCHANGED << live, country, string, last_digit, grade, tone,
                  dtmf_duration, pos, digit, silence, handshake, line,
                  pulse_dial, at, gap_due >>

\* `;' and the end of the string, which are reported for ever.
Stop ==
  /\ Turn(9) \/ Turn(10)
  /\ Released
  /\ Return(CodeFor(progress_state))
  /\ UNCHANGED << live, country, dialer, pulse_started, pulse_active, line, at,
                  gap_due >>

Init ==
  /\ live = FALSE /\ running = FALSE /\ code = "NONE"
  /\ country = CHOOSE c \in Countries : TRUE
  /\ string = << >> /\ last_digit = -1 /\ grade = NONE /\ tone = FALSE
  /\ dtmf_duration = 0 /\ pos = 0 /\ digit = "1" /\ progress_state = 0
  /\ silence = 0
  /\ pulse_started = FALSE /\ pulse_active = FALSE /\ pulse_released = FALSE
  /\ pulse = [remaining |-> 0, elapsed |-> 0, off_hook |-> FALSE,
              break |-> 0, make |-> 0]
  /\ hook_on = FALSE /\ pulse_dial = 0 /\ at = 0
  /\ gap_due = FALSE /\ breaks = 0 /\ broken = 0

Progress ==
  \/ DialerProgress \/ Full \/ InitialState \/ ToneDigit \/ PulseDigit
  \/ Gap \/ Flash \/ Modifier \/ Stop

Next ==
  \/ \E c \in Countries, s \in Strings : DialerCreate(c, s)
  \/ DialerAbort
  \/ Progress

Spec == Init /\ [][Next]_vars

\* The supervisor keeps asking for audio.
FairSpec == Spec /\ WF_vars(Progress)

-----------------------------------------------------------------------------
(***************************************************************************)
(* Properties.                                                             *)
(***************************************************************************)

\* Types; a pulse train is never longer than the ten pulses of a digit.
TypeOK ==
  /\ {live, tone, pulse_started, pulse_active, pulse_released, hook_on, running,
      gap_due} \subseteq BOOLEAN
  /\ country \in Countries
  /\ string \in Strings \cup {<< >>}
  /\ last_digit \in -1 .. MaxString /\ grade \in NONE .. VALID
  /\ dtmf_duration \in Nat /\ silence \in Nat
  /\ pos \in 0 .. MaxString + 1
  /\ digit \in Digits \cup ABCD \cup {"*", "#"}
  /\ progress_state \in 0 .. 10
  /\ pulse.remaining \in 0 .. 10 /\ pulse.elapsed \in Nat
  /\ pulse.off_hook = hook_on
  /\ pulse_dial \in 0 .. 10
  /\ at \in 0 .. BlockSamples

(***************************************************************************)
(* Digits never run together: AnalyseDialString and the walk agree which   *)
(* character is the last to be sent, so that leaving out its gap never     *)
(* leaves out one between two digits.                                      *)
(***************************************************************************)
GapBetweenDigits == progress_state = 1 => ~gap_due

\* The pulses a digit stands for: most of the world, Sweden, New Zealand.
Value == [d \in Digits |-> (KeyOf[d] + 1) % 11]
Pulses(pattern, v) ==
  CASE pattern = 1 -> IF v = 0 THEN 10 ELSE v
    [] pattern = 2 -> v + 1
    [] pattern = 3 -> 10 - v

\* A pulsed digit breaks the line exactly as often as its country's dial
\* says, whatever buffers the polls of IsPulseDialerReady fall into.
PulseCount ==
  progress_state = 1 /\ ~tone /\ progress_state' # 1
       => breaks' = Pulses(country.pattern, Value[digit])

\* A break lasts its time to within one tick, flashes included, and the
\* times of a flash are never those of a digit.
BreakLength ==
  hook_on /\ ~hook_on' =>
       LET due == IF progress_state = 3 THEN HookFlash * 10 ELSE PulseBreak
       IN due - Tick <= broken' /\ broken' < due + Tick

(***************************************************************************)
(* What the exchange hears of a pulsed digit is what its country's dial    *)
(* makes: the number of breaks and the length of each, whatever buffers    *)
(* the polls fall into and whatever flash came before.                     *)
(***************************************************************************)
PulsesRight == [][PulseCount /\ BreakLength]_vars

(***************************************************************************)
(* Once the string has been dialled, the host has been told that the pulse *)
(* dialler is finished, and the line is whole.                             *)
(***************************************************************************)
EndReleases == live /\ code \in {"COMMAND", "DONE"} => pulse_dial = 0 /\ ~hook_on

(***************************************************************************)
(* The safety of the dialler: its types, no two digits run together, and   *)
(* a line that is whole and a host that knows it when the string is over.  *)
(***************************************************************************)
DialerInv == TypeOK /\ GapBetweenDigits /\ EndReleases

\* What a string reports from position i on, when rest is what it reports after
\* it: the modifiers that the country has, and the end.
Reported(c, s, i, rest) ==
  IF i > Len(s) THEN << "DONE" >>
  ELSE CASE s[i] = ";" /\ i = Len(s) -> << "COMMAND" >>
         [] s[i] = "W" -> << "WAIT_DIALTONE" >> \o rest
         [] s[i] = "@" -> << "WAIT_ANSWER" >> \o rest
         [] s[i] = "$" -> << "WAIT_BONG" >> \o rest
         [] s[i] = "^" /\ c.calling \in {1, 3} -> << "CALLING_TONE" >> \o rest
         [] OTHER -> rest

\* The script of a dial string, from each of its positions.
Script(c, s) ==
  LET from[i \in 1 .. Len(s) + 1] == Reported(c, s, i, from[i + 1])
  IN from

AllScripts == {Script(c, s)[1] : c \in Countries, s \in Strings}

\* An accepted string is being dialled; a modifier is chosen before it is
\* reported.
Dialling == live /\ grade > INVALID
ToReport ==
  IF Dialling THEN Script(country, string)[IF progress_state \in 5 .. 10 THEN pos ELSE pos + 1]
  ELSE << >>

Dial == INSTANCE DialScript WITH
  live <- Dialling, todo <- ToReport, code <- code, Scripts <- AllScripts

(***************************************************************************)
(* The dialler is the script CallProg takes it for: every modifier is      *)
(* reported once and in order, whatever is dialled in between.             *)
(***************************************************************************)
ScriptFollowed == Dial!Spec

(***************************************************************************)
(* An accepted string is dialled to its end in finitely many buffers.  One *)
(* exception, and no other: a string as long as its buffer has cleared the *)
(* tone time with its NUL (see StringInBounds), and the first DTMF digit   *)
(* it comes to, if any, sounds until the call is given up.                 *)
(***************************************************************************)
EndlessTone ==
  /\ Len(string) = MaxString
  /\ progress_state = 1 /\ tone /\ dtmf_duration = 0

DialEnds ==
  live /\ grade > INVALID ~>
    ~live \/ code \in {"COMMAND", "DONE"} \/ EndlessTone

-----------------------------------------------------------------------------
(***************************************************************************)
(* What the comments and headers say of the dialler, checked on its own.   *)
(***************************************************************************)

\* The length check keeps the string inside its buffer, NUL included.
StringInBounds == Len(string) + 1 <= MaxString

=============================================================================
