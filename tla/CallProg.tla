------------------------------ MODULE CallProg ------------------------------
(***************************************************************************)
(* src/callprog/Callprog.c, the call-progress supervisor, with the block   *)
(* function of src/call/call.c that turns its messages into a status.      *)
(*                                                                         *)
(* One block of BlockSamples samples is one CALLPROG_Progress call: Begin, *)
(* a Sample step for each sample, then one of the finishing actions, which *)
(* end with the commit of the requested transition.  The line is a choice: *)
(* which cadence detector fires on which sample, whether an answer tone or *)
(* silence was heard, and how many blocks the dialler needs.  The dialler  *)
(* is the sequence `todo' of the codes it has still to report.  What goes  *)
(* out on the line (calling tone, digits or silence) is left out.          *)
(***************************************************************************)
EXTENDS Integers, Sequences

CONSTANTS
  SampleRate,          \* samples of one second of timeout (8000)
  BlockSamples,        \* samples of one block (CALL_BLOCK_SAMPLES)
  AnswerBlocks,        \* CALLPROG_ANSWER_SAMPLES / count
  NoAnswerTimeOut,     \* host parameters, in seconds
  BlindDialPause,
  DialToneWait,        \* GetDialToneWaitTime and the validation time
  BongTimeOut,         \* default_configuration[6]
  Modes,               \* values cfg->w0 may have: TRUE dials blind
  Scripts              \* what the dial strings make the dialler report

ASSUME TimingAssumption ==
  /\ SampleRate \in Nat \ {0}
  /\ BlockSamples \in Nat \ {0}
  /\ AnswerBlocks \in Nat \ {0}
  /\ NoAnswerTimeOut \in Nat
  /\ BlindDialPause \in Nat
  /\ DialToneWait \in Nat
  /\ BongTimeOut \in Nat
  /\ Modes \subseteq BOOLEAN

\* The states, CPSTATE_* in callprog_state.h.
WAIT_DIAL      == 1
DIALING        == 2
WAIT_RING      == 3
WAIT_TO_ANSWER == 4
ANSWER_STATE   == 5
END            == 6
END_PARTIALLY  == 7
WFS            == 8
BONGTONE       == 9
States == 0 .. 9

\* The detectors' verdicts, CPTD_*.
Verdicts == {"NONE", "DIAL_TONE", "BUSY", "GIVE_UP"}

\* The codes DialerProgress can end a buffer with, BUSY apart.
DialerStops == {"WAIT_DIALTONE", "WAIT_ANSWER", "WAIT_BONG", "COMMAND", "DONE"}
DialerCodes == DialerStops \cup {"CALLING_TONE"}

\* A dial string is accepted, and ends with the code it then keeps reporting.
ASSUME ScriptAssumption ==
  \A s \in Scripts :
    /\ s \in Seq(DialerCodes)
    /\ Len(s) > 0
    /\ s[Len(s)] \in {"COMMAND", "DONE"}

Messages ==
  { "NO_MESSAGE", "NO_RING", "NO_DIAL_TONE", "DIALING", "END_DIALING",
    "RINGBACK", "NO_ANSWER", "ANSWER", "BUSY", "ERROR",
    "ANSWER_STATE_TIMEOUT", "END_DIALING_PARTIALLY", "DUALTONE_A",
    "DUALTONE_B" }

Answers == {"ANSWER", "DUALTONE_A", "DUALTONE_B"}

VARIABLES
  live,          \* a call object exists
  blind,         \* cp->blind_dial
  tables,        \* the entries of the static tables that Dial rewrites
  state, last_state, countdown, message, quiet_count,
  age,           \* history: samples the running timeout has counted
  pending,       \* the state asked for in this block, 0 for none
  gave_up,       \* the busy detector's failure count has passed its limit
  fatal,         \* cp->fatal: the dial string was rejected
  todo,          \* the codes the dialler has still to report
  pc,            \* where CALLPROG_Progress is
  done,          \* samples of the block judged so far
  event,         \* the local verdict, kept from sample to sample
  report,        \* the local message
  happened,      \* history: verdicts and timeouts of the current block
  answered,      \* call_dp's latch
  status         \* what the last block returned to the host

block == << pc, done, event, report, happened, pending >>
host  == << answered, status >>
vars  == << live, blind, tables, state, last_state, countdown, age, message,
            quiet_count, gave_up, fatal, todo, block, host >>

-----------------------------------------------------------------------------
(***************************************************************************)
(* The tables.                                                             *)
(***************************************************************************)

\* The tables when Dial forgets to undo what a blind call left in them.
TablesKept(w0) ==
  [ timeout  |-> [s \in States |-> IF s \in {DIALING, END, END_PARTIALLY, 0}
                                     THEN 0 ELSE NoAnswerTimeOut],
    next1    |-> DIALING,
    message1 |-> "DIALING",
    dialtone |-> IF w0 THEN {} ELSE {WAIT_DIAL, DIALING},
    busy     |-> IF w0 THEN States \ {WAIT_DIAL, DIALING} ELSE States ]

\* What CALLPROG_Dial leaves in the tables that are not constant.
Tables(w0) ==
  [ timeout  |-> [s \in States |->
                    CASE s = WAIT_DIAL -> IF w0 THEN BlindDialPause
                                                ELSE DialToneWait
                      [] s \in {WAIT_RING, WAIT_TO_ANSWER, ANSWER_STATE, WFS}
                           -> NoAnswerTimeOut
                      [] s = BONGTONE -> BongTimeOut
                      [] OTHER -> 0],
    next1    |-> IF w0 THEN DIALING ELSE END,
    message1 |-> IF w0 THEN "DIALING" ELSE "NO_DIAL_TONE",
    dialtone |-> IF w0 THEN {} ELSE {WAIT_DIAL, DIALING},
    busy     |-> IF w0 THEN States \ {WAIT_DIAL, DIALING} ELSE States ]

TimedStates == {WAIT_DIAL, WAIT_RING, WAIT_TO_ANSWER, ANSWER_STATE, WFS, BONGTONE}

next_state_due_timeout(s) ==
  CASE s = WAIT_DIAL -> tables.next1
    [] s \in TimedStates \ {WAIT_DIAL} -> END
    [] OTHER -> 0

\* The timeout messages with the one for `@' never assigned.
message_due_timeout_NoWFS(s) ==
  CASE s = WAIT_DIAL -> tables.message1
    [] s = WAIT_RING -> "NO_RING"
    [] s = WAIT_TO_ANSWER -> "NO_ANSWER"
    [] s = ANSWER_STATE -> "ANSWER_STATE_TIMEOUT"
    [] OTHER -> "NO_MESSAGE"

message_due_timeout(s) ==
  CASE s = WAIT_DIAL -> tables.message1
    [] s = WAIT_RING -> "NO_RING"
    [] s = WAIT_TO_ANSWER -> "NO_ANSWER"
    [] s = ANSWER_STATE -> "ANSWER_STATE_TIMEOUT"
    [] s = WFS -> "BUSY"
    [] OTHER -> "NO_MESSAGE"

\* The columns of next_state_due_cptd that detect can produce.
next_state_due_cptd(s, e) ==
  CASE e = "BUSY" -> END
    [] e = "DIAL_TONE" /\ s = WAIT_DIAL -> DIALING
    [] e = "DIAL_TONE" /\ s \in {WAIT_RING, WAIT_TO_ANSWER, ANSWER_STATE} -> END
    [] OTHER -> 0

message_due_cptd(s, e) ==
  CASE e = "BUSY" -> "BUSY"
    [] e = "DIAL_TONE" /\ s = WAIT_DIAL -> "DIALING"
    [] e = "DIAL_TONE" /\ s \in {WAIT_RING, WAIT_TO_ANSWER, ANSWER_STATE} -> "ERROR"
    [] OTHER -> "NO_MESSAGE"

automode == {WAIT_RING, WAIT_TO_ANSWER, ANSWER_STATE}

\* call_status.
call_status(m) ==
  CASE m \in {"NO_RING", "NO_ANSWER", "ANSWER_STATE_TIMEOUT"} -> "NOANSWER"
    [] m = "NO_DIAL_TONE" -> "NODIALTONE"
    [] m = "BUSY" -> "BUSY"
    [] m = "ERROR" -> "ERROR"
    [] m \in Answers -> "CHANGEDP"
    [] OTHER -> "OK"

-----------------------------------------------------------------------------
(***************************************************************************)
(* call_create, which creates the supervisor and dials, and call_delete.   *)
(***************************************************************************)

CallCreate(w0, script, ok) ==
  /\ ~live
  /\ live' = TRUE
  /\ blind' = w0
  /\ tables' = Tables(w0)
  /\ state' = WAIT_DIAL
  /\ last_state' = 0
  /\ countdown' = Tables(w0).timeout[WAIT_DIAL] * SampleRate
  /\ age' = 0
  /\ message' = "NO_MESSAGE"
  /\ quiet_count' = 0
  /\ gave_up' = FALSE
  /\ fatal' = ~ok
  /\ todo' = script
  /\ pc' = "idle" /\ done' = 0 /\ event' = "NONE" /\ report' = "NO_MESSAGE"
  /\ happened' = {} /\ pending' = 0
  /\ answered' = FALSE /\ status' = "OK"

CallDelete ==
  /\ live /\ pc = "idle"
  /\ live' = FALSE
  /\ UNCHANGED << blind, tables, state, last_state, countdown, age, message,
                  quiet_count, gave_up, fatal, todo, block, host >>

-----------------------------------------------------------------------------
(***************************************************************************)
(* One block.                                                              *)
(***************************************************************************)

supervisor == << blind, tables, state, last_state, countdown, age, message,
                 quiet_count, gave_up, fatal, todo >>

\* call_block once somebody has answered: silence, and nothing to report.
AnsweredBlock ==
  /\ live /\ pc = "idle" /\ answered
  /\ status' = "OK"
  /\ UNCHANGED << live, supervisor, block, answered >>

\* A rejected dial string: the request is recorded and never committed.
FatalBlock ==
  /\ live /\ pc = "idle" /\ ~answered /\ fatal
  /\ status' = call_status("ERROR")
  /\ pending' = END
  /\ event' = "NONE" /\ happened' = {}
  /\ UNCHANGED << live, supervisor, pc, done, report, answered >>

Begin ==
  /\ live /\ pc = "idle" /\ ~answered /\ ~fatal
  /\ pc' = "samples"
  /\ done' = 0 /\ event' = "NONE" /\ report' = "NO_MESSAGE"
  /\ pending' = 0 /\ happened' = {}
  /\ UNCHANGED << live, supervisor, host >>

\* request_state: the first request of a block wins, and staying is no request.
Request(asked, next) ==
  IF asked # 0 \/ next = 0 \/ last_state = next THEN asked ELSE next

\* A busy verdict that, like dial tone, is only taken when it is the first.
DetectFirst(dial, busy) ==
  CASE event # "NONE" -> event
    [] event = "NONE" /\ busy # "NONE" -> busy
    [] event = "NONE" /\ busy = "NONE" /\ dial -> "DIAL_TONE"
    [] OTHER -> "NONE"

(***************************************************************************)
(* detect: dial tone is asked first and only while nothing has been heard; *)
(* a busy verdict replaces it.  dial and busy are what the two cadence     *)
(* detectors say of this sample.                                           *)
(***************************************************************************)
Detect(dial, busy) ==
  CASE busy # "NONE" -> busy
    [] busy = "NONE" /\ dial /\ event = "NONE" -> "DIAL_TONE"
    [] OTHER -> event

(***************************************************************************)
(* What cadence_progress may say in this state.  The failure count is only *)
(* cleared by cadence_reset, which the busy detector never gets, so giving *)
(* up is for good; and its verdicts come 160 samples apart, further than a *)
(* block, so no block holds two of them.                                   *)
(***************************************************************************)
MayDial == IF state \in tables.dialtone THEN BOOLEAN ELSE {FALSE}
MayBusy == IF state \notin tables.busy THEN {"NONE"}
           ELSE IF gave_up THEN {"GIVE_UP"}
           ELSE IF "BUSY" \in happened THEN {"NONE"}
           ELSE {"NONE", "BUSY", "GIVE_UP"}

\* A wait for silence that is exempt from its timeout too.
TimedOutNotWFS(left) == left = 0 /\ state \notin {DIALING, END_PARTIALLY, WFS}

\* run_timeouts fires: states 2 and 7 last as long as they last.
TimedOut(left) == left = 0 /\ state \notin {DIALING, END_PARTIALLY}

\* The terminal state without its repetition.
SampleMessageFresh(said, timedOut) ==
  IF timedOut THEN message_due_timeout(state) ELSE said

\* The message of a sample, once the timeout has had its say.
\* In the terminal state the previous message is repeated.
SampleMessage(said, timedOut) ==
  IF state = END THEN message
  ELSE IF timedOut THEN message_due_timeout(state) ELSE said

\* The countdown after a sample: it stops at zero, and at -10 once fired.
Ticked(left, timedOut) ==
  IF left > 0 THEN left - 1 ELSE IF timedOut THEN -10 ELSE left

Sample(dial, busy) ==
  /\ pc = "samples" /\ done < BlockSamples
  /\ LET e        == Detect(dial, busy)
         said     == IF e = "NONE" THEN report ELSE message_due_cptd(state, e)
         asked    == IF e = "NONE" THEN pending
                     ELSE Request(pending, next_state_due_cptd(state, e))
         left     == IF busy = "GIVE_UP" THEN 0 ELSE countdown
         timedOut == TimedOut(left)
     IN /\ event' = e
        /\ countdown' = Ticked(left, timedOut)
        /\ age' = IF left > 0 THEN age + 1 ELSE age
        /\ report' = SampleMessage(said, timedOut)
        /\ pending' = IF timedOut
                        THEN Request(asked, next_state_due_timeout(state))
                        ELSE asked
        /\ gave_up' = (gave_up \/ busy = "GIVE_UP")
        /\ happened' = happened \cup
             { x \in {"DIAL_TONE", "BUSY", "GIVE_UP", "TIMEOUT"} :
                 \/ x = busy
                 \/ x = "DIAL_TONE" /\ e = "DIAL_TONE"
                 \/ x = "TIMEOUT" /\ timedOut }
  /\ done' = done + 1
  /\ UNCHANGED << live, blind, tables, state, last_state, message, quiet_count,
                  fatal, todo, pc, host >>

\* A timeout that goes on counting through a transition.
ArmedStale(asked) == countdown

\* The timeout of the state a block ends in.
Armed(asked) == IF asked # 0 THEN tables.timeout[asked] * SampleRate
                ELSE countdown

(***************************************************************************)
(* The end of CALLPROG_Progress and of call_block: take the transition     *)
(* asked for, keep the message, and hand the host its status.              *)
(***************************************************************************)
Commit(asked, m, quiet) ==
  /\ pc' = "idle"
  /\ pending' = asked
  /\ report' = m
  /\ message' = m
  /\ state' = IF asked # 0 THEN asked ELSE state
  /\ last_state' = state'
  /\ countdown' = Armed(asked)
  /\ age' = IF asked # 0 THEN 0 ELSE age
  /\ quiet_count' = IF asked = WFS THEN 0 ELSE quiet
  /\ status' = call_status(m)
  /\ answered' = (answered \/ m \in Answers)
  /\ UNCHANGED << live, blind, tables, gave_up, fatal, done, event, happened >>

BlockHeard == pc = "samples" /\ done = BlockSamples

\* Waiting for the far end: Dual_TONE_detect may find an answer tone.
ListenForAnswer(found) ==
  /\ BlockHeard
  /\ state \in automode
  /\ Commit(pending, IF found = "NONE" THEN report ELSE found, quiet_count)
  /\ UNCHANGED todo

\* `@': enough blocks below the threshold in a row resume the dialling.
ListenForSilence(quiet) ==
  /\ BlockHeard
  /\ state = WFS
  /\ LET n == IF quiet THEN quiet_count + 1 ELSE 0
     IN Commit(IF quiet /\ n = AnswerBlocks THEN Request(pending, DIALING)
               ELSE pending,
               report, n)
  /\ UNCHANGED todo

\* The other states only let the block pass.
LetPass ==
  /\ BlockHeard
  /\ state \notin automode \cup {WFS, DIALING}
  /\ Commit(pending, report, quiet_count)
  /\ UNCHANGED todo

\* `^' in the dial string: the dialler is called again for the same block.
DialCallingTone ==
  /\ BlockHeard
  /\ state = DIALING
  /\ Head(todo) = "CALLING_TONE"
  /\ todo' = Tail(todo)
  /\ UNCHANGED << live, blind, tables, state, last_state, countdown, age, message,
                  quiet_count, gave_up, fatal, block, host >>

\* The dialler filled the block; CALLPROG_DIALING is set and dropped.
DialOn ==
  /\ BlockHeard
  /\ state = DIALING
  /\ Commit(pending, report, quiet_count)
  /\ UNCHANGED todo

\* The state a dialler code asks for.
DialerWants(code) ==
  CASE code = "WAIT_DIALTONE" -> WAIT_DIAL
    [] code = "WAIT_ANSWER" -> WFS
    [] code = "WAIT_BONG" -> BONGTONE
    [] code = "COMMAND" -> END_PARTIALLY
    [] code = "DONE" -> WAIT_RING

\* Only these of the codes' messages are reported.
DialerSays(code, m) ==
  CASE code = "COMMAND" -> "END_DIALING_PARTIALLY"
    [] code = "DONE" -> "END_DIALING"
    [] OTHER -> m

DialStops ==
  /\ BlockHeard
  /\ state = DIALING
  /\ Head(todo) \in DialerStops
  /\ todo' = IF Len(todo) > 1 THEN Tail(todo) ELSE todo
  /\ Commit(Request(pending, DialerWants(Head(todo))),
            DialerSays(Head(todo), report), quiet_count)

-----------------------------------------------------------------------------
Init ==
  /\ live = FALSE /\ blind = FALSE /\ tables = Tables(FALSE)
  /\ state = 0 /\ last_state = 0 /\ countdown = 0 /\ age = 0 /\ message = "NO_MESSAGE"
  /\ quiet_count = 0 /\ pending = 0 /\ gave_up = FALSE /\ fatal = FALSE
  /\ todo = << >> /\ pc = "idle" /\ done = 0
  /\ event = "NONE" /\ report = "NO_MESSAGE" /\ happened = {}
  /\ answered = FALSE /\ status = "OK"

Block ==
  \/ AnsweredBlock
  \/ FatalBlock
  \/ Begin
  \/ \E dial \in MayDial, busy \in MayBusy : Sample(dial, busy)
  \/ \E found \in {"NONE", "DUALTONE_A", "DUALTONE_B"} : ListenForAnswer(found)
  \/ \E quiet \in BOOLEAN : ListenForSilence(quiet)
  \/ LetPass
  \/ DialCallingTone
  \/ DialOn
  \/ DialStops

Next ==
  \/ \E w0 \in Modes, script \in Scripts, ok \in BOOLEAN :
       CallCreate(w0, script, ok)
  \/ CallDelete
  \/ Block

Spec == Init /\ [][Next]_vars

(***************************************************************************)
(* The host keeps handing blocks to a live call, and the dialler ends each *)
(* digit, pause or flash after finitely many blocks.                       *)
(***************************************************************************)
FairSpec ==
  /\ Spec
  /\ WF_vars(Block)
  /\ SF_vars(DialStops) /\ SF_vars(DialCallingTone)

-----------------------------------------------------------------------------
(***************************************************************************)
(* Properties.                                                             *)
(***************************************************************************)

FlagsOK ==
  /\ live \in BOOLEAN /\ blind \in BOOLEAN /\ answered \in BOOLEAN
  /\ gave_up \in BOOLEAN /\ fatal \in BOOLEAN

NumbersOK ==
  /\ state \in States /\ last_state \in States /\ pending \in States
  /\ countdown \in Nat \cup {-10}
  /\ age \in Nat
  /\ quiet_count \in Nat
  /\ done \in 0 .. BlockSamples

TextOK ==
  /\ message \in Messages /\ report \in Messages
  /\ pc \in {"idle", "samples"}
  /\ event \in Verdicts
  /\ happened \subseteq {"DIAL_TONE", "BUSY", "GIVE_UP", "TIMEOUT"}
  /\ status \in {"OK", "NOANSWER", "NODIALTONE", "BUSY", "ERROR", "CHANGEDP"}

DataOK == tables \in {Tables(TRUE), Tables(FALSE)} /\ todo \in Seq(DialerCodes)

\* The types: the states are the ten of CPSTATE_*, and a countdown is never
\* negative except for the value run_timeouts leaves in one that has fired.
TypeOK == FlagsOK /\ NumbersOK /\ TextOK /\ DataOK

(***************************************************************************)
(* The terminal state is terminal: whatever the detectors and the dialler  *)
(* still say, a call in CALLPROG_END stays there and every later block     *)
(* reports the message it ended with.                                      *)
(***************************************************************************)
EndIsFinal ==
  [][live /\ live' /\ state = END => state' = END /\ message' = message]_vars

(***************************************************************************)
(* With dial tone required, CALLPROG_Progress never starts dialling from   *)
(* WAIT_DIAL in a block that did not hear dial tone; with blind dialling   *)
(* it never does so before the pause has run out.                          *)
(***************************************************************************)
DialsOnlyWhenAllowed ==
  [][live /\ state = WAIT_DIAL /\ state' = DIALING =>
       IF blind THEN "TIMEOUT" \in happened ELSE "DIAL_TONE" \in happened]_vars

(***************************************************************************)
(* A busy verdict is never dropped: the block in which the busy detector   *)
(* fires ends the call or gives the host a status other than OK.           *)
(***************************************************************************)
BusyNeverIgnored ==
  live /\ pc = "idle" /\ "BUSY" \in happened => state = END \/ status # "OK"

(***************************************************************************)
(* A call ends without telling the host in three ways only: `$' times out, *)
(* which has no message; the busy tone is heard in the block in which the  *)
(* dialler finishes; and dial tone is heard in the block in which the wait *)
(* for it times out.  The last two need a call that is not blind.          *)
(***************************************************************************)
SilentEndsKnown ==
  [][live /\ state # END /\ state' = END /\ status' = "OK" =>
       \/ state = BONGTONE
       \/ ~blind /\ state = DIALING /\ "BUSY" \in happened
       \/ ~blind /\ state = WAIT_DIAL /\ {"DIAL_TONE", "TIMEOUT"} \subseteq happened
    ]_vars

(***************************************************************************)
(* A timeout fires exactly when its state has lasted its seconds, unless   *)
(* the busy detector gave up first: enter_state and the commit re-arm it   *)
(* for every transition.                                                   *)
(***************************************************************************)
TimeoutsOnTime ==
  live /\ ~gave_up =>
    IF countdown >= 0 THEN countdown + age = tables.timeout[state] * SampleRate
    ELSE age = tables.timeout[state] * SampleRate

(***************************************************************************)
(* Ringback is never recognised: detect has no verdict for it, so the      *)
(* states that wait for an answer after ringback, and the line-clear       *)
(* timeout that belongs to them, are never entered.                        *)
(***************************************************************************)
RingbackUnreachable == live => state \notin {WAIT_TO_ANSWER, ANSWER_STATE}

(***************************************************************************)
(* No call hangs: one that keeps being handed blocks is answered, fails,   *)
(* or returns to command mode (`;').                                       *)
(***************************************************************************)
CallEnds ==
  live ~> (~live \/ fatal \/ answered \/ state \in {END, END_PARTIALLY})

-----------------------------------------------------------------------------
(***************************************************************************)
(* The inductive invariant.                                                *)
(***************************************************************************)

\* A live call's tables are the ones its own Dial wrote.
TablesOwn == live => tables = Tables(blind)

\* last_state lags only until the first block has been judged.
StatesKept ==
  live =>
    /\ state \in States \ {0, WAIT_TO_ANSWER, ANSWER_STATE}
    /\ last_state = state \/ (last_state = 0 /\ state = WAIT_DIAL)

\* A block is only judged for a call that is alive, valid and unanswered.
BlockRuns == pc = "samples" => live /\ ~answered /\ ~fatal

\* The dialler has always something left to report.
TodoEnds == live => /\ Len(todo) > 0
                    /\ todo[Len(todo)] \in {"COMMAND", "DONE"}

\* What a block may have asked for before its finishing action.
Asked ==
  live /\ pc = "samples" =>
    /\ pending \in {0, DIALING, END}
    /\ pending = DIALING => state = WAIT_DIAL
    /\ event = "DIAL_TONE" =>
         "DIAL_TONE" \in happened /\ state \in tables.dialtone
    /\ "BUSY" \in happened <=> event = "BUSY"
    /\ event = "BUSY" => state \in tables.busy /\ ~gave_up
    /\ event = "GIVE_UP" => gave_up /\ state \in tables.busy

\* A block that asks to dial has heard what its mode wants to hear.
DialAsked ==
  live /\ pc = "samples" /\ pending = DIALING =>
    IF blind THEN "TIMEOUT" \in happened ELSE "DIAL_TONE" \in happened

\* In the terminal state nothing is asked for and the message repeats.
EndRepeats ==
  live /\ pc = "samples" /\ state = END =>
    /\ pending = 0
    /\ done > 0 => report = message

BusyKept ==
  live /\ "BUSY" \in happened =>
    IF pc = "samples"
      THEN \/ pending = END
           \/ state = END
           \/ state = WAIT_DIAL /\ call_status(report) \notin {"OK", "CHANGEDP"}
      ELSE state = END \/ (status # "OK" /\ ~answered)

\* A block that is about to end the call knows what to say, or how it does not.
EndExplained ==
  live /\ pc = "samples" /\ pending = END /\ state # END =>
    \/ state = BONGTONE
    \/ ~blind /\ state = WAIT_DIAL /\ {"DIAL_TONE", "TIMEOUT"} \subseteq happened
    \/ /\ call_status(report) # "OK"
       /\ event # "DIAL_TONE"
       /\ state = WAIT_DIAL => ~blind /\ ("BUSY" \in happened \/ "TIMEOUT" \in happened)
       /\ state \in {DIALING, END_PARTIALLY} => "BUSY" \in happened

CallInv ==
  /\ TypeOK
  /\ TablesOwn
  /\ StatesKept
  /\ BlockRuns
  /\ TodoEnds
  /\ Asked
  /\ DialAsked
  /\ EndRepeats
  /\ BusyKept
  /\ EndExplained
  /\ TimeoutsOnTime

=============================================================================
