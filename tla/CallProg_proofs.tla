-------------------------- MODULE CallProg_proofs ---------------------------
(***************************************************************************)
(* Call progress for every block size, sample rate, timeout and dial       *)
(* string: what the supervisor promises of the terminal state, of busy     *)
(* tones and of its timeouts.                                              *)
(***************************************************************************)
EXTENDS CallProg, TLAPS

USE DEF WAIT_DIAL, DIALING, WAIT_RING, WAIT_TO_ANSWER, ANSWER_STATE, END,
        END_PARTIALLY, WFS, BONGTONE

\* What CALLPROG_Dial writes.
LEMMA TablesFacts ==
  ASSUME NEW w0 \in BOOLEAN
  PROVE  /\ \A s \in States : Tables(w0).timeout[s] * SampleRate \in Nat
         /\ Tables(w0).next1 = IF w0 THEN DIALING ELSE END
         /\ Tables(w0).message1 = IF w0 THEN "DIALING" ELSE "NO_DIAL_TONE"
         /\ Tables(w0).dialtone = IF w0 THEN {} ELSE {WAIT_DIAL, DIALING}
         /\ Tables(w0).busy = IF w0 THEN States \ {WAIT_DIAL, DIALING}
                              ELSE States
<1>1. \A s \in States : Tables(w0).timeout[s] \in Nat
  BY TimingAssumption DEF Tables, States
<1>2. \A s \in States : Tables(w0).timeout[s] * SampleRate \in Nat
  BY <1>1, TimingAssumption
<1> QED
  BY <1>2 DEF Tables

\* Nothing is alive at first.
LEMMA InitCallInv == Init => CallInv
<1> SUFFICES ASSUME Init PROVE CallInv
  OBVIOUS
<1>a. FlagsOK
  BY DEF Init, FlagsOK
<1>b. NumbersOK
  BY TimingAssumption DEF Init, NumbersOK, States
<1>c. TextOK
  BY DEF Init, TextOK, Messages, Verdicts
<1>d. DataOK
  BY DEF Init, DataOK
<1>1. TypeOK
  BY <1>a, <1>b, <1>c, <1>d DEF TypeOK
<1>2. /\ TablesOwn /\ StatesKept /\ BlockRuns /\ TodoEnds /\ Asked
      /\ DialAsked /\ EndRepeats /\ BusyKept /\ EndExplained /\ TimeoutsOnTime
  BY DEF Init, TablesOwn, StatesKept, BlockRuns, TodoEnds, Asked, DialAsked, EndRepeats,
         BusyKept, EndExplained, TimeoutsOnTime
<1> QED
  BY <1>1, <1>2 DEF CallInv

\* call_create starts in WAIT_DIAL with its timeout armed.
LEMMA CallCreateInv ==
  ASSUME CallInv, NEW w0 \in Modes, NEW script \in Scripts, NEW ok \in BOOLEAN,
         CallCreate(w0, script, ok)
  PROVE  CallInv'
<1>1. w0 \in BOOLEAN
  BY TimingAssumption
<1>2. /\ Tables(w0).timeout[WAIT_DIAL] * SampleRate \in Nat
      /\ WAIT_DIAL \in States
  BY <1>1, TablesFacts DEF States
<1>3. script \in Seq(DialerCodes) /\ Len(script) > 0
      /\ script[Len(script)] \in {"COMMAND", "DONE"}
  BY ScriptAssumption
<1>4. tables' = Tables(w0) /\ blind' = w0
  BY DEF CallCreate
<1>5. tables' \in {Tables(TRUE), Tables(FALSE)}
  BY <1>1, <1>4
<1>6. TypeOK'
  <2>1. FlagsOK'
    BY <1>1 DEF CallCreate, FlagsOK
  <2>2. NumbersOK'
    BY <1>2, TimingAssumption DEF CallCreate, NumbersOK, States
  <2>3. TextOK'
    BY DEF CallCreate, TextOK, Messages, Verdicts
  <2>4. DataOK'
    BY <1>3, <1>5 DEF CallCreate, DataOK
  <2> QED
    BY <2>1, <2>2, <2>3, <2>4 DEF TypeOK
<1>7. TablesOwn' /\ StatesKept' /\ BlockRuns' /\ TodoEnds'
  BY <1>3, <1>4 DEF CallCreate, TablesOwn, StatesKept, BlockRuns, TodoEnds, States
<1>8. Asked' /\ DialAsked' /\ EndRepeats' /\ BusyKept' /\ EndExplained'
  BY DEF CallCreate, Asked, DialAsked, EndRepeats, BusyKept, EndExplained
<1>9. TimeoutsOnTime'
  BY <1>2, <1>4 DEF CallCreate, TimeoutsOnTime
<1> QED
  BY <1>6, <1>7, <1>8, <1>9 DEF CallInv

\* The blocks that never reach the detectors.
LEMMA IdleInv ==
  ASSUME CallInv, CallDelete \/ AnsweredBlock \/ FatalBlock \/ Begin
  PROVE  CallInv'
<1>1. CASE CallDelete
  BY <1>1 DEF CallDelete, block, host, CallInv, TypeOK, FlagsOK, NumbersOK,
     TextOK, DataOK, TablesOwn, StatesKept,
     BlockRuns, TodoEnds, Asked, DialAsked, EndRepeats, BusyKept, EndExplained,
     TimeoutsOnTime
<1>2. CASE AnsweredBlock
  BY <1>2 DEF AnsweredBlock, supervisor, block, CallInv, TypeOK, FlagsOK,
     NumbersOK, TextOK, DataOK, TablesOwn,
     StatesKept, BlockRuns, TodoEnds, Asked, DialAsked, EndRepeats, BusyKept,
     EndExplained, TimeoutsOnTime
<1>3. CASE FatalBlock
  <2>1. FlagsOK'
    BY <1>3 DEF FatalBlock, supervisor, CallInv, TypeOK, FlagsOK
  <2>2. NumbersOK'
    BY <1>3 DEF FatalBlock, supervisor, CallInv, TypeOK, NumbersOK, States
  <2>3. TextOK'
    BY <1>3 DEF FatalBlock, supervisor, CallInv, TypeOK, TextOK, Verdicts,
       call_status, Answers
  <2>4. DataOK' /\ TablesOwn' /\ StatesKept' /\ TodoEnds'
    BY <1>3 DEF FatalBlock, supervisor, CallInv, TypeOK, DataOK, TablesOwn,
       StatesKept, TodoEnds
  <2>5. BlockRuns' /\ Asked' /\ DialAsked' /\ EndRepeats' /\ BusyKept' /\ EndExplained'
    BY <1>3 DEF FatalBlock, supervisor, CallInv, BlockRuns, Asked, DialAsked, EndRepeats,
       BusyKept, EndExplained
  <2>6. TimeoutsOnTime'
    BY <1>3 DEF FatalBlock, supervisor, CallInv, TimeoutsOnTime
  <2> QED
    BY <2>1, <2>2, <2>3, <2>4, <2>5, <2>6 DEF CallInv, TypeOK
<1>4. CASE Begin
  <2>1. FlagsOK'
    BY <1>4 DEF Begin, supervisor, host, CallInv, TypeOK, FlagsOK
  <2>2. NumbersOK'
    BY <1>4, TimingAssumption
    DEF Begin, supervisor, host, CallInv, TypeOK, NumbersOK, States
  <2>3. TextOK'
    BY <1>4 DEF Begin, supervisor, host, CallInv, TypeOK, TextOK, Verdicts,
       Messages
  <2>4. DataOK' /\ TablesOwn' /\ StatesKept' /\ TodoEnds'
    BY <1>4 DEF Begin, supervisor, host, CallInv, TypeOK, DataOK, TablesOwn,
       StatesKept, TodoEnds
  <2>5. BlockRuns' /\ Asked' /\ DialAsked' /\ EndRepeats' /\ BusyKept' /\ EndExplained'
    BY <1>4 DEF Begin, supervisor, host, CallInv, BlockRuns, Asked, DialAsked, EndRepeats,
       BusyKept, EndExplained
  <2>6. TimeoutsOnTime'
    BY <1>4 DEF Begin, supervisor, host, CallInv, TimeoutsOnTime
  <2> QED
    BY <2>1, <2>2, <2>3, <2>4, <2>5, <2>6 DEF CallInv, TypeOK
<1> QED
  BY <1>1, <1>2, <1>3, <1>4

\* One sample: the detectors, the verdict's transition and the timeout.
LEMMA SampleInv ==
  ASSUME CallInv, NEW dial \in MayDial, NEW busy \in MayBusy,
         Sample(dial, busy)
  PROVE  CallInv'
<1> DEFINE e        == Detect(dial, busy)
           said     == IF e = "NONE" THEN report ELSE message_due_cptd(state, e)
           asked    == IF e = "NONE" THEN pending
                       ELSE Request(pending, next_state_due_cptd(state, e))
           left     == IF busy = "GIVE_UP" THEN 0 ELSE countdown
           timedOut == TimedOut(left)
<1>1. /\ pc = "samples" /\ done < BlockSamples
      /\ event' = e
      /\ countdown' = IF left > 0 THEN left - 1
                      ELSE IF timedOut THEN -10 ELSE left
      /\ age' = IF left > 0 THEN age + 1 ELSE age
      /\ report' = SampleMessage(said, timedOut)
      /\ pending' = IF timedOut
                      THEN Request(asked, next_state_due_timeout(state))
                      ELSE asked
      /\ gave_up' = (gave_up \/ busy = "GIVE_UP")
      /\ happened' = happened \cup
           { x \in {"DIAL_TONE", "BUSY", "GIVE_UP", "TIMEOUT"} :
               \/ x = busy
               \/ x = "DIAL_TONE" /\ e = "DIAL_TONE"
               \/ x = "TIMEOUT" /\ timedOut }
      /\ done' = done + 1
      /\ UNCHANGED << live, blind, tables, state, last_state, message,
                      quiet_count, fatal, todo, pc, host >>
  BY DEF Sample, Ticked
<1>2. UNCHANGED << live, blind, tables, state, last_state, message,
                   quiet_count, fatal, todo, pc, answered, status >>
  BY <1>1 DEF host
<1>3. /\ live /\ blind \in BOOLEAN /\ tables = Tables(blind)
      /\ state \in States \ {0, WAIT_TO_ANSWER, ANSWER_STATE}
      /\ last_state = state \/ (last_state = 0 /\ state = WAIT_DIAL)
  BY <1>1 DEF CallInv, BlockRuns, TablesOwn, StatesKept, TypeOK, FlagsOK
<1>4. state \in {1, 2, 3, 6, 7, 8, 9}
  BY <1>3 DEF States
<1>5. /\ tables.next1 = IF blind THEN DIALING ELSE END
      /\ tables.message1 = IF blind THEN "DIALING" ELSE "NO_DIAL_TONE"
      /\ state \in tables.dialtone <=> ~blind /\ state \in {1, 2}
      /\ state \in tables.busy <=> ~blind \/ state \notin {1, 2}
      /\ tables.timeout[state] * SampleRate \in Nat
  BY <1>3, <1>4, TablesFacts DEF States
<1>6. /\ dial \in BOOLEAN
      /\ dial => ~blind /\ state \in {1, 2}
  BY <1>5 DEF MayDial
<1>7. /\ busy \in {"NONE", "BUSY", "GIVE_UP"}
      /\ busy # "NONE" => ~blind \/ state \notin {1, 2}
      /\ busy = "BUSY" => ~gave_up
      /\ "BUSY" \in happened /\ ~gave_up => busy = "NONE"
      /\ gave_up => busy = "GIVE_UP" \/ (blind /\ state \in {1, 2})
  BY <1>5 DEF MayBusy
<1>8. /\ event \in {"NONE", "DIAL_TONE", "BUSY", "GIVE_UP"}
      /\ report \in Messages /\ message \in Messages
      /\ happened \subseteq {"DIAL_TONE", "BUSY", "GIVE_UP", "TIMEOUT"}
  BY DEF CallInv, TypeOK, TextOK, Verdicts
<1>9. /\ e \in {"NONE", "DIAL_TONE", "BUSY", "GIVE_UP"}
      /\ busy = "NONE" /\ ~(dial /\ event = "NONE") => e = event
      /\ busy = "NONE" /\ dial /\ event = "NONE" => e = "DIAL_TONE"
      /\ busy # "NONE" => e = busy
  BY <1>6, <1>7, <1>8 DEF Detect
<1>10. /\ pending \in {0, DIALING, END}
       /\ pending = DIALING => state = WAIT_DIAL
       /\ event = "DIAL_TONE" => "DIAL_TONE" \in happened /\ ~blind /\ state \in {1, 2}
       /\ "BUSY" \in happened <=> event = "BUSY"
       /\ event = "BUSY" => ~gave_up /\ (~blind \/ state \notin {1, 2})
       /\ event = "GIVE_UP" => gave_up /\ (~blind \/ state \notin {1, 2})
  BY <1>1, <1>3, <1>5 DEF CallInv, Asked
<1>17. e = "DIAL_TONE" => ~blind /\ state \in {1, 2}
  BY <1>6, <1>9, <1>10, <1>7
<1> HIDE DEF e
<1>11. /\ next_state_due_cptd(state, e) \in {0, DIALING, END}
       /\ e = "BUSY" => next_state_due_cptd(state, e) = END
       /\ e = "GIVE_UP" => next_state_due_cptd(state, e) = 0
       /\ e = "DIAL_TONE" => next_state_due_cptd(state, e) =
                               (IF state = 1 THEN DIALING ELSE 0)
  BY <1>4, <1>9, <1>17 DEF next_state_due_cptd
<1>12. /\ message_due_cptd(state, e) \in Messages
       /\ e = "BUSY" => message_due_cptd(state, e) = "BUSY"
       /\ e = "GIVE_UP" => message_due_cptd(state, e) = "NO_MESSAGE"
       /\ e = "DIAL_TONE" => message_due_cptd(state, e) =
                               (IF state = 1 THEN "DIALING" ELSE "NO_MESSAGE")
  BY <1>4, <1>9, <1>17 DEF message_due_cptd, Messages
<1>13. /\ next_state_due_timeout(state) =
            (IF state \in {2, 6, 7} THEN 0
             ELSE IF state = 1 /\ blind THEN DIALING ELSE END)
       /\ message_due_timeout(state) \in Messages
       /\ state \in {3, 8} => call_status(message_due_timeout(state)) # "OK"
       /\ state = 1 /\ ~blind =>
            call_status(message_due_timeout(state)) \notin {"OK", "CHANGEDP"}
  BY <1>4, <1>5 DEF next_state_due_timeout, message_due_timeout, TimedStates,
     call_status, Messages, Answers
<1>14. timedOut <=> left = 0 /\ state \notin {2, 7}
  BY DEF TimedOut
<1>15. countdown \in Nat \cup {-10} /\ age \in Nat /\ done \in 0 .. BlockSamples
  BY DEF CallInv, TypeOK, NumbersOK
<1>16. /\ "BUSY" \in happened' <=> "BUSY" \in happened \/ busy = "BUSY"
       /\ "DIAL_TONE" \in happened' <=> "DIAL_TONE" \in happened \/ e = "DIAL_TONE"
       /\ "TIMEOUT" \in happened' <=> "TIMEOUT" \in happened \/ timedOut
       /\ happened' \subseteq {"DIAL_TONE", "BUSY", "GIVE_UP", "TIMEOUT"}
  BY <1>1, <1>7, <1>8
<1>18. /\ asked \in {0, 2, 6}
       /\ e \in {"NONE", "GIVE_UP"} \/ pending # 0 => asked = pending
       /\ e = "BUSY" /\ pending = 0 => asked = IF last_state = 6 THEN 0 ELSE 6
       /\ e = "DIAL_TONE" /\ pending = 0 => asked = IF state = 1 THEN 2 ELSE 0
  BY <1>3, <1>4, <1>9, <1>10, <1>11 DEF Request
<1>19. /\ said \in Messages
       /\ e = "NONE" => said = report
       /\ e = "BUSY" => said = "BUSY"
  BY <1>8, <1>9, <1>12
<1>20. left \in Nat \cup {-10}
  BY <1>15
<1>21. busy = "GIVE_UP" => left = 0
  OBVIOUS
<1>22. busy # "GIVE_UP" => left = countdown
  OBVIOUS
<1> HIDE DEF said, asked, left, timedOut
<1>23. /\ pending' \in {0, 2, 6}
       /\ asked # 0 \/ ~timedOut => pending' = asked
       /\ timedOut /\ asked = 0 => pending' = next_state_due_timeout(state)
  BY <1>1, <1>3, <1>4, <1>13, <1>18 DEF Request
<1>24. /\ report' \in Messages
       /\ state = 6 => report' = message
       /\ state # 6 /\ timedOut => report' = message_due_timeout(state)
       /\ state # 6 /\ ~timedOut => report' = said
  BY <1>1, <1>8, <1>13, <1>19 DEF SampleMessage
<1>25. \* a busy tone heard in this block is still the verdict
       /\ "BUSY" \in happened' <=> e = "BUSY"
       /\ e = "BUSY" => ~gave_up /\ busy # "GIVE_UP"
  BY <1>7, <1>9, <1>10, <1>16
<1>26. event = "GIVE_UP" \/ busy = "GIVE_UP" => busy = "GIVE_UP" /\ left = 0
  BY <1>7, <1>10, <1>21
<1>27. e = "GIVE_UP" => busy = "GIVE_UP" /\ left = 0
  BY <1>7, <1>9, <1>26
<1>30. TypeOK'
  <2>1. FlagsOK'
    <3>1. gave_up' \in BOOLEAN
      BY <1>1
    <3> QED
      BY <1>2, <3>1 DEF CallInv, TypeOK, FlagsOK
  <2>2. NumbersOK'
    <3>1. countdown' \in Nat \cup {-10} /\ age' \in Nat /\ done' \in 0 .. BlockSamples
      BY <1>1, <1>15, <1>20, TimingAssumption
    <3> QED
      BY <1>2, <1>23, <3>1 DEF CallInv, TypeOK, NumbersOK, States
  <2>3. TextOK'
    BY <1>1, <1>2, <1>9, <1>16, <1>24 DEF CallInv, TypeOK, TextOK, Verdicts
  <2>4. DataOK'
    BY <1>2 DEF CallInv, TypeOK, DataOK
  <2> QED
    BY <2>1, <2>2, <2>3, <2>4 DEF TypeOK
<1>31. TablesOwn' /\ StatesKept' /\ TodoEnds' /\ BlockRuns'
  BY <1>2 DEF CallInv, TablesOwn, StatesKept, TodoEnds, BlockRuns
<1>32. Asked'
  <2>1. pending' = 2 => state = 1
    BY <1>4, <1>9, <1>10, <1>13, <1>18, <1>23
  <2>2. e = "DIAL_TONE" => "DIAL_TONE" \in happened' /\ state \in tables.dialtone
    BY <1>5, <1>16, <1>17
  <2>3. /\ "BUSY" \in happened' <=> e = "BUSY"
        /\ e = "BUSY" => state \in tables.busy /\ ~gave_up'
    BY <1>1, <1>5, <1>7, <1>10, <1>16, <1>25
  <2>4. e = "GIVE_UP" => gave_up' /\ state \in tables.busy
    BY <1>1, <1>5, <1>7, <1>27
  <2>5. event' = e
    BY <1>1
  <2> QED
    BY <1>2, <1>23, <2>1, <2>2, <2>3, <2>4, <2>5 DEF Asked
<1>37. DialAsked'
  <2> SUFFICES ASSUME pending' = 2
               PROVE  IF blind THEN "TIMEOUT" \in happened'
                               ELSE "DIAL_TONE" \in happened'
    BY <1>2 DEF DialAsked
  <2>1. CASE pending = 2
    BY <1>1, <1>3, <1>16, <2>1 DEF CallInv, DialAsked
  <2>2. CASE pending = 0 /\ asked = 2
    BY <1>9, <1>16, <1>17, <1>18, <2>2
  <2>3. CASE asked = 0
    BY <1>13, <1>16, <1>23, <2>3
  <2> QED
    BY <1>10, <1>18, <1>23, <2>1, <2>2, <2>3
<1>33. EndRepeats'
  <2> SUFFICES ASSUME state = 6
               PROVE  pending' = 0 /\ report' = message
    BY <1>2 DEF EndRepeats
  <2>1. pending = 0 /\ last_state = 6
    BY <1>1, <1>3 DEF CallInv, EndRepeats
  <2>2. asked = 0
    BY <1>9, <1>18, <2>1
  <2> QED
    BY <1>13, <1>23, <1>24, <2>2
<1>34. BusyKept'
  <2> SUFFICES ASSUME "BUSY" \in happened'
               PROVE  \/ pending' = 6
                      \/ state = 6
                      \/ state = 1 /\ call_status(report') \notin {"OK", "CHANGEDP"}
    BY <1>1, <1>2 DEF BusyKept
  <2>1. e = "BUSY" /\ (~blind \/ state \notin {1, 2})
    BY <1>7, <1>10, <1>16, <1>25
  <2>2. CASE pending = 2
    <3>1. state = 1 /\ ~blind
      BY <1>10, <2>1, <2>2
    <3>2. call_status("BUSY") \notin {"OK", "CHANGEDP"}
      BY DEF call_status, Answers
    <3> QED
      BY <1>13, <1>19, <1>24, <2>1, <3>1, <3>2
  <2>3. CASE pending = 0
    BY <1>3, <1>18, <1>23, <2>1, <2>3
  <2>4. CASE pending = 6
    BY <1>18, <1>23, <2>4
  <2> QED
    BY <1>10, <2>2, <2>3, <2>4
<1>35. EndExplained'
  <2>1. call_status("BUSY") # "OK"
    BY DEF call_status, Answers
  <2> SUFFICES ASSUME pending' = 6, state # 6, state # 9
               PROVE  \/ ~blind /\ state = 1 /\ {"DIAL_TONE", "TIMEOUT"} \subseteq happened'
                      \/ /\ call_status(report') # "OK"
                         /\ e # "DIAL_TONE"
                         /\ state = 1 => ~blind /\ ("BUSY" \in happened' \/ "TIMEOUT" \in happened')
                         /\ state \in {2, 7} => "BUSY" \in happened'
    BY <1>1, <1>2 DEF EndExplained
  <2>2. pending = 6 =>
           \/ ~blind /\ state = 1 /\ {"DIAL_TONE", "TIMEOUT"} \subseteq happened
           \/ /\ call_status(report) # "OK"
              /\ event # "DIAL_TONE"
              /\ state = 1 => ~blind /\ ("BUSY" \in happened \/ "TIMEOUT" \in happened)
              /\ state \in {2, 7} => "BUSY" \in happened
    BY <1>1, <1>3 DEF CallInv, EndExplained
  <2>3. pending = 0 => e = "BUSY" \/ (timedOut /\ e # "DIAL_TONE")
    BY <1>9, <1>13, <1>17, <1>18, <1>23
  <2>4. pending # 2
    BY <1>18, <1>23
  <2>5. CASE e = "BUSY"
    <3>1. "BUSY" \in happened'
      BY <1>25, <2>5
    <3> QED
      BY <1>4, <1>10, <1>7, <1>13, <1>14, <1>16, <1>19, <1>24, <2>1, <2>5, <3>1
  <2>6. CASE e = "DIAL_TONE"
    <3>1. pending = 6
      BY <1>10, <2>3, <2>4, <2>6
    <3>2. event # "DIAL_TONE" => event = "NONE" /\ "BUSY" \notin happened
      BY <1>8, <1>7, <1>9, <1>10, <2>6
    <3>3. state = 1 /\ ~blind /\ "TIMEOUT" \in happened
      BY <1>17, <2>2, <2>6, <3>1, <3>2
    <3> QED
      BY <1>16, <2>6, <3>3
  <2>7. CASE e = "GIVE_UP"
    <3>1. timedOut
      BY <1>7, <1>10, <1>14, <1>27, <2>2, <2>3, <2>4, <2>7
    <3>2. state \in {1, 3, 8} /\ (state = 1 => ~blind)
      BY <1>4, <1>14, <1>27, <1>7, <2>7, <3>1
    <3> QED
      BY <1>13, <1>16, <1>24, <2>7, <3>1, <3>2
  <2>8. CASE e = "NONE"
    <3>1. CASE timedOut
      BY <1>4, <1>13, <1>14, <1>16, <1>18, <1>23, <1>24, <2>2, <2>8, <3>1
    <3>2. CASE ~timedOut
      BY <1>10, <1>16, <1>19, <1>24, <2>2, <2>3, <2>4, <2>8, <3>2
    <3> QED
      BY <3>1, <3>2
  <2> QED
    BY <1>9, <2>5, <2>6, <2>7, <2>8
<1>36. TimeoutsOnTime'
  <2> SUFFICES ASSUME ~gave_up'
               PROVE  IF countdown' >= 0
                        THEN countdown' + age' = tables.timeout[state] * SampleRate
                        ELSE age' = tables.timeout[state] * SampleRate
    BY <1>2 DEF TimeoutsOnTime
  <2>1. ~gave_up /\ busy # "GIVE_UP"
    BY <1>1
  <2>2. IF countdown >= 0
          THEN countdown + age = tables.timeout[state] * SampleRate
          ELSE age = tables.timeout[state] * SampleRate
    BY <1>3, <2>1 DEF CallInv, TimeoutsOnTime
  <2>3. left = countdown
    BY <1>22, <2>1
  <2>4. CASE countdown > 0
    BY <1>1, <1>5, <1>15, <2>2, <2>3, <2>4
  <2>5. CASE countdown = 0
    BY <1>1, <1>5, <1>15, <2>2, <2>3, <2>5
  <2>6. CASE countdown = -10
    BY <1>1, <1>5, <1>14, <1>15, <2>2, <2>3, <2>6
  <2> QED
    BY <1>15, <2>4, <2>5, <2>6
<1> QED
  BY <1>30, <1>31, <1>32, <1>33, <1>34, <1>35, <1>36, <1>37 DEF CallInv

\* The end of a block, whatever state it was in.
LEMMA CommitInv ==
  ASSUME CallInv, BlockHeard, NEW asked, NEW m, NEW quiet,
         asked \in {0, 1, 2, 3, 6, 7, 8, 9}, m \in Messages, quiet \in Nat,
         "BUSY" \in happened =>
           \/ asked = 6
           \/ asked = 0 /\ state = 6
           \/ call_status(m) \notin {"OK", "CHANGEDP"},
         Commit(asked, m, quiet),
         DataOK', TodoEnds'
  PROVE  CallInv'
<1>1. /\ pc' = "idle" /\ pending' = asked /\ report' = m /\ message' = m
      /\ state' = IF asked # 0 THEN asked ELSE state
      /\ last_state' = state'
      /\ countdown' = IF asked # 0 THEN tables.timeout[asked] * SampleRate
                      ELSE countdown
      /\ age' = IF asked # 0 THEN 0 ELSE age
      /\ quiet_count' = IF asked = 8 THEN 0 ELSE quiet
      /\ status' = call_status(m)
      /\ answered' = (answered \/ m \in Answers)
      /\ UNCHANGED << live, blind, tables, gave_up, fatal, done, event, happened >>
  BY DEF Commit, Armed
<1>2. /\ live /\ ~answered /\ blind \in BOOLEAN /\ tables = Tables(blind)
      /\ state \in States \ {0, 4, 5}
  BY DEF BlockHeard, CallInv, BlockRuns, TablesOwn, StatesKept, TypeOK, FlagsOK
<1>3. \A s \in States : tables.timeout[s] * SampleRate \in Nat
  BY <1>2, TablesFacts
<1>4. asked \in States
  BY DEF States
<1>5. state' \in States \ {0, 4, 5}
  BY <1>1, <1>2 DEF States
<1>6. TypeOK'
  <2>1. FlagsOK'
    <3>1. answered' \in BOOLEAN
      BY <1>1
    <3> QED
      BY <1>1, <3>1 DEF CallInv, TypeOK, FlagsOK
  <2>2. NumbersOK'
    <3>1. countdown' \in Nat \cup {-10} /\ age' \in Nat /\ quiet_count' \in Nat
      BY <1>1, <1>3, <1>4 DEF CallInv, TypeOK, NumbersOK
    <3> QED
      BY <1>1, <1>4, <1>5, <3>1 DEF CallInv, TypeOK, NumbersOK
  <2>3. call_status(m) \in {"OK", "NOANSWER", "NODIALTONE", "BUSY", "ERROR", "CHANGEDP"}
    BY DEF call_status
  <2>4. TextOK'
    BY <1>1, <2>3 DEF CallInv, TypeOK, TextOK
  <2> QED
    BY <2>1, <2>2, <2>4 DEF TypeOK
<1>7. TablesOwn' /\ StatesKept' /\ BlockRuns' /\ Asked' /\ DialAsked' /\ EndRepeats' /\ EndExplained'
  BY <1>1, <1>2, <1>5
  DEF TablesOwn, StatesKept, BlockRuns, Asked, DialAsked, EndRepeats, EndExplained
<1>8. BusyKept'
  <2> SUFFICES ASSUME "BUSY" \in happened
               PROVE  state' = 6 \/ (status' # "OK" /\ ~answered')
    BY <1>1 DEF BusyKept
  <2>1. call_status(m) # "CHANGEDP" => m \notin Answers
    BY DEF call_status, Answers
  <2>2. CASE asked = 6
    BY <1>1, <2>2
  <2>3. CASE asked = 0 /\ state = 6
    BY <1>1, <2>3
  <2>4. CASE call_status(m) \notin {"OK", "CHANGEDP"}
    <3>1. status' # "OK" /\ m \notin Answers
      BY <1>1, <2>1, <2>4
    <3>2. ~answered'
      BY <1>1, <1>2, <3>1 DEF CallInv
    <3> QED
      BY <3>1, <3>2
  <2> QED
    BY <2>2, <2>3, <2>4
<1>9. TimeoutsOnTime'
  <2>1. CASE asked # 0
    BY <1>1, <1>3, <1>4, <2>1 DEF TimeoutsOnTime
  <2>2. CASE asked = 0
    BY <1>1, <1>2, <2>2 DEF CallInv, TimeoutsOnTime
  <2> QED
    BY <2>1, <2>2
<1> QED
  BY <1>6, <1>7, <1>8, <1>9 DEF CallInv

\* What is known of a block when its last sample has been judged.
LEMMA HeardFacts ==
  ASSUME CallInv, BlockHeard
  PROVE  /\ live /\ ~answered
         /\ pc = "samples"
         /\ state \in {1, 2, 3, 6, 7, 8, 9}
         /\ pending \in {0, 2, 6}
         /\ pending = 2 => state = 1
         /\ report \in Messages /\ quiet_count \in Nat
         /\ DataOK /\ TodoEnds
         /\ todo \in Seq(DialerCodes) /\ Len(todo) > 0
         /\ todo[Len(todo)] \in {"COMMAND", "DONE"}
         /\ "BUSY" \in happened =>
              \/ pending = 6
              \/ pending = 0 /\ state = 6
              \/ state = 1 /\ call_status(report) \notin {"OK", "CHANGEDP"}
<1>1. live /\ ~answered /\ pc = "samples"
  BY DEF BlockHeard, CallInv, BlockRuns
<1>2. state \in {1, 2, 3, 6, 7, 8, 9}
  BY <1>1 DEF CallInv, StatesKept, States
<1>3. pending \in {0, 2, 6} /\ (pending = 2 => state = 1)
  BY <1>1 DEF CallInv, Asked
<1>4. report \in Messages
  BY DEF CallInv, TypeOK, TextOK
<1>5. quiet_count \in Nat
  BY DEF CallInv, TypeOK, NumbersOK
<1>6. /\ DataOK /\ TodoEnds
      /\ todo \in Seq(DialerCodes) /\ Len(todo) > 0
      /\ todo[Len(todo)] \in {"COMMAND", "DONE"}
  BY <1>1 DEF CallInv, TypeOK, DataOK, TodoEnds
<1>7. "BUSY" \in happened =>
        \/ pending = 6
        \/ pending = 0 /\ state = 6
        \/ state = 1 /\ call_status(report) \notin {"OK", "CHANGEDP"}
  BY <1>1 DEF CallInv, BusyKept, EndRepeats
<1> QED
  BY <1>1, <1>2, <1>3, <1>4, <1>5, <1>6, <1>7

\* The blocks that do not dial.
LEMMA ListenInv ==
  ASSUME CallInv,
         \/ \E found \in {"NONE", "DUALTONE_A", "DUALTONE_B"} : ListenForAnswer(found)
         \/ \E quiet \in BOOLEAN : ListenForSilence(quiet)
         \/ LetPass
         \/ DialOn
  PROVE  CallInv'
<1>1. BlockHeard /\ todo' = todo /\ tables' = tables /\ live' = live
  BY DEF ListenForAnswer, ListenForSilence, LetPass, DialOn, Commit
<1>2. DataOK' /\ TodoEnds'
  BY <1>1, HeardFacts DEF DataOK, TodoEnds
<1>3. ASSUME NEW found \in {"NONE", "DUALTONE_A", "DUALTONE_B"},
             ListenForAnswer(found)
      PROVE  CallInv'
  <2>1. state = 3
    BY <1>1, <1>3, HeardFacts DEF ListenForAnswer, automode
  <2>2. (IF found = "NONE" THEN report ELSE found) \in Messages
    BY <1>1, HeardFacts DEF Messages
  <2> DEFINE m == IF found = "NONE" THEN report ELSE found
  <2>3. Commit(pending, m, quiet_count)
    BY <1>3 DEF ListenForAnswer
  <2>4. pending \in {0, 1, 2, 3, 6, 7, 8, 9} /\ quiet_count \in Nat
        /\ ("BUSY" \in happened => pending = 6)
    BY <1>1, <2>1, HeardFacts
  <2> HIDE DEF m
  <2> QED
    BY <1>1, <1>2, <2>2, <2>3, <2>4, CommitInv DEF m
<1>4. ASSUME NEW quiet \in BOOLEAN, ListenForSilence(quiet)
      PROVE  CallInv'
  <2> DEFINE n == IF quiet THEN quiet_count + 1 ELSE 0
             asked == IF quiet /\ n = AnswerBlocks THEN Request(pending, DIALING)
                      ELSE pending
  <2>1. state = 8 /\ Commit(asked, report, n)
    BY <1>4 DEF ListenForSilence
  <2>2. n \in Nat
    BY <1>1, HeardFacts
  <2>3. asked \in {0, 1, 2, 3, 6, 7, 8, 9} /\ ("BUSY" \in happened => asked = 6)
    BY <1>1, <2>1, HeardFacts DEF Request
  <2>4. report \in Messages
    BY <1>1, HeardFacts
  <2> HIDE DEF n, asked
  <2> QED
    BY <1>1, <1>2, <2>1, <2>2, <2>3, <2>4, CommitInv
<1>5. CASE LetPass
  <2>1. Commit(pending, report, quiet_count)
    BY <1>5 DEF LetPass
  <2>2. /\ pending \in {0, 1, 2, 3, 6, 7, 8, 9} /\ report \in Messages
        /\ quiet_count \in Nat
        /\ "BUSY" \in happened =>
             \/ pending = 6
             \/ pending = 0 /\ state = 6
             \/ call_status(report) \notin {"OK", "CHANGEDP"}
    BY <1>1, HeardFacts
  <2> QED
    BY <1>1, <1>2, <2>1, <2>2, CommitInv
<1>6. CASE DialOn
  <2>1. Commit(pending, report, quiet_count)
    BY <1>6 DEF DialOn
  <2>2. /\ pending \in {0, 1, 2, 3, 6, 7, 8, 9} /\ report \in Messages
        /\ quiet_count \in Nat
        /\ "BUSY" \in happened =>
             \/ pending = 6
             \/ pending = 0 /\ state = 6
             \/ call_status(report) \notin {"OK", "CHANGEDP"}
    BY <1>1, HeardFacts
  <2> QED
    BY <1>1, <1>2, <2>1, <2>2, CommitInv
<1> QED
  BY <1>3, <1>4, <1>5, <1>6

\* A dialler that has not reported its last code keeps that code.
LEMMA TailKeepsEnd ==
  ASSUME NEW s \in Seq(DialerCodes), Len(s) > 1
  PROVE  /\ Tail(s) \in Seq(DialerCodes)
         /\ Len(Tail(s)) > 0
         /\ Tail(s)[Len(Tail(s))] = s[Len(s)]
  OBVIOUS

\* The blocks in which the dialler reports something.
LEMMA DialInv ==
  ASSUME CallInv, DialCallingTone \/ DialStops
  PROVE  CallInv'
<1>1. BlockHeard /\ state = 2 /\ tables' = tables /\ live' = live
  BY DEF DialCallingTone, DialStops, Commit
<1>2. CASE DialCallingTone
  <2>1. Len(todo) > 1
    <3>1. todo[1] = "CALLING_TONE"
      BY <1>1, <1>2, HeardFacts DEF DialCallingTone
    <3> QED
      BY <1>1, <3>1, HeardFacts
  <2>2. todo' = Tail(todo) /\ DataOK' /\ TodoEnds'
    <3>1. todo' = Tail(todo)
      BY <1>2 DEF DialCallingTone
    <3> QED
      BY <1>1, <2>1, <3>1, HeardFacts, TailKeepsEnd DEF DataOK, TodoEnds
  <2> QED
    BY <1>2, <2>2 DEF DialCallingTone, block, host, CallInv, TypeOK, FlagsOK,
       NumbersOK, TextOK, TablesOwn, StatesKept, BlockRuns, Asked, DialAsked, EndRepeats,
       BusyKept, EndExplained, TimeoutsOnTime
<1>3. CASE DialStops
  <2> DEFINE code == Head(todo)
             asked == Request(pending, DialerWants(code))
             m == DialerSays(code, report)
  <2>1. /\ code \in DialerStops
        /\ todo' = IF Len(todo) > 1 THEN Tail(todo) ELSE todo
        /\ Commit(asked, m, quiet_count)
    BY <1>3 DEF DialStops
  <2>2. DataOK' /\ TodoEnds'
    BY <1>1, <2>1, HeardFacts, TailKeepsEnd DEF DataOK, TodoEnds
  <2> HIDE DEF code
  <2>3. DialerWants(code) \in {1, 3, 7, 8, 9}
    BY <2>1 DEF DialerStops, DialerWants
  <2>4. asked \in {0, 1, 2, 3, 6, 7, 8, 9} /\ ("BUSY" \in happened => asked = 6)
    BY <1>1, <2>3, HeardFacts DEF Request
  <2>5. m \in Messages /\ quiet_count \in Nat
    BY <1>1, HeardFacts DEF DialerSays, Messages
  <2> HIDE DEF asked, m
  <2> QED
    BY <1>1, <2>1, <2>2, <2>4, <2>5, CommitInv
<1> QED
  BY <1>2, <1>3

\* The invariant is inductive.
LEMMA NextCallInv ==
  ASSUME CallInv, [Next]_vars
  PROVE  CallInv'
<1>1. CASE UNCHANGED vars
  <2>1. UNCHANGED << live, blind, tables, state, last_state, countdown, age,
                     message, quiet_count, gave_up, fatal, todo, pc, done,
                     event, report, happened, pending, answered, status >>
    BY <1>1 DEF vars, block, host
  <2>2. TypeOK'
    BY <2>1 DEF CallInv, TypeOK, FlagsOK, NumbersOK, TextOK, DataOK
  <2>3. TablesOwn' /\ StatesKept' /\ BlockRuns' /\ TodoEnds' /\ Asked' /\ DialAsked'
    BY <2>1 DEF CallInv, TablesOwn, StatesKept, BlockRuns, TodoEnds, Asked,
       DialAsked
  <2>4. EndRepeats' /\ BusyKept' /\ EndExplained' /\ TimeoutsOnTime'
    BY <2>1 DEF CallInv, EndRepeats, BusyKept, EndExplained, TimeoutsOnTime
  <2> QED
    BY <2>2, <2>3, <2>4 DEF CallInv
<1>2. CASE Next
  BY <1>2, CallCreateInv, IdleInv, SampleInv, ListenInv, DialInv DEF Next, Block
<1> QED
  BY <1>1, <1>2

\* CallInv holds in every reachable state of the supervisor.
THEOREM CallInvariant == Spec => []CallInv
<1>1. Init => CallInv
  BY InitCallInv
<1>2. CallInv /\ [Next]_vars => CallInv'
  BY NextCallInv
<1> QED
  BY <1>1, <1>2, PTL DEF Spec

\* The states, counters and messages keep their types.
THEOREM TypesKept == Spec => []TypeOK
<1>1. CallInv => TypeOK
  BY DEF CallInv
<1> QED
  BY <1>1, CallInvariant, PTL

\* A block that hears busy tone ends the call or tells the host something.
THEOREM BusyIsHeard == Spec => []BusyNeverIgnored
<1>1. CallInv => BusyNeverIgnored
  BY DEF CallInv, BusyKept, BusyNeverIgnored
<1> QED
  BY <1>1, CallInvariant, PTL

\* Every timeout of every state lasts its seconds, and no stale one fires.
THEOREM TimeoutsExact == Spec => []TimeoutsOnTime
<1>1. CallInv => TimeoutsOnTime
  BY DEF CallInv
<1> QED
  BY <1>1, CallInvariant, PTL

\* No call waits for an answer after ringback.
THEOREM RingbackNever == Spec => []RingbackUnreachable
<1>1. CallInv => RingbackUnreachable
  BY DEF CallInv, StatesKept, RingbackUnreachable
<1> QED
  BY <1>1, CallInvariant, PTL

(***************************************************************************)
(* A step that leaves a state behind is the end of a block: a finishing    *)
(* action that takes the transition the samples asked for, except that `@' *)
(* and the dialler ask for one themselves when the samples did not.        *)
(***************************************************************************)
LEMMA StateChanges ==
  ASSUME CallInv, [Next]_vars, live, live',
         state' # state \/ message' # message
  PROVE  /\ BlockHeard
         /\ \/ /\ state' = IF pending # 0 THEN pending ELSE state
               /\ \/ message' = report
                  \/ state = WAIT_RING /\ message' \in {"DUALTONE_A", "DUALTONE_B"}
            \/ /\ state = WFS /\ pending = 0
               /\ state' = DIALING
            \/ /\ state = DIALING
               /\ state' = IF pending # 0 THEN pending
                           ELSE DialerWants(Head(todo))
               /\ Head(todo) \in DialerStops
         /\ status' = call_status(message')
<1>1. ASSUME NEW asked, NEW m, NEW quiet, Commit(asked, m, quiet)
      PROVE  /\ state' = IF asked # 0 THEN asked ELSE state
             /\ message' = m /\ status' = call_status(m)
  BY <1>1 DEF Commit
<1>2. CASE UNCHANGED vars \/ CallDelete \/ AnsweredBlock \/ FatalBlock \/ Begin
           \/ DialCallingTone
  BY <1>2 DEF vars, CallDelete, AnsweredBlock, FatalBlock, Begin, supervisor,
     DialCallingTone
<1>3. ASSUME NEW dial, NEW busy, Sample(dial, busy) PROVE FALSE
  BY <1>3 DEF Sample
<1>4. ASSUME NEW w0, NEW script, NEW ok, CallCreate(w0, script, ok) PROVE FALSE
  BY <1>4 DEF CallCreate
<1>5. ASSUME NEW found \in {"NONE", "DUALTONE_A", "DUALTONE_B"},
             ListenForAnswer(found)
      PROVE  /\ BlockHeard
             /\ state' = IF pending # 0 THEN pending ELSE state
             /\ \/ message' = report
                \/ state = WAIT_RING /\ message' \in {"DUALTONE_A", "DUALTONE_B"}
             /\ status' = call_status(message')
  <2>1. BlockHeard /\ state \in automode
        /\ Commit(pending, IF found = "NONE" THEN report ELSE found, quiet_count)
    BY <1>5 DEF ListenForAnswer
  <2>2. state = WAIT_RING
    BY <2>1, HeardFacts DEF automode
  <2> QED
    BY <1>1, <2>1, <2>2
<1>6. ASSUME NEW quiet \in BOOLEAN, ListenForSilence(quiet)
      PROVE  /\ BlockHeard
             /\ \/ /\ state' = IF pending # 0 THEN pending ELSE state
                   /\ message' = report
                \/ /\ state = WFS /\ pending = 0
                   /\ state' = DIALING
             /\ status' = call_status(message')
  BY <1>6, <1>1, HeardFacts DEF ListenForSilence, Request
<1>7. CASE LetPass \/ DialOn
  BY <1>7, <1>1 DEF LetPass, DialOn
<1>8. CASE DialStops
  <2>1. /\ BlockHeard /\ state = DIALING
        /\ Head(todo) \in DialerStops
        /\ Commit(Request(pending, DialerWants(Head(todo))),
                  DialerSays(Head(todo), report), quiet_count)
    BY <1>8 DEF DialStops
  <2>2. last_state = DIALING
    BY <2>1, HeardFacts DEF CallInv, StatesKept
  <2>3. DialerWants(Head(todo)) \in {1, 3, 7, 8, 9}
    BY <2>1 DEF DialerStops, DialerWants
  <2>4. Request(pending, DialerWants(Head(todo))) =
          IF pending # 0 THEN pending ELSE DialerWants(Head(todo))
    BY <2>2, <2>3 DEF Request
  <2> QED
    BY <1>1, <2>1, <2>3, <2>4, HeardFacts
<1> QED
  BY <1>2, <1>3, <1>4, <1>5, <1>6, <1>7, <1>8 DEF Next, Block

\* Only call_delete ends a call object, and it leaves the state alone.
LEMMA OnlyDeleteKills ==
  ASSUME [Next]_vars, live, state' # state
  PROVE  live'
<1>1. CASE UNCHANGED vars
  BY <1>1 DEF vars
<1>2. CASE CallDelete
  BY <1>2 DEF CallDelete
<1>3. CASE Next /\ ~CallDelete
  <2>1. live' = live \/ live' = TRUE
    BY <1>3 DEF Next, Block, CallCreate, AnsweredBlock, FatalBlock, Begin,
       Sample, ListenForAnswer, ListenForSilence, LetPass, DialCallingTone,
       DialOn, DialStops, Commit
  <2> QED
    BY <2>1
<1> QED
  BY <1>1, <1>2, <1>3

\* CALLPROG_END is left by nothing, and its message is repeated for ever.
THEOREM EndStays == Spec => EndIsFinal
<1>1. ASSUME CallInv, [Next]_vars
      PROVE  [live /\ live' /\ state = END => state' = END /\ message' = message]_vars
  <2> SUFFICES ASSUME live, live', state = END,
                      state' # END \/ message' # message
               PROVE  FALSE
    OBVIOUS
  <2>1. /\ BlockHeard
        /\ state' = IF pending # 0 THEN pending ELSE state
        /\ message' = report
    BY <1>1, StateChanges
  <2>2. pending = 0 /\ report = message
    BY <1>1, <2>1, TimingAssumption DEF BlockHeard, CallInv, EndRepeats
  <2> QED
    BY <2>1, <2>2
<1> QED
  BY <1>1, CallInvariant, PTL DEF Spec, EndIsFinal

\* Dialling starts from WAIT_DIAL only as the call's own mode allows it.
THEOREM DialAllowed == Spec => DialsOnlyWhenAllowed
<1>1. ASSUME CallInv, [Next]_vars
      PROVE  [live /\ state = WAIT_DIAL /\ state' = DIALING =>
                IF blind THEN "TIMEOUT" \in happened
                         ELSE "DIAL_TONE" \in happened]_vars
  <2> SUFFICES ASSUME live, state = WAIT_DIAL, state' = DIALING
               PROVE  IF blind THEN "TIMEOUT" \in happened
                               ELSE "DIAL_TONE" \in happened
    OBVIOUS
  <2>1. live'
    BY <1>1, OnlyDeleteKills
  <2>2. BlockHeard /\ state' = IF pending # 0 THEN pending ELSE state
    BY <1>1, <2>1, StateChanges
  <2>3. pending = DIALING
    BY <2>2
  <2> QED
    BY <1>1, <2>2, <2>3 DEF BlockHeard, CallInv, DialAsked
<1> QED
  BY <1>1, CallInvariant, PTL DEF Spec, DialsOnlyWhenAllowed

\* The ways in which a call ends without a word to the host.
THEOREM SilentEnds == Spec => SilentEndsKnown
<1>1. ASSUME CallInv, [Next]_vars
      PROVE  [live /\ state # END /\ state' = END /\ status' = "OK" =>
                \/ state = BONGTONE
                \/ ~blind /\ state = DIALING /\ "BUSY" \in happened
                \/ ~blind /\ state = WAIT_DIAL
                          /\ {"DIAL_TONE", "TIMEOUT"} \subseteq happened]_vars
  <2> SUFFICES ASSUME live, state # END, state' = END, status' = "OK"
               PROVE  \/ state = BONGTONE
                      \/ ~blind /\ state = DIALING /\ "BUSY" \in happened
                      \/ ~blind /\ state = WAIT_DIAL
                                /\ {"DIAL_TONE", "TIMEOUT"} \subseteq happened
    OBVIOUS
  <2>1. live'
    BY <1>1, OnlyDeleteKills
  <2>2. BlockHeard /\ status' = call_status(message')
    BY <1>1, <2>1, StateChanges
  <2>3. \/ pending = END /\ message' = report
        \/ pending = END /\ state = WAIT_RING
             /\ message' \in {"DUALTONE_A", "DUALTONE_B"}
        \/ pending = END /\ state = DIALING
    <3>1. Head(todo) \in DialerStops => DialerWants(Head(todo)) # END
      BY DEF DialerStops, DialerWants
    <3> QED
      BY <1>1, <2>1, <3>1, StateChanges
  <2>4. message' \notin {"DUALTONE_A", "DUALTONE_B"}
    BY <2>2 DEF call_status, Answers
  <2>5. \/ state = BONGTONE
        \/ ~blind /\ state = WAIT_DIAL /\ {"DIAL_TONE", "TIMEOUT"} \subseteq happened
        \/ /\ call_status(report) # "OK"
           /\ state \in {DIALING, END_PARTIALLY} => "BUSY" \in happened
    BY <1>1, <2>2, <2>3 DEF BlockHeard, CallInv, EndExplained
  <2>6. state = DIALING /\ "BUSY" \in happened => ~blind
    <3>1. /\ blind \in BOOLEAN /\ tables = Tables(blind)
          /\ "BUSY" \in happened => state \in tables.busy
      BY <1>1, <2>2 DEF BlockHeard, CallInv, TypeOK, FlagsOK, TablesOwn, Asked
    <3> QED
      BY <3>1, TablesFacts
  <2>7. state # DIALING => call_status(report) = "OK"
    BY <2>2, <2>3, <2>4
  <2> QED
    BY <2>5, <2>6, <2>7
<1> QED
  BY <1>1, CallInvariant, PTL DEF Spec, SilentEndsKnown

=============================================================================
