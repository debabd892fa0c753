------------------------------- MODULE V8Call -------------------------------
(***************************************************************************)
(* src/v8/V8.c, V8Interface.c and v8.c: two ends of a V.8 negotiation over *)
(* a line that damages words.                                              *)
(*                                                                         *)
(* A step is one call of v8_process for one end and a slot: the time of a  *)
(* 10-bit word (80 blocks of four samples), in which v8handshak sends one  *)
(* word and receives the one the other end sent last.  The stations take   *)
(* slots in turn.  Names of states are those of the source: tx_state is    *)
(* tx, rx_state is rx, and rx_substate sub.  Word alignment, the tones and *)
(* the filters are signal processing: a word arrives whole, or damaged.    *)
(***************************************************************************)
EXTENDS V8Words

CONSTANTS
  DeadlineA,      \* deadline_a, in slots: for ANSam, and for CM
  DeadlineB,      \* deadline_b: for JM, and for CJ
  Window,         \* V8_AGC_BLOCKS
  Settle,         \* V8_RX_SETTLE_BLOCKS
  DrainSlots,     \* V8_HS_DRAIN_BLOCKS
  MsgWords,       \* V8_HS_MSG_WORDS
  Idle,           \* MDMPRM_IODELAY + 0x2a0
  MaxDamage,      \* bound: words the line damages in a call
  MaxClips,       \* bound: times the receiver overloads on the answer tone
  MaxDelay,       \* bound: slots from dialling to the answer
  MaxPast,        \* bound: fields past word[] that a call compares with a word
  Forged,         \* the words that a damaged word may turn into
  Calls           \* the calls made: what each end is

ASSUME V8Assumption ==
  /\ {DeadlineA, DeadlineB, Window, Settle, DrainSlots, MsgWords, Idle}
       \subseteq Nat \ {0}
  /\ {MaxDamage, MaxClips, MaxDelay, MaxPast} \subseteq Nat
  /\ Forged \subseteq {NOISE, MARK, CJ}
  /\ \A c \in Calls :
       /\ c.org.mods \cup c.ans.mods \subseteq Modulations
       /\ {c.org.fn, c.ans.fn} \subseteq Functions
       /\ c.ans.kind \in {"v8", "mute", "tone", "QCA1a", "QCA1d"}

VARIABLES
  v,              \* struct v8 and struct v8_dp of each end
  line,           \* what each end sent in its last slot
  cm,             \* what each end offers (struct v8_cm), and its kind
  turn,           \* the end whose slot it is
  delay,          \* slots until the called end answers
  damage, clips   \* words damaged, overloads, so far

vars == << v, line, cm, turn, delay, damage, clips >>

Ends == { "org", "ans" }
Peer(s) == IF s = "org" THEN "ans" ELSE "org"

Silence == Plain("silence")
ANSam == Plain("ANSam")
AnswerTone == Plain("tone")
TONEq == Plain("TONEq")
QC == Plain("QC")
QMARK == Plain("qmark")
QCA(k) == Plain(k)
Tones == { Silence, ANSam, AnswerTone, TONEq }

\* The words the sequence being sent is made of.
Sequence(s, x) ==
  CASE x.seq = "CM" -> initTxSequence(cm[s])
    [] x.seq = "JM" -> x.jm
    [] x.seq = "CJ" -> << CJ, CJ, CJ >>
    [] x.seq = "QC1a" -> << QC, QC, QC, QC, QC, QC >>

\* What a field past word[] holds (crc, crc_enable, nbits, ...): nothing has
\* written it in the sequence that receives, which is not cleared either.
UNKNOWN == Plain("unknown")

\* word[] of the sequence that receives, cleared by v8_hs_hunt, and the
\* fields past it.
Store(mark, past) ==
  [i \in 0 .. MsgWords + MaxPast |->
     IF i = 0 THEN mark ELSE IF i <= MsgWords THEN ONES ELSE past[i]]

\* v8handshakinit, after v8_create.
v8handshakinit(s, c) ==
  [tx |-> IF s = "org" THEN "SILENCE" ELSE "ANSAM",
   rx |-> IF s = "org" THEN "AGC" ELSE "SETTLE",
   sub |-> IF s = "org" THEN "LISTEN" ELSE "HUNT",
   elapsed |-> 0, count |-> 0,
   seq |-> IF s = "ans" THEN "JM" ELSE IF c.v92 THEN "QC1a" ELSE "CM",
   pos |-> 1, jm |-> initTxSequence(c),
   store |-> Store(ONES, [i \in MsgWords + 1 .. MsgWords + MaxPast |-> UNKNOWN]),
   words |-> 0, len |-> 0,
   matched |-> FALSE, quick |-> FALSE, qca1a |-> FALSE,
   status |-> "INIT", ret |-> "OK", idle |-> 0, requested |-> "none",
   pump |-> "none"]

Init ==
  /\ \E c \in Calls : cm = c
  /\ v = [s \in Ends |-> v8handshakinit(s, cm[s])]
  /\ line = [s \in Ends |-> Silence]
  /\ turn = "org" /\ delay \in 0 .. MaxDelay /\ damage = 0 /\ clips = 0

-----------------------------------------------------------------------------
(* transmit: the word sent, and whether v8handshak returns before it       *)
(* receives.  A deadline that has passed leaves the transmit queue to be   *)
(* played again.                                                           *)

Late(x) ==
  \/ x.tx = "ANSAM" /\ x.elapsed >= DeadlineA
  \/ x.tx = "FSK_TIMED" /\ x.elapsed >= DeadlineB

LateState(s, x) ==
  IF x.tx = "ANSAM" THEN "CM_LATE" ELSE IF s = "ans" THEN "CJ_LATE" ELSE "JM_LATE"

Deadline(x) == IF x.tx = "ANSAM" THEN DeadlineA ELSE DeadlineB

\* v8_getbit, a word at a time: a sequence repeats.
NextWord(s, x) == [x EXCEPT !.pos = 1 + (@ % Len(Sequence(s, x)))]

\* The state transmit leaves, and the word it sends.
TimeOut(s, x) ==
  [x EXCEPT !.rx = LateState(s, x),
            !.elapsed = IF @ = Deadline(x) THEN @ + 1 ELSE @]
transmit(s, x) ==
  CASE Late(x) -> TimeOut(s, x)
    [] ~Late(x) /\ x.tx = "ANSAM" -> [x EXCEPT !.elapsed = @ + 1]
    [] ~Late(x) /\ x.tx = "FSK_TIMED" ->
         [NextWord(s, x) EXCEPT !.elapsed = @ + 1]
    [] x.tx = "FSK" ->
         IF x.pos = Len(Sequence(s, x))
           THEN [x EXCEPT !.tx = "FSK_TIMED", !.seq = "CM", !.pos = 1]
           ELSE NextWord(s, x)
    [] x.tx \in {"SILENCE", "TONE"} -> x
Sent(s, x) ==
  CASE Late(x) -> NOISE
    [] ~Late(x) /\ x.tx = "ANSAM" -> ANSam
    [] ~Late(x) /\ x.tx \in {"FSK_TIMED", "FSK"} -> Sequence(s, x)[x.pos]
    [] x.tx = "TONE" -> TONEq
    [] x.tx = "SILENCE" -> Silence

-----------------------------------------------------------------------------
(* V8Process and v8_process, after v8handshak has left x, having returned  *)
(* 2 or not.                                                               *)

OrgStatus(x) ==
  CASE x.tx = "SILENCE" /\ x.rx = "AGC" /\ x.sub = "LISTEN" -> "WAITING_FOR_ANSAM"
    [] x.sub = "WINDOW" -> "ANSAM_DETECTED_WAITING_TE"
    [] x.sub # "WINDOW" /\ x.tx = "FSK_TIMED" ->
         IF x.seq = "CJ" THEN "SEND_CJ" ELSE "SEND_CM"
    [] x.sub # "WINDOW" /\ x.tx = "FSK" -> "SEND_QC"
    [] x.sub # "WINDOW" /\ x.tx \notin {"FSK", "FSK_TIMED"} /\ x.rx = "ANSAM_LATE" ->
         "TIME_OUT_WAITING_FOR_ANSAM"
    [] x.sub # "WINDOW" /\ x.tx \notin {"FSK", "FSK_TIMED"} /\ x.rx = "JM_LATE" ->
         "TIME_OUT_WAITING_FOR_JM"
    [] OTHER -> "INIT"

AnsStatus(x) ==
  CASE x.rx = "CM_LATE" -> "TIME_OUT_WAITING_FOR_CM"
    [] x.rx = "CJ_LATE" -> "TIME_OUT_WAITING_FOR_CJ"
    [] x.rx \notin {"CM_LATE", "CJ_LATE"} /\ x.tx = "ANSAM" -> "SEND_ANSAM"
    [] x.rx \notin {"CM_LATE", "CJ_LATE"} /\ x.tx = "FSK_TIMED" -> "SEND_JM"
    [] OTHER -> "INIT"

V8Process(s, x, changed) ==
  IF changed THEN "OK" ELSE IF s = "org" THEN OrgStatus(x) ELSE AnsStatus(x)

TimeOuts == { "TIME_OUT_WAITING_FOR_ANSAM", "TIME_OUT_WAITING_FOR_JM",
              "TIME_OUT_WAITING_FOR_CM", "TIME_OUT_WAITING_FOR_CJ" }

\* The message received: rx_sequence.
Received(x) == [i \in 1 .. x.len |-> x.store[i - 1]]

\* The datapump asked for once the negotiation is done; the idle timer
\* starts, and runs, in the same call.
Finish(s, x) ==
  LET pump == ChoosePump(cm[s].want, x.quick,
                V8UpdateModemParameters(cm[s], x.matched, Received(x)))
  IN IF pump = "none" THEN [x EXCEPT !.ret = "ERROR"]
     ELSE [x EXCEPT !.ret = "CHANGEDP", !.requested = pump, !.pump = pump,
                    !.idle = Idle]

RunIdle(x) ==
  CASE x.idle > 1 -> [x EXCEPT !.idle = @ - 1]
    [] x.idle = 1 -> [x EXCEPT !.idle = -1, !.requested = "none",
                               !.ret = "CHANGEDP"]
    [] OTHER -> x

v8_process(s, x, changed) ==
  LET status == V8Process(s, x, changed)
      y == [x EXCEPT !.status = status, !.ret = "OK"]
  IN RunIdle(CASE status \in TimeOuts -> [y EXCEPT !.ret = "ERROR"]
               [] status = "OK" /\ x.idle = 0 -> Finish(s, y)
               [] OTHER -> y)

-----------------------------------------------------------------------------
(* v8handshak: transmit, then one of the receive states.                   *)

\* What the line can make of a word.  A tone is not a word.
Damaged(w) ==
  IF w \in Tones THEN {}
  ELSE Forged \cup
       (IF w.k = "mods" THEN { Mods(w.mods \ {m}, w.digital) : m \in w.mods }
                        ELSE {})

\* End s hears w, and does the rest of its slot: it has become x.
Hears(s, w) ==
  \/ w = line[Peer(s)] /\ UNCHANGED damage
  \/ /\ damage < MaxDamage /\ w \in Damaged(line[Peer(s)])
     /\ damage' = damage + 1
EndSlot(s, x, changed) ==
  /\ v' = [v EXCEPT ![s] = v8_process(s, x, changed)]
  /\ line' = [line EXCEPT ![s] = Sent(s, v[s])]
  /\ turn' = Peer(s)
  /\ UNCHANGED << cm, delay >>

\* A slot of an end that runs this code, which is in receive state rx.
Running(s) == turn = s /\ (s = "org" \/ (delay = 0 /\ cm.ans.kind = "v8"))
InRx(s, rx) == Running(s) /\ ~Late(v[s]) /\ v[s].rx = rx
InSub(s, sub) == InRx(s, "DEMOD") /\ v[s].sub = sub

\* transmit finds its deadline passed, and nothing is received.
TransmitLate(s) ==
  /\ Running(s) /\ Late(v[s])
  /\ EndSlot(s, transmit(s, v[s]), FALSE) /\ UNCHANGED << damage, clips >>

\* v8_handshak_agc: listening for the answer tone.
ListeningOn(x, w) ==
  IF w \in {ANSam, AnswerTone}
    THEN [x EXCEPT !.sub = "WINDOW", !.count = 0, !.elapsed = 0]
    ELSE x
Listening(x, w) ==
  IF w \in {ANSam, AnswerTone}
    THEN [x EXCEPT !.sub = "WINDOW", !.count = 0, !.elapsed = 0]
    ELSE [x EXCEPT !.elapsed = @ + 1]
ListenLate(s) ==
  LET x == transmit(s, v[s])
  IN /\ InRx(s, "AGC") /\ x.sub = "LISTEN" /\ x.elapsed >= DeadlineA
     /\ EndSlot(s, [x EXCEPT !.rx = "ANSAM_LATE", !.elapsed = DeadlineA + 1], FALSE)
     /\ UNCHANGED << damage, clips >>
Listen(s) ==
  LET x == transmit(s, v[s])
  IN /\ InRx(s, "AGC") /\ x.sub = "LISTEN" /\ x.elapsed < DeadlineA
     /\ EndSlot(s, Listening(x, line[Peer(s)]), FALSE)
     /\ UNCHANGED << damage, clips >>

\* V8agc: an overload while the tone is examined starts the search again.
V8agcClip(s) ==
  LET x == transmit(s, v[s])
  IN /\ InRx(s, "AGC") /\ x.sub = "WINDOW" /\ clips < MaxClips
     /\ EndSlot(s, [x EXCEPT !.sub = "LISTEN", !.elapsed = @ + 1], FALSE)
     /\ clips' = clips + 1 /\ UNCHANGED damage

\* The tone is examined for a while, and then in every block.
Examine(s) ==
  LET x == transmit(s, v[s])
  IN /\ InRx(s, "AGC") /\ x.sub = "WINDOW" /\ x.count < Window
     /\ EndSlot(s, [x EXCEPT !.count = @ + 1], FALSE)
     /\ UNCHANGED << damage, clips >>

\* ANSam: modulated, or with phase reversals.  After QCA1a the calling end
\* answers with TONEq until the tone it hears is plain.  What is left of the
\* measurements of the first tone can make the second look like ANSam.
StartCM(x, v92) ==
  [x EXCEPT !.rx = "DEMOD", !.sub = "HUNT", !.count = 0,
            !.tx = IF v92 THEN "FSK" ELSE "FSK_TIMED"]
AnsamFound(s) ==
  LET x == transmit(s, v[s])
  IN /\ InRx(s, "AGC") /\ x.sub = "WINDOW" /\ x.count = Window
     /\ x.qca1a \/ line[Peer(s)] = ANSam
     /\ EndSlot(s, IF x.qca1a THEN [x EXCEPT !.tx = "TONE"]
                              ELSE StartCM(x, cm[s].v92), FALSE)
     /\ UNCHANGED << damage, clips >>
PlainTone(s) ==
  LET x == transmit(s, v[s])
  IN /\ InRx(s, "AGC") /\ x.sub = "WINDOW" /\ x.count = Window
     /\ line[Peer(s)] # ANSam
     /\ IF x.qca1a
          THEN EndSlot(s, [x EXCEPT !.tx = "SILENCE",
                                    !.rx = IF x.tx = "TONE" THEN "DONE" ELSE @],
                       x.tx = "TONE")
          ELSE EndSlot(s, x, FALSE)
     /\ UNCHANGED << damage, clips >>

\* The answering end lets its echo settle before it looks for CM.
SettleEnd(s) ==
  LET x == transmit(s, v[s])
  IN /\ InRx(s, "SETTLE")
     /\ EndSlot(s, IF x.count < Settle THEN [x EXCEPT !.count = @ + 1]
                   ELSE [x EXCEPT !.rx = "DEMOD", !.sub = "HUNT", !.count = 0],
                FALSE)
     /\ UNCHANGED << damage, clips >>

\* v8_hs_hunt: the mark that begins a message, or QCA1.
Collecting(x, mark, sub) ==
  [x EXCEPT !.store = Store(mark, @), !.count = 1, !.words = 1, !.len = -1, !.sub = sub]
v8_hs_hunt(s) ==
  LET x == transmit(s, v[s])
  IN /\ InSub(s, "HUNT")
     /\ \E w \in {line[Peer(s)]} \cup Damaged(line[Peer(s)]) :
          /\ Hears(s, w)
          /\ EndSlot(s, IF w = MARK THEN Collecting(x, w, "COLLECT")
                        ELSE IF w = QMARK /\ cm[s].v92 THEN Collecting(x, w, "QCA1")
                        ELSE x, FALSE)
     /\ UNCHANGED clips

\* v8_hs_message_done: the calling end evaluates JM, and lets the word it is
\* sending finish; the answering end builds JM and sends it.
MessageDoneLate(s, x) ==
  IF s = "org"
    THEN [x EXCEPT !.matched = OrgMatched(cm[s], Received(x)),
                   !.sub = "DRAIN", !.count = 0]
    ELSE [x EXCEPT !.matched = AnsMatched(cm[s], Received(x)),
                   !.jm = rebuildJMSequence(cm[s], Received(x)),
                   !.sub = "CJ", !.tx = "FSK_TIMED",
                   !.pos = 1, !.count = 0, !.words = 0]
MessageDone(s, x) ==
  IF s = "org"
    THEN [x EXCEPT !.matched = OrgMatched(cm[s], Received(x)),
                   !.sub = "DRAIN", !.count = 0]
    ELSE [x EXCEPT !.matched = AnsMatched(cm[s], Received(x)),
                   !.jm = rebuildJMSequence(cm[s], Received(x)),
                   !.sub = "CJ", !.tx = "FSK_TIMED", !.elapsed = 0,
                   !.pos = 1, !.count = 0, !.words = 0]

\* v8_hs_collect: count is the number of words, since the mark or the last
\* difference, that were the same as in the message before, whose length is
\* len.  A word is compared with the store before the bound of the store is
\* looked at: past it the comparison is with a field that holds anything, and
\* a word that happens to be the same raises both counts, without a limit.
\* A word that is not the same is kept only within the store.
Restart(x) == [x EXCEPT !.len = x.words, !.count = 1, !.words = 1]

\* What w may be compared with: a field found the same once stays so.
Held(x, w) ==
  IF x.words > MsgWords + MaxPast THEN {UNKNOWN}
  ELSE {x.store[x.words]} \cup (IF x.store[x.words] = UNKNOWN THEN {w} ELSE {})

CollectOnce(s, x, w, held) ==
  IF w = MARK
    THEN IF x.len > 0 THEN MessageDone(s, x) ELSE Restart(x)
  ELSE IF x.words <= MsgWords
    THEN [x EXCEPT !.store[x.words] = w, !.words = @ + 1, !.count = 0]
  ELSE [x EXCEPT !.count = 0]
Collect(s, x, w, held) ==
  IF w = MARK
    THEN IF x.len = x.count THEN MessageDone(s, x) ELSE Restart(x)
  ELSE IF held = w
    THEN [x EXCEPT !.store[x.words] = w, !.words = @ + 1, !.count = @ + 1]
  ELSE IF x.words <= MsgWords
    THEN [x EXCEPT !.store[x.words] = w, !.words = @ + 1, !.count = 0]
  ELSE [x EXCEPT !.count = 0]
v8_hs_collect(s) ==
  LET x == transmit(s, v[s])
      bit(w) == IF w \in Tones THEN NOISE ELSE w
  IN /\ InSub(s, "COLLECT")
     /\ \E w \in {line[Peer(s)]} \cup Damaged(line[Peer(s)]) :
          /\ Hears(s, w)
          /\ \E held \in Held(x, bit(w)) :
               EndSlot(s, Collect(s, x, bit(w), held), FALSE)
     /\ UNCHANGED clips

\* v8_hs_qca1: five words after the mark, the second copy like the first.
Qca1Whole(x) ==
  /\ x.store[1] \in {QCA("QCA1a"), QCA("QCA1d")} /\ x.store[4] = x.store[1]
  /\ x.store[2] = ONES /\ x.store[3] = QMARK /\ x.store[5] = ONES
Qca1Done(x) ==
  CASE ~Qca1Whole(x) -> [x EXCEPT !.sub = "HUNT"]
    [] Qca1Whole(x) /\ x.store[1] = QCA("QCA1a") ->
         [x EXCEPT !.quick = TRUE, !.qca1a = TRUE, !.tx = "SILENCE",
                   !.rx = "AGC", !.sub = "LISTEN"]
    [] Qca1Whole(x) /\ x.store[1] = QCA("QCA1d") ->
         [x EXCEPT !.quick = TRUE, !.tx = "SILENCE", !.rx = "DONE"]
v8_hs_qca1(s) ==
  LET x == transmit(s, v[s])
      kept(w) == [x EXCEPT !.store[x.words] = w, !.words = @ + 1]
  IN /\ InSub(s, "QCA1")
     /\ \E w \in {line[Peer(s)]} \cup Damaged(line[Peer(s)]) :
          /\ Hears(s, w)
          /\ IF kept(w).words = 6
               THEN EndSlot(s, Qca1Done(kept(w)), Qca1Done(kept(w)).rx = "DONE")
               ELSE EndSlot(s, kept(w), FALSE)
     /\ UNCHANGED clips

\* v8_hs_cj: two of CJ's words end the wait, wherever they stand.
CJHeardOnce(x) == x.count + 1 = 1
CJHeard(x) == x.count + 1 = 2
v8_hs_cj(s) ==
  LET x == transmit(s, v[s])
  IN /\ InSub(s, "CJ")
     /\ \E w \in {line[Peer(s)]} \cup Damaged(line[Peer(s)]) :
          /\ Hears(s, w)
          /\ IF w # CJ THEN EndSlot(s, x, FALSE)
             ELSE IF CJHeard(x)
               THEN EndSlot(s, [x EXCEPT !.count = @ + 1, !.tx = "SILENCE",
                                         !.rx = "DONE"], TRUE)
               ELSE EndSlot(s, [x EXCEPT !.count = @ + 1], FALSE)
     /\ UNCHANGED clips

\* v8_hs_drain: CJ replaces CM at the end of a word, for a fixed time.
DrainingOn(x) ==
  IF x.count = 0 THEN [x EXCEPT !.seq = "CJ", !.pos = 1, !.count = 1]
                 ELSE [x EXCEPT !.count = @ + 1]
Draining(x) ==
  CASE x.count = 0 -> [x EXCEPT !.seq = "CJ", !.pos = 1, !.count = 1]
    [] x.count # 0 /\ x.count + 1 # DrainSlots -> [x EXCEPT !.count = @ + 1]
    [] x.count # 0 /\ x.count + 1 = DrainSlots ->
         [x EXCEPT !.count = @ + 1, !.tx = "SILENCE", !.rx = "DONE"]
v8_hs_drain(s) ==
  LET x == transmit(s, v[s])
  IN /\ InSub(s, "DRAIN")
     /\ EndSlot(s, Draining(x), Draining(x).rx = "DONE")
     /\ UNCHANGED << damage, clips >>

\* V8_RX_DONE, and the receive states of a deadline.
ReceiveDone(s) ==
  /\ InRx(s, "DONE")
  /\ EndSlot(s, transmit(s, v[s]), TRUE) /\ UNCHANGED << damage, clips >>
ReceiveNothing(s) ==
  /\ Running(s) /\ ~Late(v[s])
  /\ v[s].rx \in {"ANSAM_LATE", "JM_LATE", "CM_LATE", "CJ_LATE"}
  /\ EndSlot(s, transmit(s, v[s]), FALSE) /\ UNCHANGED << damage, clips >>

-----------------------------------------------------------------------------
(* The far end, when it is not this code: it has not answered yet, sends   *)
(* nothing or a plain tone, or answers quick connect.                      *)

Ringing ==
  /\ turn = "ans" /\ delay > 0
  /\ delay' = delay - 1 /\ turn' = "org"
  /\ UNCHANGED << v, line, cm, damage, clips >>

FarSends(n, kind) ==
  CASE kind = "mute" -> Silence
    [] kind = "tone" -> AnswerTone
    [] kind \in {"QCA1a", "QCA1d"} ->
         IF n = 0 THEN ANSam
         ELSE IF n <= 9 THEN << ONES, QMARK, QCA(kind) >>[1 + ((n - 1) % 3)]
         ELSE AnswerTone
FarEnd ==
  LET n == v["ans"].count
  IN /\ turn = "ans" /\ delay = 0 /\ cm.ans.kind # "v8"
     /\ line' = [line EXCEPT !["ans"] = FarSends(n, cm.ans.kind)]
     /\ v' = [v EXCEPT !["ans"].count =
                IF (n = 0 /\ line["org"] = QC) \/ (n > 0 /\ n <= 9)
                  THEN n + 1 ELSE n]
     /\ turn' = "org"
     /\ UNCHANGED << cm, delay, damage, clips >>

Slot(s) ==
  \/ TransmitLate(s) \/ ListenLate(s) \/ Listen(s) \/ V8agcClip(s)
  \/ Examine(s) \/ AnsamFound(s) \/ PlainTone(s) \/ SettleEnd(s)
  \/ v8_hs_hunt(s) \/ v8_hs_collect(s) \/ v8_hs_qca1(s) \/ v8_hs_cj(s)
  \/ v8_hs_drain(s) \/ ReceiveDone(s) \/ ReceiveNothing(s)

Next == Ringing \/ FarEnd \/ \E s \in Ends : Slot(s)

Spec == Init /\ [][Next]_vars
FairSpec == Spec /\ WF_vars(Next)

-----------------------------------------------------------------------------

Subs == { "LISTEN", "WINDOW", "HUNT", "COLLECT", "QCA1", "CJ", "DRAIN" }
Rxs == { "AGC", "SETTLE", "DEMOD", "DONE",
         "ANSAM_LATE", "JM_LATE", "CM_LATE", "CJ_LATE" }
\* Types: the counters of v8handshak stop at their deadlines.  The words of a
\* message, and its length, may pass the store (Collect): only MaxPast bounds
\* them here.
TypeOK ==
  /\ \A s \in Ends :
       /\ v[s].tx \in {"SILENCE", "ANSAM", "FSK_TIMED", "FSK", "TONE"}
       /\ v[s].rx \in Rxs /\ v[s].sub \in Subs
       /\ v[s].elapsed \in 0 .. DeadlineA + DeadlineB + 1
       /\ v[s].pos \in 1 .. 6 
       /\ v[s].words \in 0 .. MsgWords + MaxPast + 1
       /\ v[s].len \in -1 .. MsgWords + MaxPast + 1
       /\ DOMAIN v[s].store = 0 .. MsgWords + MaxPast
       /\ v[s].ret \in {"OK", "ERROR", "CHANGEDP"} /\ v[s].idle \in -1 .. Idle
       /\ v[s].requested \in Modulations \cup {"none", "V92"}
  /\ turn \in Ends /\ delay \in 0 .. MaxDelay
  /\ damage \in 0 .. MaxDamage /\ clips \in 0 .. MaxClips

\* The message end s has accepted, from the mark of one to the mark of the
\* next.
Accepted(s) == v[s].sub \in {"DRAIN", "CJ"}
FromMark(msg) == Tail(msg) \o << ONES >>

\* A message is accepted when it was the same twice (v8_hs_collect), so what
\* is accepted is what the other end sends, although any word of it may have
\* been damaged, as long as no other word becomes a mark.  The mark may be the
\* one: two messages then run on as one, past the store, and the words past it
\* that pass for the same are not taken for a message either.
MessageAuthentic ==
  /\ Accepted("org") => Received(v["org"]) = FromMark(v["ans"].jm)
  /\ Accepted("ans") => Received(v["ans"]) = FromMark(initTxSequence(cm.org))

\* The safety of what is collected: the counts of the deadlines in their
\* range, and no message but one that was sent.
CollectInv == TypeOK /\ MessageAuthentic

\* Two ends of this code that negotiate the same function ask for the same
\* datapump: each masks what it can do by the other's message, and only the
\* calling one ever offers V.90.
SamePump ==
  ( /\ cm.ans.kind = "v8" /\ ~cm.ans.digital
    /\ \A s \in Ends : v[s].pump # "none" /\ v[s].matched )
  => v["org"].pump = v["ans"].pump

\* The answering end asks for a datapump only when the calling one has
\* accepted JM: CJ is a word of zeros, and one alone may be damage.
CJBacked == v["ans"].pump # "none" => v["org"].sub = "DRAIN"

\* When the calling end has changed datapump, the answering one, which it
\* can no longer reach, does not give up waiting for CJ: its deadline starts
\* later, and one damaged word of CJ is not enough to lose it.
OrgNotAlone ==
  (v["org"].pump # "none" /\ ~v["org"].quick) => v["ans"].rx # "CJ_LATE"

\* The two ends leave V.8 together and for one and the same datapump,
\* whichever word is damaged and whichever deadline runs.
LeaveTogether == SamePump /\ CJBacked /\ OrgNotAlone

\* Every negotiation ends, in a datapump or an error.  The calling end has two
\* waits without an end, and they must be these two: its deadline for JM has
\* passed, before it has sent CJ for its whole time, and it goes on reporting
\* that it sends CM or CJ (V8Process tests that first); or it goes on examining
\* the answer tone of an end that keeps a plain one.
Ended(s) == v[s].pump # "none" \/ v[s].ret = "ERROR"
JmLateUntold ==
  /\ v["org"].rx = "JM_LATE"
  /\ \/ v["org"].status = "SEND_CM"
     \/ v["org"].status = "SEND_CJ" /\ v["org"].count < DrainSlots
PlainToneHeard ==
  /\ v["org"].rx = "AGC" /\ v["org"].sub = "WINDOW"
  /\ cm.ans.kind \in {"tone", "QCA1a"} /\ line["ans"] = AnswerTone
NegotiationEnds ==
  /\ <>(Ended("ans") \/ cm.ans.kind # "v8")
  /\ <>Ended("org") \/ <>[]JmLateUntold \/ <>[]PlainToneHeard

=============================================================================
