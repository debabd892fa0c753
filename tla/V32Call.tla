------------------------------ MODULE V32Call ------------------------------
(***************************************************************************)
(* A V.32 call: two stations, each running the half-duplex machine of      *)
(* src/pump/v32 block by block (v32_process, V32FP_modem, v32_handshake,   *)
(* v32_data, the TxHdx and RxHdx routines), and the line between them.     *)
(*                                                                         *)
(* In one block a station first runs its receive routine, once, and then   *)
(* transmit routines until the symbols of the block are used up; both may  *)
(* step the handshake.  The stations take turns, a block each, and hear    *)
(* what the other sent in its last block: the pieces of signal in it, in   *)
(* order.  A detector of the signal processing may miss what it looks for  *)
(* (noise) and fires on nothing else; a rate word that is accepted is the  *)
(* one that was sent.                                                      *)
(***************************************************************************)
EXTENDS V32States, Sequences

CONSTANTS
  Calls,               \* the rates the two may be created with: own and named
  Tad,                 \* CalcTurnAroundDelay
  LossLimit,           \* blocks without carrier that energy_drop_time allows
  MaxRetrains          \* bound: retrains asked for by a low SNR

ASSUME CallAssumption ==
  /\ Tad \in Nat /\ LossLimit \in Nat /\ MaxRetrains \in Nat
  /\ \A c \in Calls : \A s \in {"org", "ans"} :
       c[s].own \in Rates /\ c[s].named \in AnyRate

VARIABLES
  m,                   \* the two stations
  dp,                  \* dp->status of each: what v32_process returned
  deferred,            \* Control_Flag of each
  overrun,             \* a transmit routine was asked for too many symbols
  line,                \* what each sent in its last block
  last,                \* the last piece of signal each heard before that
  turn, pc, budget,    \* whose block, where in it, symbols left to send
  retrains

vars == << m, dp, deferred, overrun, line, last, turn, pc, budget, retrains >>

Sides == {"org", "ans"}
Peer(s) == IF s = "org" THEN "ans" ELSE "org"

\* The statuses a station may post, and what v32_process makes of them.
ErrorCodes == {12, 14} \cup 16 .. 23
ConnectCodes == {3, 4, 13} \cup 24 .. 27
DpStatus(st) ==
  CASE st \in ErrorCodes -> "ERROR"
    [] st \in ConnectCodes -> "CONNECT"
    [] OTHER -> "OK"

-----------------------------------------------------------------------------
(***************************************************************************)
(* V32FP_recreate: options bit 10 is set by v32_create, so a station       *)
(* starts in state A; opt is options bit 9.                                *)
(***************************************************************************)

Created(s, cfg, opt) ==
  [ mode |-> s, own |-> cfg.own, named |-> cfg.named, opt |-> opt,
    state |-> "A", timer |-> 0, charge |-> Sym, rx |-> "Tone",
    tx |-> IF s = "org" THEN "Null" ELSE "Tone",
    left |-> IF s = "org" THEN Limit ELSE Scaled(7920),
    tone |-> 2100, gen |-> Gen("silence"), det |-> "R", match |-> {},
    regs |-> [i \in 1 .. 4 |-> {}], a8 |-> 0, aa |-> 0, ac |-> 0,
    i90 |-> FALSE, s46 |-> 0, status |-> 1, carrier |-> FALSE,
    data |-> FALSE, loss |-> 0, txr |-> 0, rxr |-> 0,
    rmod |-> 0, esent |-> 0 ]

\* V32FP_control with V32_CTL1_RETRAIN: from state B, past its wait.
Retrained(h, s, opt, fallback) ==
  LET own == IF fallback THEN Fallback(h.own, h.rxr) ELSE h.own
      cfg == [own |-> own, named |-> IF own = h.own THEN h.named ELSE own]
      k == NextState([Created(s, cfg, opt) EXCEPT
                        !.state = "B",
                        !.timer = IF s = "org" THEN Scaled(2400) ELSE 0])
  IN [k EXCEPT !.carrier = TRUE, !.status = 11]

Init ==
  /\ \E cfg \in Calls :
       m = [s \in Sides |-> Created(s, cfg[s], TRUE)]
  /\ dp = [s \in Sides |-> "OK"]
  /\ deferred = [s \in Sides |-> FALSE]
  /\ overrun = [s \in Sides |-> FALSE]
  /\ line = [s \in Sides |-> << Gen("silence") >>]
  /\ last = [s \in Sides |-> "silence"]
  /\ turn = "org" /\ pc = "rx" /\ budget = 0 /\ retrains = 0

-----------------------------------------------------------------------------
(***************************************************************************)
(* What a station hears: the detectors of the signal processing.           *)
(***************************************************************************)

Heard(s) == line[Peer(s)]
KindsHeard(s) == { Heard(s)[i].kind : i \in 1 .. Len(Heard(s)) }
Possible(b) == IF b THEN BOOLEAN ELSE {FALSE}

ToneKinds(hz) ==
  CASE hz = 2100 -> {"ANS"}
    [] hz = 600 -> {"AC", "CA"}
    [] hz = 1800 -> {"AA", "CC"}
    [] hz = 0 -> {}

\* FPM_TONE_detect, and its loss.
ToneHeard(s) == ToneKinds(m[s].tone) \cap KindsHeard(s) # {}
ToneGone(s) == ~(KindsHeard(s) \subseteq ToneKinds(m[s].tone))

\* FPM_TONE_find_rev: the tone goes on with its phase turned.
ReversalHeard(s) ==
  LET pieces == << last[s] >> \o [i \in 1 .. Len(Heard(s)) |-> Heard(s)[i].kind]
      turned == IF m[s].tone = 600 THEN {"AC", "CA"} ELSE {"AA", "CC"}
  IN \E i \in 1 .. Len(pieces) - 1 :
       {pieces[i], pieces[i + 1]} = turned

\* DetSequence: the rate word, or E, that is heard last.
WordsHeard(s, kind) ==
  { Heard(s)[i].seq : i \in { j \in 1 .. Len(Heard(s)) :
                                Heard(s)[j].kind = kind } }

-----------------------------------------------------------------------------
(***************************************************************************)
(* The receive routines, one of which V32RxHdxModem calls.                 *)
(***************************************************************************)

Alive(s) == dp[s] # "ERROR" /\ ~overrun[s]

Receiving(s, rx) ==
  /\ turn = s /\ pc = "rx" /\ Alive(s)
  /\ m[s].mode # "data" /\ m[s].rx = rx

\* v32_handshake drops V32_FLAG_01; every routine counts the block.  (One
\* routine never runs: RxHdxError follows a status that makes v32_process
\* refuse every later block.  Were it called, the call would halt in a
\* deadlock.)
RxStart(s) == [m[s] EXCEPT !.data = FALSE, !.timer = @ + Sym]

LastHeard(s) == Heard(s)[Len(Heard(s))].kind

RxEnd(s, h) ==
  /\ m' = [m EXCEPT ![s] = h]
  /\ last' = [last EXCEPT ![s] = LastHeard(s)]
  /\ pc' = "tx" /\ budget' = Sym
  /\ UNCHANGED << dp, deferred, overrun, line, turn, retrains >>

\* The tail of most routines: the wait has lasted too long.
Timed(h, st) == IF h.timer >= Limit THEN Fail(h, st) ELSE h

SatAdd(x, bound) == IF x + Sym > bound + 1 THEN bound + 1 ELSE x + Sym

RxHdxToneForever(s) ==
  /\ Receiving(s, "Tone")
  /\ \E found \in Possible(ToneHeard(s)) :
       LET h == [RxStart(s) EXCEPT !.timer = IF @ > Limit THEN Limit ELSE @]
       IN RxEnd(s, IF found THEN NextState(h) ELSE h)
RxHdxTone(s) ==
  /\ Receiving(s, "Tone")
  /\ \E found \in Possible(ToneHeard(s)) :
       LET h == RxStart(s)
       IN RxEnd(s, Timed(IF found THEN NextState(h) ELSE h, 16))

RxHdxNoSignal(s) ==
  /\ Receiving(s, "NoSignal")
  /\ \E gone \in Possible(ToneGone(s)) :
       LET h == [RxStart(s) EXCEPT !.aa = SatAdd(@, Scaled(95))]
       IN RxEnd(s, Timed(IF gone /\ h.timer > Scaled(60)
                         THEN NextState(h) ELSE h, 17))

\* Until the tone has been there for four blocks, reversals do not count.
RxHdxPhsReversal(s) ==
  /\ Receiving(s, "PhsReversal")
  /\ \E rev \in Possible(ReversalHeard(s)), tone \in Possible(ToneHeard(s)) :
       LET h == [RxStart(s) EXCEPT !.a8 = SatAdd(@, Scaled(72))]
           k == IF h.i90 /\ rev
                THEN NextState([h EXCEPT !.timer = Tad]) ELSE h
           ac == IF tone THEN k.ac + 1 ELSE 0
           j == CASE k.i90 -> k
                  [] ~k.i90 /\ ac > 3 -> [k EXCEPT !.i90 = TRUE, !.ac = 0]
                  [] OTHER -> [k EXCEPT !.ac = ac]
       IN RxEnd(s, Timed(j, 18))

RxStep(s, h, found, seq) ==
  IF found THEN NextState([h EXCEPT !.match = seq]) ELSE h

\* Two rate words in a row that are the same.
RxHdxRateSequence(s) ==
  /\ Receiving(s, "RateSequence")
  /\ \/ RxEnd(s, Timed(RxStart(s), 19))
     \/ \E seq \in WordsHeard(s, m[s].det) :
          RxEnd(s, Timed(RxStep(s, RxStart(s), TRUE, seq), 19))

RxHdxSequence(s) ==
  /\ Receiving(s, "Sequence")
  /\ \/ RxEnd(s, Timed(RxStart(s), 19))
     \/ \E seq \in WordsHeard(s, m[s].det) :
          RxEnd(s, Timed(RxStep(s, RxStart(s), TRUE, seq), 19))

RxHdxData(s) == Receiving(s, "Data") /\ RxEnd(s, RxStart(s))

\* State I lasts into a second block when a countdown, not R1, ended state H
\* in the middle of a block.
RxHdxNull(s) == Receiving(s, "Null") /\ RxEnd(s, Timed(RxStart(s), 16))

RxHdxSTone(s) ==
  /\ Receiving(s, "STone")
  /\ \E found \in Possible("S" \in KindsHeard(s)) :
       LET h == RxStart(s)
       IN RxEnd(s, Timed(IF found THEN NextState(h) ELSE h, 20))

RxHdxEpoch(s) ==
  /\ Receiving(s, "Epoch")
  /\ \E found \in Possible("Sbar" \in KindsHeard(s)) :
       LET h == RxStart(s)
       IN RxEnd(s, Timed(IF found THEN NextState(h) ELSE h, 21))

-----------------------------------------------------------------------------
(***************************************************************************)
(* The transmit routines, which V32TxHdxModem calls while the block has    *)
(* symbols left.                                                           *)
(***************************************************************************)

Sending(s, tx) ==
  /\ turn = s /\ pc = "tx" /\ ~overrun[s] /\ m[s].tx = tx

SteppedAtZero(h) == IF h.left = 0 THEN NextState(h) ELSE h
Stepped(h) == IF h.left <= 0 THEN NextState(h) ELSE h

TxEnd(s, h, sig, n) ==
  /\ m' = [m EXCEPT ![s] = h]
  /\ line' = [line EXCEPT ![s] =
       LET old == IF budget = Sym THEN << >> ELSE @
       IN IF n = 0 THEN @
          ELSE IF old # << >> /\ old[Len(old)] = sig THEN old
          ELSE Append(old, sig)]
  /\ budget' = budget - n
  /\ pc' = IF budget' = 0 THEN "end" ELSE "tx"
  /\ UNCHANGED << dp, deferred, overrun, last, turn, retrains >>

\* TxHdxTone and TxHdxNull take the whole block and charge block_charge.
WholeBlock(s, sig) ==
  TxEnd(s, Stepped([m[s] EXCEPT !.left = @ - m[s].charge]), sig, budget)

TxHdxTone(s) ==
  /\ Sending(s, "Tone")
  /\ WholeBlock(s, IF m[s].tone = 2100 THEN Gen("ANS") ELSE Gen("silence"))

TxHdxNull(s) == Sending(s, "Null") /\ WholeBlock(s, Gen("silence"))

\* The others send `count' symbols and charge the symbols they were offered.
Count(s) ==
  IF m[s].left > budget THEN budget ELSE m[s].left % 65536

SendSymbols(s, h, n, sig) ==
  TxEnd(s, Stepped([h EXCEPT !.left = @ - budget]), sig, n)

\* Of a rate or E word only a whole one can be recognised, and E only where
\* a rate word would have started.
Sent(h, n) ==
  [h EXCEPT !.rmod = IF h.gen.kind = "R" THEN (@ + n) % Scaled(8) ELSE @,
            !.esent = IF h.gen.kind = "E" THEN @ + n ELSE @]
Audible(h, n) ==
  CASE h.gen.kind = "R" /\ h.rmod + n < Scaled(8) -> Gen("data")
    [] h.gen.kind = "E" /\ (h.rmod # 0 \/ h.esent + n # Scaled(8)) ->
         Gen("data")
    [] OTHER -> h.gen

\* A count beyond the block: GenSequence and ModDataV32 run past the buffers.
TxHdxOverrun(s) ==
  /\ turn = s /\ pc = "tx" /\ ~overrun[s]
  /\ m[s].tx \in {"CarrierState", "TRN", "ScrSequence"} /\ Count(s) > budget
  /\ overrun' = [overrun EXCEPT ![s] = TRUE]
  /\ pc' = "end" /\ budget' = 0
  /\ UNCHANGED << m, dp, deferred, line, last, turn, retrains >>

TxHdxCarrierState(s) ==
  /\ Sending(s, "CarrierState") /\ Count(s) <= budget
  /\ SendSymbols(s, m[s], Count(s), m[s].gen)

TxHdxScrSequence(s) ==
  /\ Sending(s, "ScrSequence") /\ Count(s) <= budget
  /\ SendSymbols(s, Sent(m[s], Count(s)), Count(s), Audible(m[s], Count(s)))

TxHdxTRN(s) ==
  /\ Sending(s, "TRN") /\ Count(s) <= budget
  /\ SendSymbols(s, m[s], Count(s), m[s].gen)

TxHdxNoCarrier(s) ==
  /\ Sending(s, "NoCarrier")
  /\ LET n == IF m[s].left <= 0 THEN 0 ELSE Count(s)
     IN SendSymbols(s, m[s], n, Gen("silence"))

TxHdxFinishFrame(s) ==
  /\ Sending(s, "FinishFrame") /\ SendSymbols(s, m[s], budget, Gen("silence"))

-----------------------------------------------------------------------------
(***************************************************************************)
(* Data mode, and the end of a block.                                      *)
(***************************************************************************)

\* FPM_FSE_receive: a period of two symbols for 60 symbols (fse_quality).
RetrainHeard(s) ==
  m[s].opt /\ KindsHeard(s) \cap {"AA", "CC", "AC", "CA"} # {}

DataBlock(s) == turn = s /\ pc = "rx" /\ Alive(s) /\ m[s].mode = "data"

DataEnd(s) ==
  /\ line' = [line EXCEPT ![s] = << Gen("data") >>]
  /\ last' = [last EXCEPT ![s] = LastHeard(s)]
  /\ pc' = "end"
  /\ UNCHANGED << dp, overrun, turn, budget >>

\* The carrier has been away for longer than energy_drop_time.
LostNever(blocks) == FALSE
Lost(blocks) == blocks > LossLimit

\* v32_data.  V32FP_status asks for a retrain after too many blocks of low
\* SNR, and the rest of the block then runs on the re-created station.
v32_data(s) ==
  /\ DataBlock(s) /\ ~deferred[s]
  /\ \E drop \in BOOLEAN, req \in Possible(RetrainHeard(s)) :
       LET h == IF drop THEN Retrained(m[s], s, TRUE, TRUE) ELSE m[s]
           carrier == KindsHeard(s) # {"silence"}
           loss == IF carrier THEN 0 ELSE IF h.loss > LossLimit THEN h.loss
                                        ELSE h.loss + 1
           lost == Lost(loss)
       IN /\ drop => retrains < MaxRetrains
          /\ retrains' = IF drop THEN retrains + 1 ELSE retrains
          /\ ~(drop /\ req)
          /\ m' = [m EXCEPT ![s] =
               [h EXCEPT !.carrier = carrier,
                         !.data = @ /\ ~req,
                         !.loss = loss,
                         !.status = IF lost THEN 12
                                    ELSE IF req THEN 9 ELSE 0]]
          /\ deferred' = [deferred EXCEPT ![s] = req]
          /\ DataEnd(s)

\* The control of a retrain request is issued a block late, with a block of
\* options that was never filled in: opt is whatever was on the stack.
v32_data_control(s) ==
  /\ DataBlock(s) /\ deferred[s]
  /\ \E opt \in BOOLEAN :
       m' = [m EXCEPT ![s] = Retrained(m[s], s, opt, FALSE)]
  /\ deferred' = [deferred EXCEPT ![s] = FALSE]
  /\ UNCHANGED retrains
  /\ DataEnd(s)

\* The end of V32FP_modem, and v32_process.
v32_process(s) ==
  /\ turn = s /\ pc = "end"
  /\ m' = [m EXCEPT ![s] =
       IF m[s].data THEN [m[s] EXCEPT !.mode = "data", !.state = "DONT_CARE"]
                    ELSE m[s]]
  /\ dp' = [dp EXCEPT ![s] = DpStatus(m[s].status)]
  /\ turn' = Peer(s) /\ pc' = "rx"
  /\ UNCHANGED << deferred, overrun, line, last, budget, retrains >>

\* A station that has failed only sends silence.
v32_process_error(s) ==
  /\ turn = s /\ pc = "rx" /\ ~Alive(s)
  /\ line' = [line EXCEPT ![s] = << Gen("silence") >>]
  /\ turn' = Peer(s)
  /\ UNCHANGED << m, dp, deferred, overrun, last, pc, budget, retrains >>

-----------------------------------------------------------------------------

Receive(s) ==
  \/ RxHdxTone(s) \/ RxHdxNoSignal(s) \/ RxHdxPhsReversal(s)
  \/ RxHdxRateSequence(s) \/ RxHdxSequence(s) \/ RxHdxData(s)
  \/ RxHdxNull(s) \/ RxHdxSTone(s) \/ RxHdxEpoch(s)

Transmit(s) ==
  \/ TxHdxTone(s) \/ TxHdxNull(s) \/ TxHdxCarrierState(s)
  \/ TxHdxScrSequence(s) \/ TxHdxTRN(s) \/ TxHdxNoCarrier(s)
  \/ TxHdxFinishFrame(s) \/ TxHdxOverrun(s)

Block(s) ==
  \/ Receive(s) \/ Transmit(s) \/ v32_data(s) \/ v32_data_control(s)
  \/ v32_process(s) \/ v32_process_error(s)

Next == \E s \in Sides : Block(s)

Spec == Init /\ [][Next]_vars
FairSpec == Spec /\ WF_vars(Next)

-----------------------------------------------------------------------------

TypeOK ==
  /\ DOMAIN m = Sides
  /\ \A s \in Sides :
       /\ m[s].mode \in {s, "data"} /\ m[s].timer \in Nat /\ m[s].left \in Int
       /\ m[s].status \in 0 .. 28 /\ m[s].regs \in [1 .. 4 -> SUBSET Bits]
       /\ m[s].txr \in Rates /\ m[s].rxr \in Rates /\ m[s].gen.kind \in Kinds
       /\ m[s].gen.seq \subseteq Bits /\ m[s].match \subseteq Bits
       /\ m[s].rmod \in 0 .. Scaled(8) - 1 /\ m[s].esent \in 0 .. Scaled(8)
       /\ m[s].own \in Rates /\ m[s].ac \in 0 .. 3
  /\ dp \in [Sides -> {"OK", "CONNECT", "ERROR"}]
  /\ deferred \in [Sides -> BOOLEAN] /\ overrun \in [Sides -> BOOLEAN]
  /\ \A s \in Sides : line[s] # << >> /\ last[s] \in Kinds
  /\ turn \in Sides /\ pc \in {"rx", "tx", "end"} /\ budget \in 0 .. Sym
  /\ retrains \in 0 .. MaxRetrains

\* Two stations that are both in data mode send and expect the same rates:
\* each settled its receive mode from the other's E word (V32org.c U,
\* V32ans.c Y) and its transmit mode from a word it heard earlier.  It is a
\* rate each of them has.
RatesAgree ==
  (\A s \in Sides : m[s].mode = "data" /\ Alive(s)) =>
     \A s \in Sides :
       /\ m[s].txr = m[Peer(s)].rxr
       /\ \E r \in Rates : /\ Reported(r) = m[s].txr
                          /\ V32_FINAL_RATE_SEQ[r] \ {"T"}
                               \subseteq V32_RATE_SEQ[m[s].own]

\* No station reports a connection whose rate the other does not send at,
\* or with a rate word that has no rate of its own in it (V32_STATUS_17 is
\* posted but the handshake goes on).
ConnectBacked ==
  [][\A s \in Sides : (dp'[s] = "CONNECT" /\ dp[s] # "CONNECT") =>
        /\ m[s].rxr = m[Peer(s)].txr
        /\ common_rate(m[s].own, m[s].regs[4]) # NONE]_vars

\* E is sent once, so it is sent whole: no detection, of whatever the other
\* station sends meanwhile, ends the step that sends it early.
EWhole ==
  \A s \in Sides : m[s].gen.kind = "B1" => m[s].esent = Scaled(8)

\* When the awaited word ends R (or X2), the wait computed for E ends on the
\* boundary of the rate words sent so far, which began two or three states
\* earlier; unless the countdown, not the epoch, ended P.
EAligned ==
  \A s \in Sides :
       ( /\ pc = "rx" /\ m[s].state \in {"R", "X2"}
         /\ m'[s].state \in {"S", "Y"} /\ m[s].s46 <= Limit )
       => (m'[s].rmod + m'[s].left) % Scaled(8) = 0

\* E is sent when the other station is waiting for it: unless that has given
\* up or has stepped on by its own countdown, its receive routine looks for E.
\* (A station that has just failed sends an E of no rate.)
EAwaited ==
  \A s \in Sides :
       ( /\ m'[s].gen.kind = "E" /\ m[s].gen.kind = "R"
         /\ m'[s].status \notin ErrorCodes ) =>
          \/ ~Alive(Peer(s))
          \/ m[Peer(s)].rx = "Sequence" /\ m[Peer(s)].det = "E"
          \/ m[Peer(s)].state \in {"ERROR", "V", "Y", "Z", "END"}

\* E comes when it should and whole: on the boundary of the rate words before
\* it, and to a station that looks for it.
EOnTime == [][EWhole' /\ EAligned /\ EAwaited]_vars

\* Only two states can ask for more symbols than a block has: the answering
\* station's C, which waits on after its countdown, and the calling station's
\* P, which takes over what the countdown of O left, even less than nothing.
\* Everywhere else a countdown that has run out is re-armed, or left to
\* TxHdxNoCarrier, before the next routine is called.
OverrunKnown ==
  \A s \in Sides :
    overrun[s] => m[s].state = IF s = "ans" THEN "C" ELSE "P"

\* The safety of one station: its types, and no routine but those of states C
\* and P asked for more symbols than a block has.
StationInv == TypeOK /\ OverrunKnown

\* V32TxHdxModem "calls the current TRANSMIT state until the block's symbol
\* budget is spent" (include/dsplib/v32hdx.h): never beyond it.
BlockBudget == \A s \in Sides : ~overrun[s]

\* A handshake or a retrain comes to an end, whatever the detectors miss.
HandshakeEnds ==
  \A s \in Sides :
    m[s].mode # "data" ~> (m[s].mode = "data" \/ dp[s] = "ERROR" \/ overrun[s])

\* A connection does not stay half open: when one station is in data mode
\* and the other has left it, the first follows or gives up, or the second
\* comes back.
NotHalfOpen ==
  \A s \in Sides :
    (m[s].mode = "data" /\ m[Peer(s)].mode # "data")
      ~> (m[s].mode # "data" \/ ~Alive(s) \/ m[Peer(s)].mode = "data")

=============================================================================
