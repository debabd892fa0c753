----------------------------- MODULE V32States -----------------------------
(***************************************************************************)
(* src/pump/v32/V32org.c and V32ans.c: the steps of the V.32 handshake.    *)
(*                                                                         *)
(* h is the half-duplex context of one station (struct v32_hdx, with the   *)
(* status and flags of struct v32_modem).  A step is one call of           *)
(* V32NextState[mode]: it is made by a transmit routine whose countdown    *)
(* `left' has run out AND by a receive routine that has detected what it   *)
(* looks for, and it cannot tell which.  Times are in symbols; Scaled      *)
(* turns those of the source into those of the instance that is checked.   *)
(* The round trip delay (regs[0]) is the constant Rtd, and what a step     *)
(* tells the signal processing (gains, equalizer and echo canceller        *)
(* adaptation, scrambler seeds) is left out.                               *)
(***************************************************************************)
EXTENDS V32Rates

CONSTANTS
  Scaled(_),           \* a duration of the source, in symbols of the model
  Sym,                 \* symbol_len, symbols in a block
  Limit,               \* limit, of timer, and the countdown of an open wait
  Turnaround,          \* turnaround, V32_TURNAROUND_DLY
  Rtd                  \* the measured round trip delay

\* Every duration and threshold the source has.
Durations ==
  { 8, 16, 60, 72, 95, 128, 139, 180, 256, 1024, 1232, 1280, 1552, 2399, 2400,
    2656, 6764, 6912, 7100, 7920 }

\* A word (8 symbols) is no longer than a block (12), which is shorter than the
\* B1 that ends a handshake (128), a wait ends after its threshold, and the
\* waits of D and F, of 72 and 95 symbols, are far shorter than the limit.  A
\* count of the symbols of a block has 16 bits (symbol_len, a short).
ASSUME V32Assumption ==
  /\ Sym \in Nat \ {0} /\ Limit \in Nat \ {0}
  /\ Turnaround \in Nat /\ Rtd \in Nat
  /\ \A n \in Durations : Scaled(n) \in Nat \ {0}
  /\ Scaled(8) <= Sym /\ Sym < Scaled(128) /\ Sym < 65536
  /\ Scaled(2399) < Scaled(2400)
  /\ Limit > Scaled(72) + Sym /\ Limit > Scaled(95) + Sym

Kinds == { "silence", "ANS", "AA", "CC", "AC", "CA", "S", "Sbar", "TRN",
           "R", "E", "B1", "data" }
Gen(kind) == [kind |-> kind, seq |-> {}]
Word(kind, seq) == [kind |-> kind, seq |-> seq]

\* InitGenSequence, with the history of the rate words sent: their symbols
\* beyond whole words, and how much of the E word was sent.
InitGen(h, g) ==
  [h EXCEPT !.gen = g,
            !.rmod = IF g.kind \in {"E", "B1"} THEN @ ELSE 0,
            !.esent = IF g.kind = "B1" THEN @ ELSE 0]

\* InitDetSequence: looks for rate words, or for the E that ends them.
InitDet(h, kind) == [h EXCEPT !.det = kind, !.match = {}]

\* SetTxModeV32 and SetRxModeV32 with V32_TX_MODE[rate], V32_RX_MODE[rate]:
\* both 9600 modes report as rate 1; no rate is V32_STATUS_BAD_MODE.
Reported(rate) == IF rate = 2 THEN 1 ELSE rate
SetTxMode(h, rate) ==
  IF rate = NONE THEN [h EXCEPT !.status = 23]
                 ELSE [h EXCEPT !.txr = Reported(rate)]
SetRxModeTx(h, rate) ==
  IF rate = NONE THEN [h EXCEPT !.status = 23]
                 ELSE [h EXCEPT !.txr = Reported(rate)]
SetRxMode(h, rate) ==
  IF rate = NONE THEN [h EXCEPT !.status = 23]
                 ELSE [h EXCEPT !.rxr = Reported(rate)]

V32_CONNECT == [r \in AnyRate |-> << 4, 3, 25, 24, 26, 27, 14 >>[r + 1]]

\* V32_STATE_ERROR with TxHdxNoCarrier and RxHdxError, for reason st.
Fail(h, st) ==
  [h EXCEPT !.status = st, !.tx = "NoCarrier", !.rx = "Error",
            !.state = "ERROR"]

\* Most arms: a new state, its countdown, and timer = 0.
To(h, state, left) == [h EXCEPT !.state = state, !.left = left, !.timer = 0]
Txs(h, tx) == [h EXCEPT !.tx = tx]
Rxs(h, rx) == [h EXCEPT !.rx = rx]

\* Symbols to the end of the rate word of which n have been sent.
ToWordEndOff(n) == Scaled(8) - ((n + 1) % Scaled(8))
ToWordEnd(n) == Scaled(8) - (n % Scaled(8))

RoundedUp(n) == n + (n % 2)

-----------------------------------------------------------------------------
(***************************************************************************)
(* V32OrgNextState: the calling station.                                   *)
(***************************************************************************)

\* The rate word of register reg, as DecodeRateSeq and LoadReg give it.
DecodeReg(h, reg) == common_rate(h.own, h.regs[reg])

\* Ranging: the answer tone, AA, and the reversals both ends time.
OrgRanging(h) ==
  CASE h.state = "A" -> [To(h, "B", Limit) EXCEPT !.charge = 0]
    [] h.state = "B" ->
         IF h.timer <= Scaled(2399) THEN h
         ELSE [InitGen(To(h, "B2", Limit), Gen("AA")) EXCEPT
                 !.tone = 600, !.i90 = FALSE, !.tx = "CarrierState",
                 !.rx = "PhsReversal"]
    [] h.state = "B2" ->
         [h EXCEPT !.state = "C", !.left = h.timer, !.charge = Sym]
    [] h.state = "C" ->
         [InitGen(To(h, "D", Limit), Gen("CC")) EXCEPT
            !.charge = 0, !.a8 = 0]
    [] h.state = "D" ->
         IF h.a8 <= Scaled(72) THEN h
         ELSE [h EXCEPT !.state = "D2", !.tx = "NoCarrier",
                        !.rx = "NoSignal", !.left = Limit]
    [] h.state = "D2" ->
         [To(h, "E", Limit) EXCEPT
            !.status = 15, !.carrier = TRUE, !.tx = "NoCarrier",
            !.rx = "STone"]

\* Training: the answering station's S, TRN and R1, then its own S and TRN.
OrgTraining(h) ==
  CASE h.state = "E" ->
         SetRxMode(Rxs(Txs(To(h, "F", Limit), "NoCarrier"), "Epoch"), 0)
    [] h.state = "F" ->
         Rxs(Txs(To(h, "G", Scaled(1280)), "NoCarrier"), "Data")
    [] h.state = "G" ->
         InitDet(SetRxMode(Rxs(Txs(To(h, "H", Limit), "NoCarrier"),
                               "RateSequence"), 0), "R")
    [] h.state = "H" -> Rxs(Txs(To(h, "I", Sym), "NoCarrier"), "Null")
    [] h.state = "I" ->
         [InitGen(SetTxMode(To(h, "J",
                               RoundedUp(Scaled(256) + Turnaround + Rtd)), 0),
                  Gen("S")) EXCEPT
            !.tx = "CarrierState", !.rx = "Data", !.regs[1] = h.match]
    [] h.state = "J" ->
         InitGen(Rxs(Txs(To(h, "K", Scaled(16)), "CarrierState"), "Data"),
                 Gen("Sbar"))
    [] h.state = "K" ->
         InitGen(Txs(To(h, "L", Scaled(256)), "TRN"), Gen("TRN"))
    [] h.state = "L" -> Txs(To(h, "M", Scaled(1024)), "ScrSequence")
    [] h.state = "M" -> Txs(To(h, "N", Scaled(6912)), "ScrSequence")

\* Rates: R2 until R3 is heard, then E, and data once E is heard.
OrgRates(h) ==
  CASE h.state = "N" ->
         LET seq == CodeRateSeq(h.own, h.regs[1])
         IN [InitDet(InitGen(SetTxMode(To(h, "O", Limit), 0),
                             Word("R", seq)), "R") EXCEPT
               !.tx = "ScrSequence", !.rx = "STone", !.regs[2] = seq]
    [] h.state = "O" ->
         SetRxMode([h EXCEPT !.state = "P", !.timer = 0,
                             !.tx = "ScrSequence", !.rx = "Epoch"], 0)
    [] h.state = "P" ->
         [To(h, "Q", Scaled(1232)) EXCEPT
            !.s46 = Limit - h.left, !.tx = "ScrSequence", !.rx = "Data"]
    [] h.state = "Q" ->
         InitDet(Rxs(Txs(To(h, "R", Limit), "ScrSequence"), "Sequence"), "R")
    [] h.state = "R" ->
         [h EXCEPT
            !.state = "S", !.regs[3] = h.match,
            !.left = ToWordEnd(Scaled(1232) + (Limit - h.left) + h.s46)]
    [] h.state = "S" ->
         LET k == InitDet(InitGen(To(h, "T", Scaled(8)),
                              Word("E", CodeESeq(h.own, h.regs[3]))), "E")
         IN [k EXCEPT !.tx = "ScrSequence", !.rx = "Sequence",
                      !.status = IF DecodeReg(h, 3) = NONE THEN 23 ELSE @]
    [] h.state = "T" ->
         InitGen(SetTxMode(To(h, "U", Limit), DecodeReg(h, 3)), Gen("B1"))
    [] h.state = "U" ->
         SetRxMode([To(h, "V", Scaled(128)) EXCEPT
                      !.rx = "Data", !.regs[4] = h.match],
                   common_rate(h.own, h.match))
    [] h.state = "V" ->
         [To(h, "V", Limit) EXCEPT
            !.rx = "Data", !.data = TRUE,
            !.status = V32_CONNECT[DecodeReg(h, 3)]]

OrgNextState(h) ==
  CASE h.state \in {"A", "B", "B2", "C", "D", "D2"} -> OrgRanging(h)
    [] h.state \in {"E", "F", "G", "H", "I", "J", "K", "L", "M"} ->
         OrgTraining(h)
    [] h.state \in {"N", "O", "P", "Q", "R", "S", "T", "U", "V"} -> OrgRates(h)
    [] h.state = "ERROR" -> [h EXCEPT !.left = Limit]

-----------------------------------------------------------------------------
(***************************************************************************)
(* V32AnsNextState: the answering station.  Arms A, B2, C, D, E and F wait *)
(* for a condition and may do nothing.                                     *)
(***************************************************************************)

\* Ranging: the answer tone, AC, and the reversals both ends time.
AnsRanging(h) ==
  CASE h.state = "A" ->
         IF h.left > 0 THEN h
         ELSE [h EXCEPT !.state = "B", !.left = Scaled(180), !.tone = 0]
    [] h.state = "B" ->
         [InitGen(To(h, "B2", IF h.opt THEN Scaled(2656) ELSE Scaled(256)),
                  Gen("AC")) EXCEPT !.tx = "CarrierState", !.tone = 1800]
    [] h.state = "B2" ->
         IF h.left <= 0 THEN Fail(h, 22)
         ELSE [h EXCEPT !.state = "C", !.i90 = TRUE, !.timer = 0]
    [] h.state = "C" ->
         IF h.timer <= Scaled(139) THEN h
         ELSE [InitGen(To(h, "D", Limit), Gen("CA")) EXCEPT
                 !.i90 = TRUE, !.rx = "PhsReversal", !.a8 = 0]
    [] h.state = "D" ->
         IF h.a8 <= Scaled(72) THEN h
         ELSE [To(h, "E", RoundedUp(h.timer)) EXCEPT
                 !.rx = "NoSignal", !.tone = 1800]
    [] h.state = "E" ->
         IF h.left > 0 THEN h
         ELSE [InitGen(h, Gen("AC")) EXCEPT
                 !.state = "F", !.left = Limit, !.aa = 0]
    [] h.state = "F" ->
         IF h.aa <= Scaled(95) THEN h
         ELSE [To(h, "F2", Scaled(16)) EXCEPT
                 !.status = 15, !.carrier = TRUE, !.tx = "NoCarrier",
                 !.rx = "Data"]
    [] h.state = "F2" -> Txs(To(h, "G", Sym), "FinishFrame")

\* Training: its own S, TRN and R1, then the calling station's S and R2.
AnsTraining(h) ==
  CASE h.state = "G" ->
         InitGen(SetTxMode(Txs(To(h, "H", Scaled(256)), "CarrierState"), 0),
                 Gen("S"))
    [] h.state = "H" ->
         InitGen(Txs(To(h, "I", Scaled(16)), "CarrierState"), Gen("Sbar"))
    [] h.state = "I" ->
         InitGen(Txs(To(h, "J", Scaled(256)), "TRN"), Gen("TRN"))
    [] h.state = "J" -> Txs(To(h, "K", Scaled(1024)), "ScrSequence")
    [] h.state = "K" -> To(h, "L", Scaled(6764))
    [] h.state = "L" ->
         LET seq == CodeRateSeq(h.own, V32_RATE_SEQ[h.named])
         IN [InitGen(SetTxMode(To(h, "M", Limit), 0), Word("R", seq)) EXCEPT
               !.rx = "STone", !.regs[1] = seq]
    [] h.state = "M" ->
         Rxs(Txs(To(h, "N", Rtd + Turnaround), "NoCarrier"), "Data")
    [] h.state = "N" ->
         [h EXCEPT !.state = "O", !.left = Limit, !.tone = 1800,
                   !.rx = "STone"]
    [] h.state = "O" -> SetRxMode(Rxs(To(h, "P", Limit), "Epoch"), 0)
    [] h.state = "P" ->
         Rxs(Txs(To(h, "Q", Scaled(1552)), "NoCarrier"), "Data")
    [] h.state = "Q" ->
         InitDet(SetRxMode(Rxs(To(h, "T", Limit), "RateSequence"), 0), "R")

\* Rates: S and TRN again, R3 until E is heard, E, and data.
AnsRates(h) ==
  CASE h.state = "T" ->
         LET k == InitGen(SetTxMode(To(h, "U", Scaled(256)), 0), Gen("S"))
         IN [k EXCEPT
               !.tx = "CarrierState", !.rx = "Data", !.regs[2] = h.match,
               !.status = IF common_rate(h.own, h.match) = NONE
                          THEN 23 ELSE @]
    [] h.state = "U" ->
         InitGen(Txs(To(h, "V", Scaled(16)), "CarrierState"), Gen("Sbar"))
    [] h.state = "V" ->
         InitGen(Txs(To(h, "W", Scaled(256)), "TRN"), Gen("TRN"))
    [] h.state = "W" -> Txs(To(h, "X", Scaled(7100)), "ScrSequence")
    [] h.state = "X" ->
         [InitDet(InitGen(SetTxMode(To(h, "X2", Limit), 0),
                          Word("R", CodeFinalRateSeq(h.own, h.regs[2]))), "E")
            EXCEPT !.tx = "ScrSequence", !.rx = "Sequence"]
    [] h.state = "X2" ->
         [h EXCEPT !.state = "Y", !.left = ToWordEnd(Limit - h.left),
                   !.regs[4] = h.match]
    [] h.state = "Y" ->
         [InitGen(SetRxMode(h, DecodeReg(h, 4)),
                  Word("E", CodeESeq(h.own, h.regs[4]))) EXCEPT
            !.state = "Z", !.left = Scaled(8), !.tx = "ScrSequence",
            !.rx = "Data"]
    [] h.state = "Z" ->
         [SetTxMode(InitGen(To(h, "END", Scaled(128)), Gen("B1")),
                    DecodeReg(h, 4)) EXCEPT !.tx = "ScrSequence", !.rx = "Data"]
    [] h.state = "END" ->
         [To(h, "END", Limit) EXCEPT
            !.data = TRUE, !.status = V32_CONNECT[DecodeReg(h, 4)]]

AnsNextState(h) ==
  CASE h.state \in {"A", "B", "B2", "C", "D", "E", "F", "F2"} -> AnsRanging(h)
    [] h.state \in {"G", "H", "I", "J", "K", "L", "M", "N", "O", "P", "Q"} ->
         AnsTraining(h)
    [] h.state \in {"T", "U", "V", "W", "X", "X2", "Y", "Z", "END"} ->
         AnsRates(h)
    [] h.state = "ERROR" -> [h EXCEPT !.left = Limit]

NextState(h) == IF h.mode = "org" THEN OrgNextState(h) ELSE AnsNextState(h)

=============================================================================
