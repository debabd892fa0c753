---------------------------- MODULE V32Call_proofs ----------------------------
(***************************************************************************)
(* A V.32 station for every duration, limit, delay and rate: it keeps the  *)
(* types of its state, sends no more of E than there is of it, and only    *)
(* the steps into C and into P, which leave the countdown alone, can make  *)
(* a transmit routine ask for more symbols than a block has.  Then the     *)
(* two stations together: in data mode they agree on their rates, and a    *)
(* connection that is reported is one the other sends at.  At last the     *)
(* words a station sends: E starts where a rate word would have ended.     *)
(***************************************************************************)
EXTENDS V32Call, SequenceTheorems, TLAPS

OrgStates ==
  { "A", "B", "B2", "C", "D", "D2", "E", "F", "G", "H", "I", "J", "K", "L", "M",
    "N", "O", "P", "Q", "R", "S", "T", "U", "V", "ERROR" }
AnsStates ==
  { "A", "B", "B2", "C", "D", "E", "F", "F2", "G", "H", "I", "J", "K", "L", "M",
    "N", "O", "P", "Q", "T", "U", "V", "W", "X", "X2", "Y", "Z", "END", "ERROR" }

\* The pieces of signal.
Pieces == [kind : Kinds, seq : SUBSET Bits]

\* The fields of a station, by their types; those of the countdown and of E,
\* and the places in the machine, are elsewhere.
Fields ==
  { "mode", "own", "named", "opt", "state", "timer", "charge", "rx", "tx",
    "left", "tone", "gen", "det", "match", "regs", "a8", "aa", "ac", "i90",
    "s46", "status", "carrier", "data", "loss", "txr", "rxr", "rmod", "esent" }
Rated(h) ==
  /\ h.own \in Rates /\ h.named \in AnyRate /\ h.txr \in Rates /\ h.rxr \in Rates
  /\ h.match \in SUBSET Bits /\ h.regs \in [1 .. 4 -> SUBSET Bits]
Counted(h) ==
  /\ h.timer \in Nat /\ h.charge \in Nat /\ h.left \in Int /\ h.s46 \in Int
  /\ h.a8 \in Nat /\ h.aa \in Nat /\ h.ac \in 0 .. 3 /\ h.status \in 0 .. 28
  /\ h.data \in BOOLEAN
Worded(h) ==
  /\ h.gen \in Pieces
  /\ h.rmod \in 0 .. Scaled(8) - 1 /\ h.esent \in 0 .. Scaled(8)
Ctx(h) == DOMAIN h = Fields /\ Rated(h) /\ Counted(h) /\ Worded(h)

\* Where the machine of a station that is not in data mode can be, and what
\* it does there.
Placed(h) ==
  /\ \/ h.mode = "org" /\ h.state \in OrgStates
     \/ h.mode = "ans" /\ h.state \in AnsStates
  /\ h.mode = "org" /\ h.state \in {"A", "B"} => h.tx = "Null"
  /\ h.state \in {"B2", "C", "D", "E", "F"} => h.tx \notin {"Null", "Tone"}
  /\ h.mode = "org" /\ h.state \in {"B2", "C", "D"} => h.rx = "PhsReversal"
  /\ h.mode = "ans" /\ h.state = "D" => h.rx = "PhsReversal"
  /\ h.mode = "ans" /\ h.state \in {"E", "F"} => h.rx = "NoSignal"
  /\ h.state = "ERROR" => h.tx = "NoCarrier"
  /\ h.data = TRUE => h.state \in {IF h.mode = "org" THEN "V" ELSE "END", "ERROR"}
  /\ h.gen.kind = "E" => h.state \in {"T", "Z", "ERROR"}

\* The routines that send as many symbols as the countdown says.
Counting == { "CarrierState", "TRN", "ScrSequence" }

\* A countdown that a routine takes for symbols is not negative, but in the
\* two states that another left it to.
Rested(h) ==
  h.tx \in Counting =>
    h.left >= 0 \/ (h.state = IF h.mode = "ans" THEN "C" ELSE "P")

\* The waits of D and of F last as long as their countdown, but for a block,
\* of which b symbols are still to be charged.
Dwelt(h, b) ==
  /\ h.state = "D" => h.a8 > Scaled(72) \/ h.left + h.a8 - b >= Limit - Sym
  /\ h.mode = "ans" /\ h.state = "F" =>
       h.aa > Scaled(95) \/ h.left + h.aa - b >= Limit - Sym

\* What is left of E is what the countdown says, at least.
Unsent(h) ==
  h.gen.kind = "E" /\ h.state \in {"T", "Z"} => h.esent + h.left <= Scaled(8)

Good(h, b) == Ctx(h) /\ Placed(h) /\ Rested(h) /\ Dwelt(h, b) /\ Unsent(h)

\* What a step starts from: a detection, or a countdown that has run out.
Ready(h, b, b1) ==
  /\ Ctx(h) /\ Placed(h) /\ Dwelt(h, b) /\ b \in 0 .. Sym /\ b1 \in 0 .. Sym
  /\ (Rested(h) /\ b1 = b) \/ (h.left <= 0 /\ b = 0)

\* The symbols of the block that station s has still to send.
Owed(s) == IF turn = s /\ pc = "tx" THEN budget ELSE 0

\* One station between two routines.  One that has overrun stays where it is.
SideInv(s) ==
  /\ Ctx(m[s]) /\ m[s].mode \in {s, "data"}
  /\ m[s].mode = s => Good(m[s], Owed(s))
  /\ overrun[s] =>
       m[s].mode = s /\ m[s].state = IF s = "ans" THEN "C" ELSE "P"
  /\ line[s] \in Seq(Pieces) /\ line[s] # << >> /\ last[s] \in Kinds

\* The call: whose turn it is, and what v32_process keeps.
CallInv ==
  /\ DOMAIN m = Sides /\ DOMAIN line = Sides /\ DOMAIN last = Sides
  /\ dp \in [Sides -> {"OK", "CONNECT", "ERROR"}]
  /\ deferred \in [Sides -> BOOLEAN] /\ overrun \in [Sides -> BOOLEAN]
  /\ turn \in Sides /\ pc \in {"rx", "tx", "end"} /\ budget \in 0 .. Sym
  /\ retrains \in 0 .. MaxRetrains
  /\ pc = "tx" => m[turn].mode = turn

StationIInv == CallInv /\ \A s \in Sides : SideInv(s)

-----------------------------------------------------------------------------

\* The durations are positive, and the waits longer than what they wait for.
LEMMA Times ==
  /\ Sym \in Nat \ {0} /\ Limit \in Nat \ {0} /\ Turnaround \in Nat /\ Rtd \in Nat
  /\ Limit > Scaled(72) + Sym /\ Limit > Scaled(95) + Sym
  /\ \A n \in Durations : Scaled(n) \in Nat \ {0}
  /\ Scaled(8) \in Nat \ {0} /\ Scaled(72) \in Nat /\ Scaled(95) \in Nat
  /\ Scaled(8) <= Sym
BY V32Assumption DEF Durations

\* The rate two words have in common, or none.
LEMMA CommonRate ==
  ASSUME NEW own, NEW seq
  PROVE  common_rate(own, seq) \in AnyRate
<1> DEFINE both(b) == b \in seq /\ b \in V32_RATE_SEQ[own]
<1> HIDE DEF both
<1>1. ASSUME NEW c, c = (CASE both("14400") -> 5
       [] ~both("14400") /\ both("12000") -> 4
       [] ~both("14400") /\ ~both("12000") /\ both("9600") ->
            IF both("T") THEN 2 ELSE 1
       [] ~(\E b \in {"14400", "12000", "9600"} : both(b)) /\ both("7200") -> 3
       [] ~(\E b \in Bits \ {"T", "4800"} : both(b)) /\ both("4800") -> 0
       [] OTHER -> NONE)
      PROVE c \in AnyRate
  BY <1>1 DEF AnyRate, NONE
<1> QED
  BY <1>1, Zenon DEF common_rate, both

\* A rate word has only rate bits.
LEMMA SeqBits ==
  \A r \in AnyRate : /\ V32_RATE_SEQ[r] \in SUBSET Bits
                     /\ V32_FINAL_RATE_SEQ[r] \in SUBSET Bits
<1>1. \A r \in AnyRate : V32_RATE_SEQ[r] \in SUBSET Bits
  BY DEF V32_RATE_SEQ, AnyRate, NONE, Bits
<1>2. DOMAIN V32_RATE_SEQ = AnyRate
  BY DEF V32_RATE_SEQ
<1>3. {"14400", "T"} \in SUBSET Bits
  BY DEF Bits
<1> QED
  BY <1>1, <1>2, <1>3 DEF V32_FINAL_RATE_SEQ

\* So do the words a station answers with.
LEMMA CodeBits ==
  ASSUME NEW own, NEW seq
  PROVE  /\ CodeRateSeq(own, seq) \in SUBSET Bits
         /\ CodeFinalRateSeq(own, seq) \in SUBSET Bits
         /\ CodeESeq(own, seq) \in SUBSET Bits
BY CommonRate, SeqBits DEF CodeRateSeq, CodeFinalRateSeq, CodeESeq

\* The status of a connection is one.
LEMMA ConnectStatus ==
  \A r \in AnyRate : V32_CONNECT[r] \in 0 .. 28
BY DEF V32_CONNECT, AnyRate, NONE

\* A word ends within its length.
LEMMA WordEnd ==
  ASSUME NEW n \in Int
  PROVE  ToWordEnd(n) \in 1 .. Scaled(8)
BY Times DEF ToWordEnd

\* An even count of symbols.
LEMMA Even ==
  ASSUME NEW n \in Nat
  PROVE  RoundedUp(n) \in Nat
BY DEF RoundedUp

\* Loading a register.
LEMMA LoadReg ==
  ASSUME NEW regs \in [1 .. 4 -> SUBSET Bits], NEW i \in 1 .. 4,
         NEW w \in SUBSET Bits
  PROVE  [regs EXCEPT ![i] = w] \in [1 .. 4 -> SUBSET Bits]
OBVIOUS

\* The arms before the rates lead to none of the states that settle them, nor
\* to a rate word that a station has no rates for.
OrgEarly ==
  { "A", "B", "B2", "C", "D", "D2", "E", "F", "G", "H", "I", "J", "K", "L", "M",
    "N" }
Posts(h) == {h.status, 15, 22, 23}
OrgPassed(h, k) ==
  k.own = h.own /\ k.state \in OrgEarly /\ k.status \in Posts(h)
AnsEarly ==
  { "A", "B", "B2", "C", "D", "E", "F", "F2", "G", "H", "I", "J", "K", "L", "M",
    "N", "O", "P", "Q", "T" }
AnsPassed(h, k) ==
  /\ k.own = h.own /\ k.status \in Posts(h)
  /\ \/ k.state \in AnsEarly
     \/ k.state = "ERROR" /\ k.status = 22 /\ k.data = h.data
  /\ \/ k.gen = h.gen
     \/ k.gen.kind \notin {"R", "E"}
     \/ /\ k.gen.kind = "R"
        /\ k.gen.seq = CodeRateSeq(h.own, V32_RATE_SEQ[h.named])

\* Every arm of the calling station's ranging keeps a station good.
LEMMA OrgRangingGood ==
  ASSUME NEW h, NEW b, NEW b1, Ready(h, b, b1), h.mode = "org",
         h.state \in {"A", "B", "B2", "C", "D", "D2"}
  PROVE  /\ Good(OrgRanging(h), b1) /\ OrgRanging(h).mode = h.mode
         /\ OrgPassed(h, OrgRanging(h))
<1> USE Times
<1>1. CASE h.state = "A"
  <2> DEFINE k == [To(h, "B", Limit) EXCEPT !.charge = 0]
  <2>1. OrgRanging(h) = k
    BY <1>1 DEF OrgRanging
  <2>2. Ctx(k)
    BY <1>1 DEF To, Ready, Ctx, Fields, Rated, Counted, Worded, Pieces, Kinds,
       Rates, NONE
  <2>3. Placed(k)
    BY <1>1 DEF To, Ready, Ctx, Fields, Placed, OrgStates
  <2>4. Rested(k) /\ Dwelt(k, b1) /\ Unsent(k)
    BY <1>1 DEF To, Ready, Ctx, Fields, Counted, Worded, Placed, Rested,
       Counting, Dwelt, Unsent
  <2>5. k.mode = h.mode
    BY <1>1 DEF To, Ready, Ctx, Fields
  <2>6. OrgPassed(h, k)
    BY <1>1 DEF To, Ready, Ctx, Fields, OrgPassed, Posts, OrgEarly, NONE
  <2> QED
    BY <2>1, <2>2, <2>3, <2>4, <2>5, <2>6 DEF Good
<1>2. CASE h.state = "B"
  <2> DEFINE k ==
       IF h.timer <= Scaled(2399) THEN h
       ELSE [InitGen(To(h, "B2", Limit), Gen("AA")) EXCEPT
               !.tone = 600, !.i90 = FALSE, !.tx = "CarrierState",
               !.rx = "PhsReversal"]
  <2>1. OrgRanging(h) = k
    BY <1>2 DEF OrgRanging
  <2>0. Scaled(2399) \in Nat \ {0}
    BY Times DEF Durations
  <2>2. Ctx(k)
    BY <1>2, <2>0 DEF To, InitGen, Gen, Ready, Ctx, Fields, Rated, Counted,
       Worded, Pieces, Kinds, Rates, NONE
  <2>3. Placed(k)
    BY <1>2, <2>0 DEF To, InitGen, Gen, Ready, Ctx, Fields, Placed, OrgStates
  <2>4. Rested(k) /\ Dwelt(k, b1) /\ Unsent(k)
    BY <1>2, <2>0 DEF To, InitGen, Gen, Ready, Ctx, Fields, Counted, Worded,
       Placed, Rested, Counting, Dwelt, Unsent
  <2>5. k.mode = h.mode
    BY <1>2, <2>0 DEF To, InitGen, Gen, Ready, Ctx, Fields
  <2>6. OrgPassed(h, k)
    BY <1>2, <2>0 DEF To, InitGen, Gen, Ready, Ctx, Fields, OrgPassed, Posts,
       OrgEarly, NONE
  <2> QED
    BY <2>1, <2>2, <2>3, <2>4, <2>5, <2>6 DEF Good
<1>3. CASE h.state = "B2"
  <2> DEFINE k == [h EXCEPT !.state = "C", !.left = h.timer, !.charge = Sym]
  <2>1. OrgRanging(h) = k
    BY <1>3 DEF OrgRanging
  <2>2. Ctx(k)
    BY <1>3 DEF Ready, Ctx, Fields, Rated, Counted, Worded, Pieces, Kinds,
       Rates, NONE
  <2>3. Placed(k)
    BY <1>3 DEF Ready, Ctx, Fields, Placed, OrgStates
  <2>4. Rested(k) /\ Dwelt(k, b1) /\ Unsent(k)
    BY <1>3 DEF Ready, Ctx, Fields, Counted, Worded, Placed, Rested, Counting,
       Dwelt, Unsent
  <2>5. k.mode = h.mode
    BY <1>3 DEF Ready, Ctx, Fields
  <2>6. OrgPassed(h, k)
    BY <1>3 DEF Ready, Ctx, Fields, OrgPassed, Posts, OrgEarly, NONE
  <2> QED
    BY <2>1, <2>2, <2>3, <2>4, <2>5, <2>6 DEF Good
<1>4. CASE h.state = "C"
  <2> DEFINE k ==
       [InitGen(To(h, "D", Limit), Gen("CC")) EXCEPT
       !.charge = 0, !.a8 = 0]
  <2>1. OrgRanging(h) = k
    BY <1>4 DEF OrgRanging
  <2>2. Ctx(k)
    BY <1>4 DEF To, InitGen, Gen, Ready, Ctx, Fields, Rated, Counted, Worded,
       Pieces, Kinds, Rates, NONE
  <2>3. Placed(k)
    BY <1>4 DEF To, InitGen, Gen, Ready, Ctx, Fields, Placed, OrgStates
  <2>4. Rested(k) /\ Dwelt(k, b1) /\ Unsent(k)
    BY <1>4 DEF To, InitGen, Gen, Ready, Ctx, Fields, Counted, Worded, Placed,
       Rested, Counting, Dwelt, Unsent
  <2>5. k.mode = h.mode
    BY <1>4 DEF To, InitGen, Gen, Ready, Ctx, Fields
  <2>6. OrgPassed(h, k)
    BY <1>4
       DEF To, InitGen, Gen, Ready, Ctx, Fields, OrgPassed, Posts, OrgEarly,
       NONE
  <2> QED
    BY <2>1, <2>2, <2>3, <2>4, <2>5, <2>6 DEF Good
<1>5. CASE h.state = "D"
  <2> DEFINE k ==
       IF h.a8 <= Scaled(72) THEN h
       ELSE [h EXCEPT !.state = "D2", !.tx = "NoCarrier",
                      !.rx = "NoSignal", !.left = Limit]
  <2>1. OrgRanging(h) = k
    BY <1>5 DEF OrgRanging
  <2>2. Ctx(k)
    BY <1>5 DEF Ready, Ctx, Fields, Rated, Counted, Worded, Pieces, Kinds,
       Rates, NONE
  <2>3. Placed(k)
    BY <1>5 DEF Ready, Ctx, Fields, Placed, OrgStates
  <2>4. Rested(k) /\ Dwelt(k, b1) /\ Unsent(k)
    BY <1>5 DEF Ready, Ctx, Fields, Counted, Worded, Placed, Rested, Counting,
       Dwelt, Unsent
  <2>5. k.mode = h.mode
    BY <1>5 DEF Ready, Ctx, Fields
  <2>6. OrgPassed(h, k)
    BY <1>5 DEF Ready, Ctx, Fields, OrgPassed, Posts, OrgEarly, NONE
  <2> QED
    BY <2>1, <2>2, <2>3, <2>4, <2>5, <2>6 DEF Good
<1>6. CASE h.state = "D2"
  <2> DEFINE k ==
       [To(h, "E", Limit) EXCEPT
       !.status = 15, !.carrier = TRUE, !.tx = "NoCarrier",
       !.rx = "STone"]
  <2>1. OrgRanging(h) = k
    BY <1>6 DEF OrgRanging
  <2>2. Ctx(k)
    BY <1>6 DEF To, Ready, Ctx, Fields, Rated, Counted, Worded, Pieces, Kinds,
       Rates, NONE
  <2>3. Placed(k)
    BY <1>6 DEF To, Ready, Ctx, Fields, Placed, OrgStates
  <2>4. Rested(k) /\ Dwelt(k, b1) /\ Unsent(k)
    BY <1>6 DEF To, Ready, Ctx, Fields, Counted, Worded, Placed, Rested,
       Counting, Dwelt, Unsent
  <2>5. k.mode = h.mode
    BY <1>6 DEF To, Ready, Ctx, Fields
  <2>6. OrgPassed(h, k)
    BY <1>6 DEF To, Ready, Ctx, Fields, OrgPassed, Posts, OrgEarly, NONE
  <2> QED
    BY <2>1, <2>2, <2>3, <2>4, <2>5, <2>6 DEF Good
<1> QED
  BY <1>1, <1>2, <1>3, <1>4, <1>5, <1>6

\* So does every arm of its training,
LEMMA OrgTrainingGood ==
  ASSUME NEW h, NEW b, NEW b1, Ready(h, b, b1), h.mode = "org",
         h.state \in {"E", "F", "G", "H", "I", "J", "K", "L", "M"}
  PROVE  /\ Good(OrgTraining(h), b1) /\ OrgTraining(h).mode = h.mode
         /\ OrgPassed(h, OrgTraining(h))
<1> USE Times
<1>1. CASE h.state = "E"
  <2> DEFINE k == SetRxMode(Rxs(Txs(To(h, "F", Limit), "NoCarrier"), "Epoch"), 0)
  <2>1. OrgTraining(h) = k
    BY <1>1 DEF OrgTraining
  <2>2. Ctx(k)
    BY <1>1 DEF To, Txs, Rxs, SetRxMode, Reported, Ready, Ctx, Fields, Rated,
       Counted, Worded, Pieces, Kinds, Rates, NONE
  <2>3. Placed(k)
    BY <1>1 DEF To, Txs, Rxs, SetRxMode, Reported, Ready, Ctx, Fields, Placed,
       OrgStates
  <2>4. Rested(k) /\ Dwelt(k, b1) /\ Unsent(k)
    BY <1>1 DEF To, Txs, Rxs, SetRxMode, Reported, Ready, Ctx, Fields,
       Counted, Worded, Placed, Rested, Counting, Dwelt, Unsent
  <2>5. k.mode = h.mode
    BY <1>1 DEF To, Txs, Rxs, SetRxMode, Reported, Ready, Ctx, Fields
  <2>6. OrgPassed(h, k)
    BY <1>1 DEF To, Txs, Rxs, SetRxMode, Reported, Ready, Ctx, Fields,
       OrgPassed, Posts, OrgEarly, NONE
  <2> QED
    BY <2>1, <2>2, <2>3, <2>4, <2>5, <2>6 DEF Good
<1>2. CASE h.state = "F"
  <2> DEFINE k == Rxs(Txs(To(h, "G", Scaled(1280)), "NoCarrier"), "Data")
  <2>1. OrgTraining(h) = k
    BY <1>2 DEF OrgTraining
  <2>0. Scaled(1280) \in Nat \ {0}
    BY Times DEF Durations
  <2>2. Ctx(k)
    BY <1>2, <2>0 DEF To, Txs, Rxs, Ready, Ctx, Fields, Rated, Counted,
       Worded, Pieces, Kinds, Rates, NONE
  <2>3. Placed(k)
    BY <1>2, <2>0 DEF To, Txs, Rxs, Ready, Ctx, Fields, Placed, OrgStates
  <2>4. Rested(k) /\ Dwelt(k, b1) /\ Unsent(k)
    BY <1>2, <2>0 DEF To, Txs, Rxs, Ready, Ctx, Fields, Counted, Worded,
       Placed, Rested, Counting, Dwelt, Unsent
  <2>5. k.mode = h.mode
    BY <1>2, <2>0 DEF To, Txs, Rxs, Ready, Ctx, Fields
  <2>6. OrgPassed(h, k)
    BY <1>2, <2>0
       DEF To, Txs, Rxs, Ready, Ctx, Fields, OrgPassed, Posts, OrgEarly,
       NONE
  <2> QED
    BY <2>1, <2>2, <2>3, <2>4, <2>5, <2>6 DEF Good
<1>3. CASE h.state = "G"
  <2> DEFINE k ==
       InitDet(SetRxMode(Rxs(Txs(To(h, "H", Limit), "NoCarrier"),
       "RateSequence"), 0), "R")
  <2>1. OrgTraining(h) = k
    BY <1>3 DEF OrgTraining
  <2>2. Ctx(k)
    BY <1>3 DEF To, Txs, Rxs, InitDet, SetRxMode, Reported, Ready, Ctx,
       Fields, Rated, Counted, Worded, Pieces, Kinds, Rates, NONE
  <2>3. Placed(k)
    BY <1>3 DEF To, Txs, Rxs, InitDet, SetRxMode, Reported, Ready, Ctx,
       Fields, Placed, OrgStates
  <2>4. Rested(k) /\ Dwelt(k, b1) /\ Unsent(k)
    BY <1>3 DEF To, Txs, Rxs, InitDet, SetRxMode, Reported, Ready, Ctx,
       Fields, Counted, Worded, Placed, Rested, Counting, Dwelt, Unsent
  <2>5. k.mode = h.mode
    BY <1>3 DEF To, Txs, Rxs, InitDet, SetRxMode, Reported, Ready, Ctx, Fields
  <2>6. OrgPassed(h, k)
    BY <1>3 DEF To, Txs, Rxs, InitDet, SetRxMode, Reported, Ready, Ctx,
       Fields, OrgPassed, Posts, OrgEarly, NONE
  <2> QED
    BY <2>1, <2>2, <2>3, <2>4, <2>5, <2>6 DEF Good
<1>4. CASE h.state = "H"
  <2> DEFINE k == Rxs(Txs(To(h, "I", Sym), "NoCarrier"), "Null")
  <2>1. OrgTraining(h) = k
    BY <1>4 DEF OrgTraining
  <2>2. Ctx(k)
    BY <1>4 DEF To, Txs, Rxs, Ready, Ctx, Fields, Rated, Counted, Worded,
       Pieces, Kinds, Rates, NONE
  <2>3. Placed(k)
    BY <1>4 DEF To, Txs, Rxs, Ready, Ctx, Fields, Placed, OrgStates
  <2>4. Rested(k) /\ Dwelt(k, b1) /\ Unsent(k)
    BY <1>4 DEF To, Txs, Rxs, Ready, Ctx, Fields, Counted, Worded, Placed,
       Rested, Counting, Dwelt, Unsent
  <2>5. k.mode = h.mode
    BY <1>4 DEF To, Txs, Rxs, Ready, Ctx, Fields
  <2>6. OrgPassed(h, k)
    BY <1>4
       DEF To, Txs, Rxs, Ready, Ctx, Fields, OrgPassed, Posts, OrgEarly, NONE
  <2> QED
    BY <2>1, <2>2, <2>3, <2>4, <2>5, <2>6 DEF Good
<1>5. CASE h.state = "I"
  <2> DEFINE k ==
       [InitGen(SetTxMode(To(h, "J",
                          RoundedUp(Scaled(256) + Turnaround + Rtd)), 0),
             Gen("S")) EXCEPT
       !.tx = "CarrierState", !.rx = "Data", !.regs[1] = h.match]
  <2>1. OrgTraining(h) = k
    BY <1>5 DEF OrgTraining
  <2>0. Scaled(256) \in Nat \ {0}
    BY Times DEF Durations
  <2>a0. RoundedUp(Scaled(256) + Turnaround + Rtd) \in Nat
    BY <2>0, Even
  <2>a1. [h.regs EXCEPT ![1] = h.match] \in [1 .. 4 -> SUBSET Bits]
    BY LoadReg DEF Ready, Ctx, Rated
  <2>2. Ctx(k)
    <3>0. DOMAIN k = Fields
      BY <1>5, <2>0, <2>a0, <2>a1 DEF To, InitGen, Gen, SetTxMode, Reported,
         Ready, Ctx
    <3>1. k.own = h.own /\ k.named = h.named
      BY <1>5, <2>0, <2>a0, <2>a1 DEF To, InitGen, Gen, SetTxMode, Reported,
         Ready, Ctx, Fields
    <3>4. k.txr \in Rates /\ k.rxr \in Rates
      BY <1>5, <2>0, <2>a0, <2>a1 DEF To, InitGen, Gen, SetTxMode, Reported,
         Ready, Ctx, Fields, Rated, Rates, NONE
    <3>5. k.match \in SUBSET Bits /\ k.regs \in [1 .. 4 -> SUBSET Bits]
      BY <1>5, <2>0, <2>a0, <2>a1 DEF To, InitGen, Gen, SetTxMode, Reported,
         Ready, Ctx, Fields, Rated
    <3>6. Rated(k)
      BY <3>1, <3>4, <3>5 DEF Ready, Ctx, Rated
    <3>2. Counted(k)
      BY <1>5, <2>0, <2>a0, <2>a1 DEF To, InitGen, Gen, SetTxMode, Reported,
         Ready, Ctx, Fields, Counted
    <3>3. Worded(k)
      BY <1>5, <2>0, <2>a0, <2>a1 DEF To, InitGen, Gen, SetTxMode, Reported,
         Ready, Ctx, Fields, Worded, Pieces, Kinds
    <3> QED
      BY <3>0, <3>2, <3>3, <3>6 DEF Ctx
  <2>3. Placed(k)
    BY <1>5, <2>0, <2>a0, <2>a1 DEF To, InitGen, Gen, SetTxMode, Reported,
       Ready, Ctx, Fields, Placed, OrgStates
  <2>4. Rested(k) /\ Dwelt(k, b1) /\ Unsent(k)
    BY <1>5, <2>0, <2>a0, <2>a1 DEF To, InitGen, Gen, SetTxMode, Reported,
       Ready, Ctx, Fields, Counted, Worded, Placed, Rested, Counting, Dwelt,
       Unsent
  <2>5. k.mode = h.mode
    BY <1>5, <2>0, <2>a0, <2>a1 DEF To, InitGen, Gen, SetTxMode, Reported,
       Ready, Ctx, Fields
  <2>6. OrgPassed(h, k)
    BY <1>5, <2>0, <2>a0, <2>a1 DEF To, InitGen, Gen, SetTxMode, Reported,
       Ready, Ctx, Fields, OrgPassed, Posts, OrgEarly, NONE
  <2> QED
    BY <2>1, <2>2, <2>3, <2>4, <2>5, <2>6 DEF Good
<1>6. CASE h.state = "J"
  <2> DEFINE k ==
       InitGen(Rxs(Txs(To(h, "K", Scaled(16)), "CarrierState"), "Data"),
       Gen("Sbar"))
  <2>1. OrgTraining(h) = k
    BY <1>6 DEF OrgTraining
  <2>0. Scaled(16) \in Nat \ {0}
    BY Times DEF Durations
  <2>2. Ctx(k)
    BY <1>6, <2>0 DEF To, InitGen, Gen, Txs, Rxs, Ready, Ctx, Fields, Rated,
       Counted, Worded, Pieces, Kinds, Rates, NONE
  <2>3. Placed(k)
    BY <1>6, <2>0 DEF To, InitGen, Gen, Txs, Rxs, Ready, Ctx, Fields, Placed,
       OrgStates
  <2>4. Rested(k) /\ Dwelt(k, b1) /\ Unsent(k)
    BY <1>6, <2>0 DEF To, InitGen, Gen, Txs, Rxs, Ready, Ctx, Fields, Counted,
       Worded, Placed, Rested, Counting, Dwelt, Unsent
  <2>5. k.mode = h.mode
    BY <1>6, <2>0 DEF To, InitGen, Gen, Txs, Rxs, Ready, Ctx, Fields
  <2>6. OrgPassed(h, k)
    BY <1>6, <2>0 DEF To, InitGen, Gen, Txs, Rxs, Ready, Ctx, Fields,
       OrgPassed, Posts, OrgEarly, NONE
  <2> QED
    BY <2>1, <2>2, <2>3, <2>4, <2>5, <2>6 DEF Good
<1>7. CASE h.state = "K"
  <2> DEFINE k == InitGen(Txs(To(h, "L", Scaled(256)), "TRN"), Gen("TRN"))
  <2>1. OrgTraining(h) = k
    BY <1>7 DEF OrgTraining
  <2>0. Scaled(256) \in Nat \ {0}
    BY Times DEF Durations
  <2>2. Ctx(k)
    BY <1>7, <2>0 DEF To, InitGen, Gen, Txs, Ready, Ctx, Fields, Rated,
       Counted, Worded, Pieces, Kinds, Rates, NONE
  <2>3. Placed(k)
    BY <1>7, <2>0 DEF To, InitGen, Gen, Txs, Ready, Ctx, Fields, Placed,
       OrgStates
  <2>4. Rested(k) /\ Dwelt(k, b1) /\ Unsent(k)
    BY <1>7, <2>0 DEF To, InitGen, Gen, Txs, Ready, Ctx, Fields, Counted,
       Worded, Placed, Rested, Counting, Dwelt, Unsent
  <2>5. k.mode = h.mode
    BY <1>7, <2>0 DEF To, InitGen, Gen, Txs, Ready, Ctx, Fields
  <2>6. OrgPassed(h, k)
    BY <1>7, <2>0
       DEF To, InitGen, Gen, Txs, Ready, Ctx, Fields, OrgPassed, Posts,
       OrgEarly, NONE
  <2> QED
    BY <2>1, <2>2, <2>3, <2>4, <2>5, <2>6 DEF Good
<1>8. CASE h.state = "L"
  <2> DEFINE k == Txs(To(h, "M", Scaled(1024)), "ScrSequence")
  <2>1. OrgTraining(h) = k
    BY <1>8 DEF OrgTraining
  <2>0. Scaled(1024) \in Nat \ {0}
    BY Times DEF Durations
  <2>2. Ctx(k)
    BY <1>8, <2>0 DEF To, Txs, Ready, Ctx, Fields, Rated, Counted, Worded,
       Pieces, Kinds, Rates, NONE
  <2>3. Placed(k)
    BY <1>8, <2>0 DEF To, Txs, Ready, Ctx, Fields, Placed, OrgStates
  <2>4. Rested(k) /\ Dwelt(k, b1) /\ Unsent(k)
    BY <1>8, <2>0 DEF To, Txs, Ready, Ctx, Fields, Counted, Worded, Placed,
       Rested, Counting, Dwelt, Unsent
  <2>5. k.mode = h.mode
    BY <1>8, <2>0 DEF To, Txs, Ready, Ctx, Fields
  <2>6. OrgPassed(h, k)
    BY <1>8, <2>0
       DEF To, Txs, Ready, Ctx, Fields, OrgPassed, Posts, OrgEarly, NONE
  <2> QED
    BY <2>1, <2>2, <2>3, <2>4, <2>5, <2>6 DEF Good
<1>9. CASE h.state = "M"
  <2> DEFINE k == Txs(To(h, "N", Scaled(6912)), "ScrSequence")
  <2>1. OrgTraining(h) = k
    BY <1>9 DEF OrgTraining
  <2>0. Scaled(6912) \in Nat \ {0}
    BY Times DEF Durations
  <2>2. Ctx(k)
    BY <1>9, <2>0 DEF To, Txs, Ready, Ctx, Fields, Rated, Counted, Worded,
       Pieces, Kinds, Rates, NONE
  <2>3. Placed(k)
    BY <1>9, <2>0 DEF To, Txs, Ready, Ctx, Fields, Placed, OrgStates
  <2>4. Rested(k) /\ Dwelt(k, b1) /\ Unsent(k)
    BY <1>9, <2>0 DEF To, Txs, Ready, Ctx, Fields, Counted, Worded, Placed,
       Rested, Counting, Dwelt, Unsent
  <2>5. k.mode = h.mode
    BY <1>9, <2>0 DEF To, Txs, Ready, Ctx, Fields
  <2>6. OrgPassed(h, k)
    BY <1>9, <2>0
       DEF To, Txs, Ready, Ctx, Fields, OrgPassed, Posts, OrgEarly, NONE
  <2> QED
    BY <2>1, <2>2, <2>3, <2>4, <2>5, <2>6 DEF Good
<1> QED
  BY <1>1, <1>2, <1>3, <1>4, <1>5, <1>6, <1>7, <1>8, <1>9

\* and every arm of its rates: a word ends within its length, and E takes the
\* length of a word.
LEMMA OrgRatesGood ==
  ASSUME NEW h, NEW b, NEW b1, Ready(h, b, b1), h.mode = "org",
         h.state \in {"N", "O", "P", "Q", "R", "S", "T", "U", "V"}
  PROVE  Good(OrgRates(h), b1) /\ OrgRates(h).mode = h.mode
<1> USE Times
<1>1. CASE h.state = "N"
  <2> DEFINE k ==
       LET seq == CodeRateSeq(h.own, h.regs[1])
       IN [InitDet(InitGen(SetTxMode(To(h, "O", Limit), 0),
                           Word("R", seq)), "R") EXCEPT
             !.tx = "ScrSequence", !.rx = "STone", !.regs[2] = seq]
  <2>1. OrgRates(h) = k
    BY <1>1 DEF OrgRates
  <2>a0. CodeRateSeq(h.own, h.regs[1]) \in SUBSET Bits
    BY CodeBits
  <2>a1. [h.regs EXCEPT ![2] = CodeRateSeq(h.own, h.regs[1])] \in [1 .. 4 ->
         SUBSET Bits]
    BY LoadReg, CodeBits DEF Ready, Ctx, Rated
  <2>2. Ctx(k)
    <3>0. DOMAIN k = Fields
      BY <1>1, <2>a0, <2>a1 DEF To, InitGen, InitDet, SetTxMode, Word,
         Reported, Ready, Ctx
    <3>1. k.own = h.own /\ k.named = h.named
      BY <1>1, <2>a0, <2>a1 DEF To, InitGen, InitDet, SetTxMode, Word,
         Reported, Ready, Ctx, Fields
    <3>4. k.txr \in Rates /\ k.rxr \in Rates
      BY <1>1, <2>a0, <2>a1 DEF To, InitGen, InitDet, SetTxMode, Word,
         Reported, Ready, Ctx, Fields, Rated, Rates, NONE
    <3>5. k.match \in SUBSET Bits /\ k.regs \in [1 .. 4 -> SUBSET Bits]
      BY <1>1, <2>a0, <2>a1 DEF To, InitGen, InitDet, SetTxMode, Word,
         Reported, Ready, Ctx, Fields, Rated
    <3>6. Rated(k)
      BY <3>1, <3>4, <3>5 DEF Ready, Ctx, Rated
    <3>2. Counted(k)
      BY <1>1, <2>a0, <2>a1 DEF To, InitGen, InitDet, SetTxMode, Word,
         Reported, Ready, Ctx, Fields, Counted
    <3>3. Worded(k)
      BY <1>1, <2>a0, <2>a1 DEF To, InitGen, InitDet, SetTxMode, Word,
         Reported, Ready, Ctx, Fields, Worded, Pieces, Kinds
    <3> QED
      BY <3>0, <3>2, <3>3, <3>6 DEF Ctx
  <2>3. Placed(k)
    BY <1>1, <2>a0, <2>a1 DEF To, InitGen, InitDet, SetTxMode, Word, Reported,
       Ready, Ctx, Fields, Placed, OrgStates
  <2>4. Rested(k) /\ Dwelt(k, b1) /\ Unsent(k)
    BY <1>1, <2>a0, <2>a1 DEF To, InitGen, InitDet, SetTxMode, Word, Reported,
       Ready, Ctx, Fields, Counted, Worded, Placed, Rested, Counting, Dwelt,
       Unsent
  <2>5. k.mode = h.mode
    BY <1>1, <2>a0, <2>a1 DEF To, InitGen, InitDet, SetTxMode, Word, Reported,
       Ready, Ctx, Fields
  <2> QED
    BY <2>1, <2>2, <2>3, <2>4, <2>5 DEF Good
<1>2. CASE h.state = "O"
  <2> DEFINE k ==
       SetRxMode([h EXCEPT !.state = "P", !.timer = 0,
       !.tx = "ScrSequence", !.rx = "Epoch"], 0)
  <2>1. OrgRates(h) = k
    BY <1>2 DEF OrgRates
  <2>2. Ctx(k)
    BY <1>2 DEF SetRxMode, Reported, Ready, Ctx, Fields, Rated, Counted,
       Worded, Pieces, Kinds, Rates, NONE
  <2>3. Placed(k)
    BY <1>2 DEF SetRxMode, Reported, Ready, Ctx, Fields, Placed, OrgStates
  <2>4. Rested(k) /\ Dwelt(k, b1) /\ Unsent(k)
    BY <1>2 DEF SetRxMode, Reported, Ready, Ctx, Fields, Counted, Worded,
       Placed, Rested, Counting, Dwelt, Unsent
  <2>5. k.mode = h.mode
    BY <1>2 DEF SetRxMode, Reported, Ready, Ctx, Fields
  <2> QED
    BY <2>1, <2>2, <2>3, <2>4, <2>5 DEF Good
<1>3. CASE h.state = "P"
  <2> DEFINE k ==
       [To(h, "Q", Scaled(1232)) EXCEPT
       !.s46 = Limit - h.left, !.tx = "ScrSequence", !.rx = "Data"]
  <2>1. OrgRates(h) = k
    BY <1>3 DEF OrgRates
  <2>0. Scaled(1232) \in Nat \ {0}
    BY Times DEF Durations
  <2>2. Ctx(k)
    BY <1>3, <2>0 DEF To, Ready, Ctx, Fields, Rated, Counted, Worded, Pieces,
       Kinds, Rates, NONE
  <2>3. Placed(k)
    BY <1>3, <2>0 DEF To, Ready, Ctx, Fields, Placed, OrgStates
  <2>4. Rested(k) /\ Dwelt(k, b1) /\ Unsent(k)
    BY <1>3, <2>0 DEF To, Ready, Ctx, Fields, Counted, Worded, Placed, Rested,
       Counting, Dwelt, Unsent
  <2>5. k.mode = h.mode
    BY <1>3, <2>0 DEF To, Ready, Ctx, Fields
  <2> QED
    BY <2>1, <2>2, <2>3, <2>4, <2>5 DEF Good
<1>4. CASE h.state = "Q"
  <2> DEFINE k == InitDet(Rxs(Txs(To(h, "R", Limit), "ScrSequence"), "Sequence"), "R")
  <2>1. OrgRates(h) = k
    BY <1>4 DEF OrgRates
  <2>2. Ctx(k)
    BY <1>4 DEF To, Txs, Rxs, InitDet, Ready, Ctx, Fields, Rated, Counted,
       Worded, Pieces, Kinds, Rates, NONE
  <2>3. Placed(k)
    BY <1>4 DEF To, Txs, Rxs, InitDet, Ready, Ctx, Fields, Placed, OrgStates
  <2>4. Rested(k) /\ Dwelt(k, b1) /\ Unsent(k)
    BY <1>4 DEF To, Txs, Rxs, InitDet, Ready, Ctx, Fields, Counted, Worded,
       Placed, Rested, Counting, Dwelt, Unsent
  <2>5. k.mode = h.mode
    BY <1>4 DEF To, Txs, Rxs, InitDet, Ready, Ctx, Fields
  <2> QED
    BY <2>1, <2>2, <2>3, <2>4, <2>5 DEF Good
<1>5. CASE h.state = "R"
  <2> DEFINE k ==
       [h EXCEPT
       !.state = "S", !.regs[3] = h.match,
       !.left = ToWordEnd(Scaled(1232) + (Limit - h.left) + h.s46)]
  <2>1. OrgRates(h) = k
    BY <1>5 DEF OrgRates
  <2>0. Scaled(1232) \in Nat \ {0}
    BY Times DEF Durations
  <2>a0. ToWordEnd(Scaled(1232) + (Limit - h.left) + h.s46) \in 1 .. Scaled(8)
    BY <2>0, WordEnd DEF Ready, Ctx, Counted
  <2>a1. [h.regs EXCEPT ![3] = h.match] \in [1 .. 4 -> SUBSET Bits]
    BY LoadReg DEF Ready, Ctx, Rated
  <2>2. Ctx(k)
    <3>0. DOMAIN k = Fields
      BY <1>5, <2>0, <2>a0, <2>a1 DEF Ready, Ctx
    <3>1. k.own = h.own /\ k.named = h.named
      BY <1>5, <2>0, <2>a0, <2>a1 DEF Ready, Ctx, Fields
    <3>4. k.txr \in Rates /\ k.rxr \in Rates
      BY <1>5, <2>0, <2>a0, <2>a1 DEF Ready, Ctx, Fields, Rated, Rates, NONE
    <3>5. k.match \in SUBSET Bits /\ k.regs \in [1 .. 4 -> SUBSET Bits]
      BY <1>5, <2>0, <2>a0, <2>a1 DEF Ready, Ctx, Fields, Rated
    <3>6. Rated(k)
      BY <3>1, <3>4, <3>5 DEF Ready, Ctx, Rated
    <3>2. Counted(k)
      BY <1>5, <2>0, <2>a0, <2>a1 DEF Ready, Ctx, Fields, Counted
    <3>3. Worded(k)
      BY <1>5, <2>0, <2>a0, <2>a1 DEF Ready, Ctx, Fields, Worded, Pieces, Kinds
    <3> QED
      BY <3>0, <3>2, <3>3, <3>6 DEF Ctx
  <2>3. Placed(k)
    BY <1>5, <2>0, <2>a0, <2>a1 DEF Ready, Ctx, Fields, Placed, OrgStates
  <2>4. Rested(k) /\ Dwelt(k, b1) /\ Unsent(k)
    BY <1>5, <2>0, <2>a0, <2>a1 DEF Ready, Ctx, Fields, Counted, Worded,
       Placed, Rested, Counting, Dwelt, Unsent
  <2>5. k.mode = h.mode
    BY <1>5, <2>0, <2>a0, <2>a1 DEF Ready, Ctx, Fields
  <2> QED
    BY <2>1, <2>2, <2>3, <2>4, <2>5 DEF Good
<1>6. CASE h.state = "S"
  <2> DEFINE k ==
       LET k == InitDet(InitGen(To(h, "T", Scaled(8)),
                            Word("E", CodeESeq(h.own, h.regs[3]))), "E")
       IN [k EXCEPT !.tx = "ScrSequence", !.rx = "Sequence",
                    !.status = IF DecodeReg(h, 3) = NONE THEN 23 ELSE @]
  <2>1. OrgRates(h) = k
    BY <1>6 DEF OrgRates
  <2>a0. CodeESeq(h.own, h.regs[3]) \in SUBSET Bits
    BY CodeBits
  <2>2. Ctx(k)
    <3>0. DOMAIN k = Fields
      BY <1>6, <2>a0 DEF To, InitGen, InitDet, Word, Ready, Ctx
    <3>1. k.own = h.own /\ k.named = h.named
      BY <1>6, <2>a0 DEF To, InitGen, InitDet, Word, Ready, Ctx, Fields
    <3>4. k.txr \in Rates /\ k.rxr \in Rates
      BY <1>6, <2>a0 DEF To, InitGen, InitDet, Word, Ready, Ctx, Fields,
         Rated, Rates, NONE
    <3>5. k.match \in SUBSET Bits /\ k.regs \in [1 .. 4 -> SUBSET Bits]
      BY <1>6, <2>a0 DEF To, InitGen, InitDet, Word, Ready, Ctx, Fields, Rated
    <3>6. Rated(k)
      BY <3>1, <3>4, <3>5 DEF Ready, Ctx, Rated
    <3>2. Counted(k)
      BY <1>6, <2>a0 DEF To, InitGen, InitDet, Word, Ready, Ctx, Fields,
         Counted
    <3>3. Worded(k)
      BY <1>6, <2>a0 DEF To, InitGen, InitDet, Word, Ready, Ctx, Fields,
         Worded, Pieces, Kinds
    <3> QED
      BY <3>0, <3>2, <3>3, <3>6 DEF Ctx
  <2>3. Placed(k)
    BY <1>6, <2>a0 DEF To, InitGen, InitDet, Word, Ready, Ctx, Fields, Placed,
       OrgStates
  <2>4. Rested(k) /\ Dwelt(k, b1) /\ Unsent(k)
    BY <1>6, <2>a0 DEF To, InitGen, InitDet, Word, Ready, Ctx, Fields,
       Counted, Worded, Placed, Rested, Counting, Dwelt, Unsent
  <2>5. k.mode = h.mode
    BY <1>6, <2>a0 DEF To, InitGen, InitDet, Word, Ready, Ctx, Fields
  <2> QED
    BY <2>1, <2>2, <2>3, <2>4, <2>5 DEF Good
<1>7. CASE h.state = "T"
  <2> DEFINE k == InitGen(SetTxMode(To(h, "U", Limit), DecodeReg(h, 3)), Gen("B1"))
  <2>1. OrgRates(h) = k
    BY <1>7 DEF OrgRates
  <2>a0. DecodeReg(h, 3) \in AnyRate
    BY CommonRate DEF DecodeReg
  <2>2. Ctx(k)
    <3>0. DOMAIN k = Fields
      BY <1>7, <2>a0 DEF To, InitGen, Gen, SetTxMode, Reported, AnyRate,
         Ready, Ctx
    <3>1. k.own = h.own /\ k.named = h.named
      BY <1>7, <2>a0 DEF To, InitGen, Gen, SetTxMode, Reported, AnyRate,
         Ready, Ctx, Fields
    <3>4. k.txr \in Rates /\ k.rxr \in Rates
      BY <1>7, <2>a0 DEF To, InitGen, Gen, SetTxMode, Reported, AnyRate,
         Ready, Ctx, Fields, Rated, Rates, NONE
    <3>5. k.match \in SUBSET Bits /\ k.regs \in [1 .. 4 -> SUBSET Bits]
      BY <1>7, <2>a0 DEF To, InitGen, Gen, SetTxMode, Reported, AnyRate,
         Ready, Ctx, Fields, Rated
    <3>6. Rated(k)
      BY <3>1, <3>4, <3>5 DEF Ready, Ctx, Rated
    <3>2. Counted(k)
      BY <1>7, <2>a0 DEF To, InitGen, Gen, SetTxMode, Reported, AnyRate,
         Ready, Ctx, Fields, Counted
    <3>3. Worded(k)
      BY <1>7, <2>a0 DEF To, InitGen, Gen, SetTxMode, Reported, AnyRate,
         Ready, Ctx, Fields, Worded, Pieces, Kinds
    <3> QED
      BY <3>0, <3>2, <3>3, <3>6 DEF Ctx
  <2>3. Placed(k)
    BY <1>7, <2>a0 DEF To, InitGen, Gen, SetTxMode, Reported, AnyRate, Ready,
       Ctx, Fields, Placed, OrgStates
  <2>4. Rested(k) /\ Dwelt(k, b1) /\ Unsent(k)
    BY <1>7, <2>a0 DEF To, InitGen, Gen, SetTxMode, Reported, AnyRate, Ready,
       Ctx, Fields, Counted, Worded, Placed, Rested, Counting, Dwelt, Unsent
  <2>5. k.mode = h.mode
    BY <1>7, <2>a0 DEF To, InitGen, Gen, SetTxMode, Reported, AnyRate, Ready,
       Ctx, Fields
  <2> QED
    BY <2>1, <2>2, <2>3, <2>4, <2>5 DEF Good
<1>8. CASE h.state = "U"
  <2> DEFINE k ==
       SetRxMode([To(h, "V", Scaled(128)) EXCEPT
          !.rx = "Data", !.regs[4] = h.match],
       common_rate(h.own, h.match))
  <2>1. OrgRates(h) = k
    BY <1>8 DEF OrgRates
  <2>0. Scaled(128) \in Nat \ {0}
    BY Times DEF Durations
  <2>a0. common_rate(h.own, h.match) \in AnyRate
    BY CommonRate
  <2>a1. [h.regs EXCEPT ![4] = h.match] \in [1 .. 4 -> SUBSET Bits]
    BY LoadReg DEF Ready, Ctx, Rated
  <2>2. Ctx(k)
    <3>0. DOMAIN k = Fields
      BY <1>8, <2>0, <2>a0, <2>a1 DEF To, SetRxMode, Reported, AnyRate, Ready,
         Ctx
    <3>1. k.own = h.own /\ k.named = h.named
      BY <1>8, <2>0, <2>a0, <2>a1 DEF To, SetRxMode, Reported, AnyRate, Ready,
         Ctx, Fields
    <3>4. k.txr \in Rates /\ k.rxr \in Rates
      BY <1>8, <2>0, <2>a0, <2>a1 DEF To, SetRxMode, Reported, AnyRate, Ready,
         Ctx, Fields, Rated, Rates, NONE
    <3>5. k.match \in SUBSET Bits /\ k.regs \in [1 .. 4 -> SUBSET Bits]
      BY <1>8, <2>0, <2>a0, <2>a1 DEF To, SetRxMode, Reported, AnyRate, Ready,
         Ctx, Fields, Rated
    <3>6. Rated(k)
      BY <3>1, <3>4, <3>5 DEF Ready, Ctx, Rated
    <3>2. Counted(k)
      BY <1>8, <2>0, <2>a0, <2>a1 DEF To, SetRxMode, Reported, AnyRate, Ready,
         Ctx, Fields, Counted
    <3>3. Worded(k)
      BY <1>8, <2>0, <2>a0, <2>a1 DEF To, SetRxMode, Reported, AnyRate, Ready,
         Ctx, Fields, Worded, Pieces, Kinds
    <3> QED
      BY <3>0, <3>2, <3>3, <3>6 DEF Ctx
  <2>3. Placed(k)
    BY <1>8, <2>0, <2>a0, <2>a1 DEF To, SetRxMode, Reported, AnyRate, Ready,
       Ctx, Fields, Placed, OrgStates
  <2>4. Rested(k) /\ Dwelt(k, b1) /\ Unsent(k)
    BY <1>8, <2>0, <2>a0, <2>a1 DEF To, SetRxMode, Reported, AnyRate, Ready,
       Ctx, Fields, Counted, Worded, Placed, Rested, Counting, Dwelt, Unsent
  <2>5. k.mode = h.mode
    BY <1>8, <2>0, <2>a0, <2>a1 DEF To, SetRxMode, Reported, AnyRate, Ready,
       Ctx, Fields
  <2> QED
    BY <2>1, <2>2, <2>3, <2>4, <2>5 DEF Good
<1>9. CASE h.state = "V"
  <2> DEFINE k ==
       [To(h, "V", Limit) EXCEPT
       !.rx = "Data", !.data = TRUE,
       !.status = V32_CONNECT[DecodeReg(h, 3)]]
  <2>1. OrgRates(h) = k
    BY <1>9 DEF OrgRates
  <2>a0. V32_CONNECT[DecodeReg(h, 3)] \in 0 .. 28
    BY CommonRate, ConnectStatus DEF DecodeReg
  <2>2. Ctx(k)
    <3>0. DOMAIN k = Fields
      BY <1>9, <2>a0 DEF To, Ready, Ctx
    <3>1. k.own = h.own /\ k.named = h.named
      BY <1>9, <2>a0 DEF To, Ready, Ctx, Fields
    <3>4. k.txr \in Rates /\ k.rxr \in Rates
      BY <1>9, <2>a0 DEF To, Ready, Ctx, Fields, Rated, Rates, NONE
    <3>5. k.match \in SUBSET Bits /\ k.regs \in [1 .. 4 -> SUBSET Bits]
      BY <1>9, <2>a0 DEF To, Ready, Ctx, Fields, Rated
    <3>6. Rated(k)
      BY <3>1, <3>4, <3>5 DEF Ready, Ctx, Rated
    <3>2. Counted(k)
      BY <1>9, <2>a0 DEF To, Ready, Ctx, Fields, Counted
    <3>3. Worded(k)
      BY <1>9, <2>a0 DEF To, Ready, Ctx, Fields, Worded, Pieces, Kinds
    <3> QED
      BY <3>0, <3>2, <3>3, <3>6 DEF Ctx
  <2>3. Placed(k)
    BY <1>9, <2>a0 DEF To, Ready, Ctx, Fields, Placed, OrgStates
  <2>4. Rested(k) /\ Dwelt(k, b1) /\ Unsent(k)
    BY <1>9, <2>a0 DEF To, Ready, Ctx, Fields, Counted, Worded, Placed,
       Rested, Counting, Dwelt, Unsent
  <2>5. k.mode = h.mode
    BY <1>9, <2>a0 DEF To, Ready, Ctx, Fields
  <2> QED
    BY <2>1, <2>2, <2>3, <2>4, <2>5 DEF Good
<1> QED
  BY <1>1, <1>2, <1>3, <1>4, <1>5, <1>6, <1>7, <1>8, <1>9

\* The same for the answering station: the two arms that wait on after their
\* countdown, B2 and C, fail or go where a negative countdown is known.
LEMMA AnsRangingGood ==
  ASSUME NEW h, NEW b, NEW b1, Ready(h, b, b1), h.mode = "ans",
         h.state \in {"A", "B", "B2", "C", "D", "E", "F", "F2"}
  PROVE  /\ Good(AnsRanging(h), b1) /\ AnsRanging(h).mode = h.mode
         /\ AnsPassed(h, AnsRanging(h))
<1> USE Times
<1>1. CASE h.state = "A"
  <2> DEFINE k ==
       IF h.left > 0 THEN h
       ELSE [h EXCEPT !.state = "B", !.left = Scaled(180), !.tone = 0]
  <2>1. AnsRanging(h) = k
    BY <1>1 DEF AnsRanging
  <2>0. Scaled(180) \in Nat \ {0}
    BY Times DEF Durations
  <2>2. Ctx(k)
    BY <1>1, <2>0 DEF Ready, Ctx, Fields, Rated, Counted, Worded, Pieces,
       Kinds, Rates, NONE
  <2>3. Placed(k)
    BY <1>1, <2>0 DEF Ready, Ctx, Fields, Placed, AnsStates
  <2>4. Rested(k) /\ Dwelt(k, b1) /\ Unsent(k)
    BY <1>1, <2>0 DEF Ready, Ctx, Fields, Counted, Worded, Placed, Rested,
       Counting, Dwelt, Unsent
  <2>5. k.mode = h.mode
    BY <1>1, <2>0 DEF Ready, Ctx, Fields
  <2>6. AnsPassed(h, k)
    BY <1>1, <2>0
       DEF Ready, Ctx, Fields, AnsPassed, Posts, AnsEarly, Gen, Word, NONE
  <2> QED
    BY <2>1, <2>2, <2>3, <2>4, <2>5, <2>6 DEF Good
<1>2. CASE h.state = "B"
  <2> DEFINE k ==
       [InitGen(To(h, "B2", IF h.opt THEN Scaled(2656) ELSE Scaled(256)),
       Gen("AC")) EXCEPT !.tx = "CarrierState", !.tone = 1800]
  <2>1. AnsRanging(h) = k
    BY <1>2 DEF AnsRanging
  <2>0. Scaled(256) \in Nat \ {0} /\ Scaled(2656) \in Nat \ {0}
    BY Times DEF Durations
  <2>2. Ctx(k)
    BY <1>2, <2>0 DEF To, InitGen, Gen, Ready, Ctx, Fields, Rated, Counted,
       Worded, Pieces, Kinds, Rates, NONE
  <2>3. Placed(k)
    BY <1>2, <2>0 DEF To, InitGen, Gen, Ready, Ctx, Fields, Placed, AnsStates
  <2>4. Rested(k) /\ Dwelt(k, b1) /\ Unsent(k)
    BY <1>2, <2>0 DEF To, InitGen, Gen, Ready, Ctx, Fields, Counted, Worded,
       Placed, Rested, Counting, Dwelt, Unsent
  <2>5. k.mode = h.mode
    BY <1>2, <2>0 DEF To, InitGen, Gen, Ready, Ctx, Fields
  <2>6. AnsPassed(h, k)
    BY <1>2, <2>0 DEF To, InitGen, Gen, Ready, Ctx, Fields, AnsPassed, Posts,
       AnsEarly, Word, NONE
  <2> QED
    BY <2>1, <2>2, <2>3, <2>4, <2>5, <2>6 DEF Good
<1>3. CASE h.state = "B2"
  <2> DEFINE k ==
       IF h.left <= 0 THEN Fail(h, 22)
       ELSE [h EXCEPT !.state = "C", !.i90 = TRUE, !.timer = 0]
  <2>1. AnsRanging(h) = k
    BY <1>3 DEF AnsRanging
  <2>2. Ctx(k)
    BY <1>3 DEF Fail, Ready, Ctx, Fields, Rated, Counted, Worded, Pieces,
       Kinds, Rates, NONE
  <2>3. Placed(k)
    BY <1>3 DEF Fail, Ready, Ctx, Fields, Placed, AnsStates
  <2>4. Rested(k) /\ Dwelt(k, b1) /\ Unsent(k)
    BY <1>3 DEF Fail, Ready, Ctx, Fields, Counted, Worded, Placed, Rested,
       Counting, Dwelt, Unsent
  <2>5. k.mode = h.mode
    BY <1>3 DEF Fail, Ready, Ctx, Fields
  <2>6. AnsPassed(h, k)
    BY <1>3
       DEF Fail, Ready, Ctx, Fields, AnsPassed, Posts, AnsEarly, Gen, Word, NONE
  <2> QED
    BY <2>1, <2>2, <2>3, <2>4, <2>5, <2>6 DEF Good
<1>4. CASE h.state = "C"
  <2> DEFINE k ==
       IF h.timer <= Scaled(139) THEN h
       ELSE [InitGen(To(h, "D", Limit), Gen("CA")) EXCEPT
               !.i90 = TRUE, !.rx = "PhsReversal", !.a8 = 0]
  <2>1. AnsRanging(h) = k
    BY <1>4 DEF AnsRanging
  <2>0. Scaled(139) \in Nat \ {0}
    BY Times DEF Durations
  <2>2. Ctx(k)
    BY <1>4, <2>0 DEF To, InitGen, Gen, Ready, Ctx, Fields, Rated, Counted,
       Worded, Pieces, Kinds, Rates, NONE
  <2>3. Placed(k)
    BY <1>4, <2>0 DEF To, InitGen, Gen, Ready, Ctx, Fields, Placed, AnsStates
  <2>4. Rested(k) /\ Dwelt(k, b1) /\ Unsent(k)
    BY <1>4, <2>0 DEF To, InitGen, Gen, Ready, Ctx, Fields, Counted, Worded,
       Placed, Rested, Counting, Dwelt, Unsent
  <2>5. k.mode = h.mode
    BY <1>4, <2>0 DEF To, InitGen, Gen, Ready, Ctx, Fields
  <2>6. AnsPassed(h, k)
    BY <1>4, <2>0 DEF To, InitGen, Gen, Ready, Ctx, Fields, AnsPassed, Posts,
       AnsEarly, Word, NONE
  <2> QED
    BY <2>1, <2>2, <2>3, <2>4, <2>5, <2>6 DEF Good
<1>5. CASE h.state = "D"
  <2> DEFINE k ==
       IF h.a8 <= Scaled(72) THEN h
       ELSE [To(h, "E", RoundedUp(h.timer)) EXCEPT
               !.rx = "NoSignal", !.tone = 1800]
  <2>1. AnsRanging(h) = k
    BY <1>5 DEF AnsRanging
  <2>a0. RoundedUp(h.timer) \in Nat
    BY Even DEF Ready, Ctx, Counted
  <2>2. Ctx(k)
    <3>0. DOMAIN k = Fields
      BY <1>5, <2>a0 DEF To, Ready, Ctx
    <3>1. k.own = h.own /\ k.named = h.named
      BY <1>5, <2>a0 DEF To, Ready, Ctx, Fields
    <3>4. k.txr \in Rates /\ k.rxr \in Rates
      BY <1>5, <2>a0 DEF To, Ready, Ctx, Fields, Rated, Rates, NONE
    <3>5. k.match \in SUBSET Bits /\ k.regs \in [1 .. 4 -> SUBSET Bits]
      BY <1>5, <2>a0 DEF To, Ready, Ctx, Fields, Rated
    <3>6. Rated(k)
      BY <3>1, <3>4, <3>5 DEF Ready, Ctx, Rated
    <3>2. Counted(k)
      BY <1>5, <2>a0 DEF To, Ready, Ctx, Fields, Counted
    <3>3. Worded(k)
      BY <1>5, <2>a0 DEF To, Ready, Ctx, Fields, Worded, Pieces, Kinds
    <3> QED
      BY <3>0, <3>2, <3>3, <3>6 DEF Ctx
  <2>3. Placed(k)
    BY <1>5, <2>a0 DEF To, Ready, Ctx, Fields, Placed, AnsStates
  <2>4. Rested(k) /\ Dwelt(k, b1) /\ Unsent(k)
    BY <1>5, <2>a0 DEF To, Ready, Ctx, Fields, Counted, Worded, Placed,
       Rested, Counting, Dwelt, Unsent
  <2>5. k.mode = h.mode
    BY <1>5, <2>a0 DEF To, Ready, Ctx, Fields
  <2>6. AnsPassed(h, k)
    BY <1>5, <2>a0
       DEF To, Ready, Ctx, Fields, AnsPassed, Posts, AnsEarly, Gen, Word,
       NONE
  <2> QED
    BY <2>1, <2>2, <2>3, <2>4, <2>5, <2>6 DEF Good
<1>6. CASE h.state = "E"
  <2> DEFINE k ==
       IF h.left > 0 THEN h
       ELSE [InitGen(h, Gen("AC")) EXCEPT
               !.state = "F", !.left = Limit, !.aa = 0]
  <2>1. AnsRanging(h) = k
    BY <1>6 DEF AnsRanging
  <2>2. Ctx(k)
    BY <1>6 DEF InitGen, Gen, Ready, Ctx, Fields, Rated, Counted, Worded,
       Pieces, Kinds, Rates, NONE
  <2>3. Placed(k)
    BY <1>6 DEF InitGen, Gen, Ready, Ctx, Fields, Placed, AnsStates
  <2>4. Rested(k) /\ Dwelt(k, b1) /\ Unsent(k)
    BY <1>6 DEF InitGen, Gen, Ready, Ctx, Fields, Counted, Worded, Placed,
       Rested, Counting, Dwelt, Unsent
  <2>5. k.mode = h.mode
    BY <1>6 DEF InitGen, Gen, Ready, Ctx, Fields
  <2>6. AnsPassed(h, k)
    BY <1>6
       DEF InitGen, Gen, Ready, Ctx, Fields, AnsPassed, Posts, AnsEarly, Word,
       NONE
  <2> QED
    BY <2>1, <2>2, <2>3, <2>4, <2>5, <2>6 DEF Good
<1>7. CASE h.state = "F"
  <2> DEFINE k ==
       IF h.aa <= Scaled(95) THEN h
       ELSE [To(h, "F2", Scaled(16)) EXCEPT
               !.status = 15, !.carrier = TRUE, !.tx = "NoCarrier",
               !.rx = "Data"]
  <2>1. AnsRanging(h) = k
    BY <1>7 DEF AnsRanging
  <2>0. Scaled(16) \in Nat \ {0}
    BY Times DEF Durations
  <2>2. Ctx(k)
    BY <1>7, <2>0 DEF To, Ready, Ctx, Fields, Rated, Counted, Worded, Pieces,
       Kinds, Rates, NONE
  <2>3. Placed(k)
    BY <1>7, <2>0 DEF To, Ready, Ctx, Fields, Placed, AnsStates
  <2>4. Rested(k) /\ Dwelt(k, b1) /\ Unsent(k)
    BY <1>7, <2>0 DEF To, Ready, Ctx, Fields, Counted, Worded, Placed, Rested,
       Counting, Dwelt, Unsent
  <2>5. k.mode = h.mode
    BY <1>7, <2>0 DEF To, Ready, Ctx, Fields
  <2>6. AnsPassed(h, k)
    BY <1>7, <2>0
       DEF To, Ready, Ctx, Fields, AnsPassed, Posts, AnsEarly, Gen, Word,
       NONE
  <2> QED
    BY <2>1, <2>2, <2>3, <2>4, <2>5, <2>6 DEF Good
<1>8. CASE h.state = "F2"
  <2> DEFINE k == Txs(To(h, "G", Sym), "FinishFrame")
  <2>1. AnsRanging(h) = k
    BY <1>8 DEF AnsRanging
  <2>2. Ctx(k)
    BY <1>8 DEF To, Txs, Ready, Ctx, Fields, Rated, Counted, Worded, Pieces,
       Kinds, Rates, NONE
  <2>3. Placed(k)
    BY <1>8 DEF To, Txs, Ready, Ctx, Fields, Placed, AnsStates
  <2>4. Rested(k) /\ Dwelt(k, b1) /\ Unsent(k)
    BY <1>8 DEF To, Txs, Ready, Ctx, Fields, Counted, Worded, Placed, Rested,
       Counting, Dwelt, Unsent
  <2>5. k.mode = h.mode
    BY <1>8 DEF To, Txs, Ready, Ctx, Fields
  <2>6. AnsPassed(h, k)
    BY <1>8
       DEF To, Txs, Ready, Ctx, Fields, AnsPassed, Posts, AnsEarly, Gen, Word,
       NONE
  <2> QED
    BY <2>1, <2>2, <2>3, <2>4, <2>5, <2>6 DEF Good
<1> QED
  BY <1>1, <1>2, <1>3, <1>4, <1>5, <1>6, <1>7, <1>8

\* Its training,
LEMMA AnsTrainingGood ==
  ASSUME NEW h, NEW b, NEW b1, Ready(h, b, b1), h.mode = "ans",
         h.state \in {"G", "H", "I", "J", "K", "L", "M", "N", "O", "P", "Q"}
  PROVE  /\ Good(AnsTraining(h), b1) /\ AnsTraining(h).mode = h.mode
         /\ AnsPassed(h, AnsTraining(h))
<1> USE Times
<1>1. CASE h.state = "G"
  <2> DEFINE k ==
       InitGen(SetTxMode(Txs(To(h, "H", Scaled(256)), "CarrierState"), 0),
       Gen("S"))
  <2>1. AnsTraining(h) = k
    BY <1>1 DEF AnsTraining
  <2>0. Scaled(256) \in Nat \ {0}
    BY Times DEF Durations
  <2>2. Ctx(k)
    BY <1>1, <2>0 DEF To, InitGen, Gen, Txs, SetTxMode, Reported, Ready, Ctx,
       Fields, Rated, Counted, Worded, Pieces, Kinds, Rates, NONE
  <2>3. Placed(k)
    BY <1>1, <2>0 DEF To, InitGen, Gen, Txs, SetTxMode, Reported, Ready, Ctx,
       Fields, Placed, AnsStates
  <2>4. Rested(k) /\ Dwelt(k, b1) /\ Unsent(k)
    BY <1>1, <2>0 DEF To, InitGen, Gen, Txs, SetTxMode, Reported, Ready, Ctx,
       Fields, Counted, Worded, Placed, Rested, Counting, Dwelt, Unsent
  <2>5. k.mode = h.mode
    BY <1>1, <2>0 DEF To, InitGen, Gen, Txs, SetTxMode, Reported, Ready, Ctx,
       Fields
  <2>6. AnsPassed(h, k)
    BY <1>1, <2>0 DEF To, InitGen, Gen, Txs, SetTxMode, Reported, Ready, Ctx,
       Fields, AnsPassed, Posts, AnsEarly, Word, NONE
  <2> QED
    BY <2>1, <2>2, <2>3, <2>4, <2>5, <2>6 DEF Good
<1>2. CASE h.state = "H"
  <2> DEFINE k == InitGen(Txs(To(h, "I", Scaled(16)), "CarrierState"), Gen("Sbar"))
  <2>1. AnsTraining(h) = k
    BY <1>2 DEF AnsTraining
  <2>0. Scaled(16) \in Nat \ {0}
    BY Times DEF Durations
  <2>2. Ctx(k)
    BY <1>2, <2>0 DEF To, InitGen, Gen, Txs, Ready, Ctx, Fields, Rated,
       Counted, Worded, Pieces, Kinds, Rates, NONE
  <2>3. Placed(k)
    BY <1>2, <2>0 DEF To, InitGen, Gen, Txs, Ready, Ctx, Fields, Placed,
       AnsStates
  <2>4. Rested(k) /\ Dwelt(k, b1) /\ Unsent(k)
    BY <1>2, <2>0 DEF To, InitGen, Gen, Txs, Ready, Ctx, Fields, Counted,
       Worded, Placed, Rested, Counting, Dwelt, Unsent
  <2>5. k.mode = h.mode
    BY <1>2, <2>0 DEF To, InitGen, Gen, Txs, Ready, Ctx, Fields
  <2>6. AnsPassed(h, k)
    BY <1>2, <2>0
       DEF To, InitGen, Gen, Txs, Ready, Ctx, Fields, AnsPassed, Posts,
       AnsEarly, Word, NONE
  <2> QED
    BY <2>1, <2>2, <2>3, <2>4, <2>5, <2>6 DEF Good
<1>3. CASE h.state = "I"
  <2> DEFINE k == InitGen(Txs(To(h, "J", Scaled(256)), "TRN"), Gen("TRN"))
  <2>1. AnsTraining(h) = k
    BY <1>3 DEF AnsTraining
  <2>0. Scaled(256) \in Nat \ {0}
    BY Times DEF Durations
  <2>2. Ctx(k)
    BY <1>3, <2>0 DEF To, InitGen, Gen, Txs, Ready, Ctx, Fields, Rated,
       Counted, Worded, Pieces, Kinds, Rates, NONE
  <2>3. Placed(k)
    BY <1>3, <2>0 DEF To, InitGen, Gen, Txs, Ready, Ctx, Fields, Placed,
       AnsStates
  <2>4. Rested(k) /\ Dwelt(k, b1) /\ Unsent(k)
    BY <1>3, <2>0 DEF To, InitGen, Gen, Txs, Ready, Ctx, Fields, Counted,
       Worded, Placed, Rested, Counting, Dwelt, Unsent
  <2>5. k.mode = h.mode
    BY <1>3, <2>0 DEF To, InitGen, Gen, Txs, Ready, Ctx, Fields
  <2>6. AnsPassed(h, k)
    BY <1>3, <2>0
       DEF To, InitGen, Gen, Txs, Ready, Ctx, Fields, AnsPassed, Posts,
       AnsEarly, Word, NONE
  <2> QED
    BY <2>1, <2>2, <2>3, <2>4, <2>5, <2>6 DEF Good
<1>4. CASE h.state = "J"
  <2> DEFINE k == Txs(To(h, "K", Scaled(1024)), "ScrSequence")
  <2>1. AnsTraining(h) = k
    BY <1>4 DEF AnsTraining
  <2>0. Scaled(1024) \in Nat \ {0}
    BY Times DEF Durations
  <2>2. Ctx(k)
    BY <1>4, <2>0 DEF To, Txs, Ready, Ctx, Fields, Rated, Counted, Worded,
       Pieces, Kinds, Rates, NONE
  <2>3. Placed(k)
    BY <1>4, <2>0 DEF To, Txs, Ready, Ctx, Fields, Placed, AnsStates
  <2>4. Rested(k) /\ Dwelt(k, b1) /\ Unsent(k)
    BY <1>4, <2>0 DEF To, Txs, Ready, Ctx, Fields, Counted, Worded, Placed,
       Rested, Counting, Dwelt, Unsent
  <2>5. k.mode = h.mode
    BY <1>4, <2>0 DEF To, Txs, Ready, Ctx, Fields
  <2>6. AnsPassed(h, k)
    BY <1>4, <2>0
       DEF To, Txs, Ready, Ctx, Fields, AnsPassed, Posts, AnsEarly, Gen,
       Word, NONE
  <2> QED
    BY <2>1, <2>2, <2>3, <2>4, <2>5, <2>6 DEF Good
<1>5. CASE h.state = "K"
  <2> DEFINE k == To(h, "L", Scaled(6764))
  <2>1. AnsTraining(h) = k
    BY <1>5 DEF AnsTraining
  <2>0. Scaled(6764) \in Nat \ {0}
    BY Times DEF Durations
  <2>2. Ctx(k)
    BY <1>5, <2>0 DEF To, Ready, Ctx, Fields, Rated, Counted, Worded, Pieces,
       Kinds, Rates, NONE
  <2>3. Placed(k)
    BY <1>5, <2>0 DEF To, Ready, Ctx, Fields, Placed, AnsStates
  <2>4. Rested(k) /\ Dwelt(k, b1) /\ Unsent(k)
    BY <1>5, <2>0 DEF To, Ready, Ctx, Fields, Counted, Worded, Placed, Rested,
       Counting, Dwelt, Unsent
  <2>5. k.mode = h.mode
    BY <1>5, <2>0 DEF To, Ready, Ctx, Fields
  <2>6. AnsPassed(h, k)
    BY <1>5, <2>0
       DEF To, Ready, Ctx, Fields, AnsPassed, Posts, AnsEarly, Gen, Word,
       NONE
  <2> QED
    BY <2>1, <2>2, <2>3, <2>4, <2>5, <2>6 DEF Good
<1>6. CASE h.state = "L"
  <2> DEFINE k ==
       LET seq == CodeRateSeq(h.own, V32_RATE_SEQ[h.named])
       IN [InitGen(SetTxMode(To(h, "M", Limit), 0), Word("R", seq)) EXCEPT
             !.rx = "STone", !.regs[1] = seq]
  <2>1. AnsTraining(h) = k
    BY <1>6 DEF AnsTraining
  <2>a0. CodeRateSeq(h.own, V32_RATE_SEQ[h.named]) \in SUBSET Bits
    BY CodeBits
  <2>a1. [h.regs EXCEPT ![1] = CodeRateSeq(h.own, V32_RATE_SEQ[h.named])] \in
         [1 .. 4 -> SUBSET Bits]
    BY LoadReg, CodeBits DEF Ready, Ctx, Rated
  <2>2. Ctx(k)
    <3>0. DOMAIN k = Fields
      BY <1>6, <2>a0, <2>a1 DEF To, InitGen, SetTxMode, Word, Reported, Ready,
         Ctx
    <3>1. k.own = h.own /\ k.named = h.named
      BY <1>6, <2>a0, <2>a1 DEF To, InitGen, SetTxMode, Word, Reported, Ready,
         Ctx, Fields
    <3>4. k.txr \in Rates /\ k.rxr \in Rates
      BY <1>6, <2>a0, <2>a1 DEF To, InitGen, SetTxMode, Word, Reported, Ready,
         Ctx, Fields, Rated, Rates, NONE
    <3>5. k.match \in SUBSET Bits /\ k.regs \in [1 .. 4 -> SUBSET Bits]
      BY <1>6, <2>a0, <2>a1 DEF To, InitGen, SetTxMode, Word, Reported, Ready,
         Ctx, Fields, Rated
    <3>6. Rated(k)
      BY <3>1, <3>4, <3>5 DEF Ready, Ctx, Rated
    <3>2. Counted(k)
      BY <1>6, <2>a0, <2>a1 DEF To, InitGen, SetTxMode, Word, Reported, Ready,
         Ctx, Fields, Counted
    <3>3. Worded(k)
      BY <1>6, <2>a0, <2>a1 DEF To, InitGen, SetTxMode, Word, Reported, Ready,
         Ctx, Fields, Worded, Pieces, Kinds
    <3> QED
      BY <3>0, <3>2, <3>3, <3>6 DEF Ctx
  <2>3. Placed(k)
    BY <1>6, <2>a0, <2>a1 DEF To, InitGen, SetTxMode, Word, Reported, Ready,
       Ctx, Fields, Placed, AnsStates
  <2>4. Rested(k) /\ Dwelt(k, b1) /\ Unsent(k)
    BY <1>6, <2>a0, <2>a1 DEF To, InitGen, SetTxMode, Word, Reported, Ready,
       Ctx, Fields, Counted, Worded, Placed, Rested, Counting, Dwelt, Unsent
  <2>5. k.mode = h.mode
    BY <1>6, <2>a0, <2>a1 DEF To, InitGen, SetTxMode, Word, Reported, Ready,
       Ctx, Fields
  <2>6. AnsPassed(h, k)
    BY <1>6, <2>a0, <2>a1 DEF To, InitGen, SetTxMode, Word, Reported, Ready,
       Ctx, Fields, AnsPassed, Posts, AnsEarly, Gen, NONE
  <2> QED
    BY <2>1, <2>2, <2>3, <2>4, <2>5, <2>6 DEF Good
<1>7. CASE h.state = "M"
  <2> DEFINE k == Rxs(Txs(To(h, "N", Rtd + Turnaround), "NoCarrier"), "Data")
  <2>1. AnsTraining(h) = k
    BY <1>7 DEF AnsTraining
  <2>2. Ctx(k)
    BY <1>7 DEF To, Txs, Rxs, Ready, Ctx, Fields, Rated, Counted, Worded,
       Pieces, Kinds, Rates, NONE
  <2>3. Placed(k)
    BY <1>7 DEF To, Txs, Rxs, Ready, Ctx, Fields, Placed, AnsStates
  <2>4. Rested(k) /\ Dwelt(k, b1) /\ Unsent(k)
    BY <1>7 DEF To, Txs, Rxs, Ready, Ctx, Fields, Counted, Worded, Placed,
       Rested, Counting, Dwelt, Unsent
  <2>5. k.mode = h.mode
    BY <1>7 DEF To, Txs, Rxs, Ready, Ctx, Fields
  <2>6. AnsPassed(h, k)
    BY <1>7
       DEF To, Txs, Rxs, Ready, Ctx, Fields, AnsPassed, Posts, AnsEarly, Gen,
       Word, NONE
  <2> QED
    BY <2>1, <2>2, <2>3, <2>4, <2>5, <2>6 DEF Good
<1>8. CASE h.state = "N"
  <2> DEFINE k ==
       [h EXCEPT !.state = "O", !.left = Limit, !.tone = 1800,
       !.rx = "STone"]
  <2>1. AnsTraining(h) = k
    BY <1>8 DEF AnsTraining
  <2>2. Ctx(k)
    BY <1>8 DEF Ready, Ctx, Fields, Rated, Counted, Worded, Pieces, Kinds,
       Rates, NONE
  <2>3. Placed(k)
    BY <1>8 DEF Ready, Ctx, Fields, Placed, AnsStates
  <2>4. Rested(k) /\ Dwelt(k, b1) /\ Unsent(k)
    BY <1>8 DEF Ready, Ctx, Fields, Counted, Worded, Placed, Rested, Counting,
       Dwelt, Unsent
  <2>5. k.mode = h.mode
    BY <1>8 DEF Ready, Ctx, Fields
  <2>6. AnsPassed(h, k)
    BY <1>8 DEF Ready, Ctx, Fields, AnsPassed, Posts, AnsEarly, Gen, Word, NONE
  <2> QED
    BY <2>1, <2>2, <2>3, <2>4, <2>5, <2>6 DEF Good
<1>9. CASE h.state = "O"
  <2> DEFINE k == SetRxMode(Rxs(To(h, "P", Limit), "Epoch"), 0)
  <2>1. AnsTraining(h) = k
    BY <1>9 DEF AnsTraining
  <2>2. Ctx(k)
    BY <1>9 DEF To, Rxs, SetRxMode, Reported, Ready, Ctx, Fields, Rated,
       Counted, Worded, Pieces, Kinds, Rates, NONE
  <2>3. Placed(k)
    BY <1>9 DEF To, Rxs, SetRxMode, Reported, Ready, Ctx, Fields, Placed,
       AnsStates
  <2>4. Rested(k) /\ Dwelt(k, b1) /\ Unsent(k)
    BY <1>9 DEF To, Rxs, SetRxMode, Reported, Ready, Ctx, Fields, Counted,
       Worded, Placed, Rested, Counting, Dwelt, Unsent
  <2>5. k.mode = h.mode
    BY <1>9 DEF To, Rxs, SetRxMode, Reported, Ready, Ctx, Fields
  <2>6. AnsPassed(h, k)
    BY <1>9
       DEF To, Rxs, SetRxMode, Reported, Ready, Ctx, Fields, AnsPassed, Posts,
       AnsEarly, Gen, Word, NONE
  <2> QED
    BY <2>1, <2>2, <2>3, <2>4, <2>5, <2>6 DEF Good
<1>10. CASE h.state = "P"
  <2> DEFINE k == Rxs(Txs(To(h, "Q", Scaled(1552)), "NoCarrier"), "Data")
  <2>1. AnsTraining(h) = k
    BY <1>10 DEF AnsTraining
  <2>0. Scaled(1552) \in Nat \ {0}
    BY Times DEF Durations
  <2>2. Ctx(k)
    BY <1>10, <2>0 DEF To, Txs, Rxs, Ready, Ctx, Fields, Rated, Counted,
       Worded, Pieces, Kinds, Rates, NONE
  <2>3. Placed(k)
    BY <1>10, <2>0 DEF To, Txs, Rxs, Ready, Ctx, Fields, Placed, AnsStates
  <2>4. Rested(k) /\ Dwelt(k, b1) /\ Unsent(k)
    BY <1>10, <2>0 DEF To, Txs, Rxs, Ready, Ctx, Fields, Counted, Worded,
       Placed, Rested, Counting, Dwelt, Unsent
  <2>5. k.mode = h.mode
    BY <1>10, <2>0 DEF To, Txs, Rxs, Ready, Ctx, Fields
  <2>6. AnsPassed(h, k)
    BY <1>10, <2>0
       DEF To, Txs, Rxs, Ready, Ctx, Fields, AnsPassed, Posts, AnsEarly,
       Gen, Word, NONE
  <2> QED
    BY <2>1, <2>2, <2>3, <2>4, <2>5, <2>6 DEF Good
<1>11. CASE h.state = "Q"
  <2> DEFINE k == InitDet(SetRxMode(Rxs(To(h, "T", Limit), "RateSequence"), 0), "R")
  <2>1. AnsTraining(h) = k
    BY <1>11 DEF AnsTraining
  <2>2. Ctx(k)
    BY <1>11 DEF To, Rxs, InitDet, SetRxMode, Reported, Ready, Ctx, Fields,
       Rated, Counted, Worded, Pieces, Kinds, Rates, NONE
  <2>3. Placed(k)
    BY <1>11 DEF To, Rxs, InitDet, SetRxMode, Reported, Ready, Ctx, Fields,
       Placed, AnsStates
  <2>4. Rested(k) /\ Dwelt(k, b1) /\ Unsent(k)
    BY <1>11 DEF To, Rxs, InitDet, SetRxMode, Reported, Ready, Ctx, Fields,
       Counted, Worded, Placed, Rested, Counting, Dwelt, Unsent
  <2>5. k.mode = h.mode
    BY <1>11 DEF To, Rxs, InitDet, SetRxMode, Reported, Ready, Ctx, Fields
  <2>6. AnsPassed(h, k)
    BY <1>11 DEF To, Rxs, InitDet, SetRxMode, Reported, Ready, Ctx, Fields,
       AnsPassed, Posts, AnsEarly, Gen, Word, NONE
  <2> QED
    BY <2>1, <2>2, <2>3, <2>4, <2>5, <2>6 DEF Good
<1> QED
  BY <1>1, <1>2, <1>3, <1>4, <1>5, <1>6, <1>7, <1>8, <1>9, <1>10, <1>11

\* and its rates.
LEMMA AnsRatesGood ==
  ASSUME NEW h, NEW b, NEW b1, Ready(h, b, b1), h.mode = "ans",
         h.state \in {"T", "U", "V", "W", "X", "X2", "Y", "Z", "END"}
  PROVE  Good(AnsRates(h), b1) /\ AnsRates(h).mode = h.mode
<1> USE Times
<1>1. CASE h.state = "T"
  <2> DEFINE k ==
       LET k == InitGen(SetTxMode(To(h, "U", Scaled(256)), 0), Gen("S"))
       IN [k EXCEPT
             !.tx = "CarrierState", !.rx = "Data", !.regs[2] = h.match,
             !.status = IF common_rate(h.own, h.match) = NONE
                        THEN 23 ELSE @]
  <2>1. AnsRates(h) = k
    BY <1>1 DEF AnsRates
  <2>0. Scaled(256) \in Nat \ {0}
    BY Times DEF Durations
  <2>a0. [h.regs EXCEPT ![2] = h.match] \in [1 .. 4 -> SUBSET Bits]
    BY LoadReg DEF Ready, Ctx, Rated
  <2>2. Ctx(k)
    <3>0. DOMAIN k = Fields
      BY <1>1, <2>0, <2>a0 DEF To, InitGen, Gen, SetTxMode, Reported, Ready,
         Ctx
    <3>1. k.own = h.own /\ k.named = h.named
      BY <1>1, <2>0, <2>a0 DEF To, InitGen, Gen, SetTxMode, Reported, Ready,
         Ctx, Fields
    <3>4. k.txr \in Rates /\ k.rxr \in Rates
      BY <1>1, <2>0, <2>a0 DEF To, InitGen, Gen, SetTxMode, Reported, Ready,
         Ctx, Fields, Rated, Rates, NONE
    <3>5. k.match \in SUBSET Bits /\ k.regs \in [1 .. 4 -> SUBSET Bits]
      BY <1>1, <2>0, <2>a0 DEF To, InitGen, Gen, SetTxMode, Reported, Ready,
         Ctx, Fields, Rated
    <3>6. Rated(k)
      BY <3>1, <3>4, <3>5 DEF Ready, Ctx, Rated
    <3>2. Counted(k)
      BY <1>1, <2>0, <2>a0 DEF To, InitGen, Gen, SetTxMode, Reported, Ready,
         Ctx, Fields, Counted
    <3>3. Worded(k)
      BY <1>1, <2>0, <2>a0 DEF To, InitGen, Gen, SetTxMode, Reported, Ready,
         Ctx, Fields, Worded, Pieces, Kinds
    <3> QED
      BY <3>0, <3>2, <3>3, <3>6 DEF Ctx
  <2>3. Placed(k)
    BY <1>1, <2>0, <2>a0 DEF To, InitGen, Gen, SetTxMode, Reported, Ready,
       Ctx, Fields, Placed, AnsStates
  <2>4. Rested(k) /\ Dwelt(k, b1) /\ Unsent(k)
    BY <1>1, <2>0, <2>a0 DEF To, InitGen, Gen, SetTxMode, Reported, Ready,
       Ctx, Fields, Counted, Worded, Placed, Rested, Counting, Dwelt, Unsent
  <2>5. k.mode = h.mode
    BY <1>1, <2>0, <2>a0 DEF To, InitGen, Gen, SetTxMode, Reported, Ready,
       Ctx, Fields
  <2> QED
    BY <2>1, <2>2, <2>3, <2>4, <2>5 DEF Good
<1>2. CASE h.state = "U"
  <2> DEFINE k == InitGen(Txs(To(h, "V", Scaled(16)), "CarrierState"), Gen("Sbar"))
  <2>1. AnsRates(h) = k
    BY <1>2 DEF AnsRates
  <2>0. Scaled(16) \in Nat \ {0}
    BY Times DEF Durations
  <2>2. Ctx(k)
    BY <1>2, <2>0 DEF To, InitGen, Gen, Txs, Ready, Ctx, Fields, Rated,
       Counted, Worded, Pieces, Kinds, Rates, NONE
  <2>3. Placed(k)
    BY <1>2, <2>0 DEF To, InitGen, Gen, Txs, Ready, Ctx, Fields, Placed,
       AnsStates
  <2>4. Rested(k) /\ Dwelt(k, b1) /\ Unsent(k)
    BY <1>2, <2>0 DEF To, InitGen, Gen, Txs, Ready, Ctx, Fields, Counted,
       Worded, Placed, Rested, Counting, Dwelt, Unsent
  <2>5. k.mode = h.mode
    BY <1>2, <2>0 DEF To, InitGen, Gen, Txs, Ready, Ctx, Fields
  <2> QED
    BY <2>1, <2>2, <2>3, <2>4, <2>5 DEF Good
<1>3. CASE h.state = "V"
  <2> DEFINE k == InitGen(Txs(To(h, "W", Scaled(256)), "TRN"), Gen("TRN"))
  <2>1. AnsRates(h) = k
    BY <1>3 DEF AnsRates
  <2>0. Scaled(256) \in Nat \ {0}
    BY Times DEF Durations
  <2>2. Ctx(k)
    BY <1>3, <2>0 DEF To, InitGen, Gen, Txs, Ready, Ctx, Fields, Rated,
       Counted, Worded, Pieces, Kinds, Rates, NONE
  <2>3. Placed(k)
    BY <1>3, <2>0 DEF To, InitGen, Gen, Txs, Ready, Ctx, Fields, Placed,
       AnsStates
  <2>4. Rested(k) /\ Dwelt(k, b1) /\ Unsent(k)
    BY <1>3, <2>0 DEF To, InitGen, Gen, Txs, Ready, Ctx, Fields, Counted,
       Worded, Placed, Rested, Counting, Dwelt, Unsent
  <2>5. k.mode = h.mode
    BY <1>3, <2>0 DEF To, InitGen, Gen, Txs, Ready, Ctx, Fields
  <2> QED
    BY <2>1, <2>2, <2>3, <2>4, <2>5 DEF Good
<1>4. CASE h.state = "W"
  <2> DEFINE k == Txs(To(h, "X", Scaled(7100)), "ScrSequence")
  <2>1. AnsRates(h) = k
    BY <1>4 DEF AnsRates
  <2>0. Scaled(7100) \in Nat \ {0}
    BY Times DEF Durations
  <2>2. Ctx(k)
    BY <1>4, <2>0 DEF To, Txs, Ready, Ctx, Fields, Rated, Counted, Worded,
       Pieces, Kinds, Rates, NONE
  <2>3. Placed(k)
    BY <1>4, <2>0 DEF To, Txs, Ready, Ctx, Fields, Placed, AnsStates
  <2>4. Rested(k) /\ Dwelt(k, b1) /\ Unsent(k)
    BY <1>4, <2>0 DEF To, Txs, Ready, Ctx, Fields, Counted, Worded, Placed,
       Rested, Counting, Dwelt, Unsent
  <2>5. k.mode = h.mode
    BY <1>4, <2>0 DEF To, Txs, Ready, Ctx, Fields
  <2> QED
    BY <2>1, <2>2, <2>3, <2>4, <2>5 DEF Good
<1>5. CASE h.state = "X"
  <2> DEFINE k ==
       [InitDet(InitGen(SetTxMode(To(h, "X2", Limit), 0),
                     Word("R", CodeFinalRateSeq(h.own, h.regs[2]))), "E")
       EXCEPT !.tx = "ScrSequence", !.rx = "Sequence"]
  <2>1. AnsRates(h) = k
    BY <1>5 DEF AnsRates
  <2>a0. CodeFinalRateSeq(h.own, h.regs[2]) \in SUBSET Bits
    BY CodeBits
  <2>2. Ctx(k)
    <3>0. DOMAIN k = Fields
      BY <1>5, <2>a0 DEF To, InitGen, InitDet, SetTxMode, Word, Reported,
         Ready, Ctx
    <3>1. k.own = h.own /\ k.named = h.named
      BY <1>5, <2>a0 DEF To, InitGen, InitDet, SetTxMode, Word, Reported,
         Ready, Ctx, Fields
    <3>4. k.txr \in Rates /\ k.rxr \in Rates
      BY <1>5, <2>a0 DEF To, InitGen, InitDet, SetTxMode, Word, Reported,
         Ready, Ctx, Fields, Rated, Rates, NONE
    <3>5. k.match \in SUBSET Bits /\ k.regs \in [1 .. 4 -> SUBSET Bits]
      BY <1>5, <2>a0 DEF To, InitGen, InitDet, SetTxMode, Word, Reported,
         Ready, Ctx, Fields, Rated
    <3>6. Rated(k)
      BY <3>1, <3>4, <3>5 DEF Ready, Ctx, Rated
    <3>2. Counted(k)
      BY <1>5, <2>a0 DEF To, InitGen, InitDet, SetTxMode, Word, Reported,
         Ready, Ctx, Fields, Counted
    <3>3. Worded(k)
      BY <1>5, <2>a0 DEF To, InitGen, InitDet, SetTxMode, Word, Reported,
         Ready, Ctx, Fields, Worded, Pieces, Kinds
    <3> QED
      BY <3>0, <3>2, <3>3, <3>6 DEF Ctx
  <2>3. Placed(k)
    BY <1>5, <2>a0 DEF To, InitGen, InitDet, SetTxMode, Word, Reported, Ready,
       Ctx, Fields, Placed, AnsStates
  <2>4. Rested(k) /\ Dwelt(k, b1) /\ Unsent(k)
    BY <1>5, <2>a0 DEF To, InitGen, InitDet, SetTxMode, Word, Reported, Ready,
       Ctx, Fields, Counted, Worded, Placed, Rested, Counting, Dwelt, Unsent
  <2>5. k.mode = h.mode
    BY <1>5, <2>a0 DEF To, InitGen, InitDet, SetTxMode, Word, Reported, Ready,
       Ctx, Fields
  <2> QED
    BY <2>1, <2>2, <2>3, <2>4, <2>5 DEF Good
<1>6. CASE h.state = "X2"
  <2> DEFINE k ==
       [h EXCEPT !.state = "Y", !.left = ToWordEnd(Limit - h.left),
       !.regs[4] = h.match]
  <2>1. AnsRates(h) = k
    BY <1>6 DEF AnsRates
  <2>a0. ToWordEnd(Limit - h.left) \in 1 .. Scaled(8)
    BY WordEnd DEF Ready, Ctx, Counted
  <2>a1. [h.regs EXCEPT ![4] = h.match] \in [1 .. 4 -> SUBSET Bits]
    BY LoadReg DEF Ready, Ctx, Rated
  <2>2. Ctx(k)
    <3>0. DOMAIN k = Fields
      BY <1>6, <2>a0, <2>a1 DEF Ready, Ctx
    <3>1. k.own = h.own /\ k.named = h.named
      BY <1>6, <2>a0, <2>a1 DEF Ready, Ctx, Fields
    <3>4. k.txr \in Rates /\ k.rxr \in Rates
      BY <1>6, <2>a0, <2>a1 DEF Ready, Ctx, Fields, Rated, Rates, NONE
    <3>5. k.match \in SUBSET Bits /\ k.regs \in [1 .. 4 -> SUBSET Bits]
      BY <1>6, <2>a0, <2>a1 DEF Ready, Ctx, Fields, Rated
    <3>6. Rated(k)
      BY <3>1, <3>4, <3>5 DEF Ready, Ctx, Rated
    <3>2. Counted(k)
      BY <1>6, <2>a0, <2>a1 DEF Ready, Ctx, Fields, Counted
    <3>3. Worded(k)
      BY <1>6, <2>a0, <2>a1 DEF Ready, Ctx, Fields, Worded, Pieces, Kinds
    <3> QED
      BY <3>0, <3>2, <3>3, <3>6 DEF Ctx
  <2>3. Placed(k)
    BY <1>6, <2>a0, <2>a1 DEF Ready, Ctx, Fields, Placed, AnsStates
  <2>4. Rested(k) /\ Dwelt(k, b1) /\ Unsent(k)
    BY <1>6, <2>a0, <2>a1 DEF Ready, Ctx, Fields, Counted, Worded, Placed,
       Rested, Counting, Dwelt, Unsent
  <2>5. k.mode = h.mode
    BY <1>6, <2>a0, <2>a1 DEF Ready, Ctx, Fields
  <2> QED
    BY <2>1, <2>2, <2>3, <2>4, <2>5 DEF Good
<1>7. CASE h.state = "Y"
  <2> DEFINE k ==
       [InitGen(SetRxMode(h, DecodeReg(h, 4)),
             Word("E", CodeESeq(h.own, h.regs[4]))) EXCEPT
       !.state = "Z", !.left = Scaled(8), !.tx = "ScrSequence",
       !.rx = "Data"]
  <2>1. AnsRates(h) = k
    BY <1>7 DEF AnsRates
  <2>a0. CodeESeq(h.own, h.regs[4]) \in SUBSET Bits
    BY CodeBits
  <2>a1. DecodeReg(h, 4) \in AnyRate
    BY CommonRate DEF DecodeReg
  <2>2. Ctx(k)
    <3>0. DOMAIN k = Fields
      BY <1>7, <2>a0, <2>a1 DEF InitGen, SetRxMode, Word, Reported, AnyRate,
         Ready, Ctx
    <3>1. k.own = h.own /\ k.named = h.named
      BY <1>7, <2>a0, <2>a1 DEF InitGen, SetRxMode, Word, Reported, AnyRate,
         Ready, Ctx, Fields
    <3>4. k.txr \in Rates /\ k.rxr \in Rates
      BY <1>7, <2>a0, <2>a1 DEF InitGen, SetRxMode, Word, Reported, AnyRate,
         Ready, Ctx, Fields, Rated, Rates, NONE
    <3>5. k.match \in SUBSET Bits /\ k.regs \in [1 .. 4 -> SUBSET Bits]
      BY <1>7, <2>a0, <2>a1 DEF InitGen, SetRxMode, Word, Reported, AnyRate,
         Ready, Ctx, Fields, Rated
    <3>6. Rated(k)
      BY <3>1, <3>4, <3>5 DEF Ready, Ctx, Rated
    <3>2. Counted(k)
      BY <1>7, <2>a0, <2>a1 DEF InitGen, SetRxMode, Word, Reported, AnyRate,
         Ready, Ctx, Fields, Counted
    <3>3. Worded(k)
      BY <1>7, <2>a0, <2>a1 DEF InitGen, SetRxMode, Word, Reported, AnyRate,
         Ready, Ctx, Fields, Worded, Pieces, Kinds
    <3> QED
      BY <3>0, <3>2, <3>3, <3>6 DEF Ctx
  <2>3. Placed(k)
    BY <1>7, <2>a0, <2>a1 DEF InitGen, SetRxMode, Word, Reported, AnyRate,
       Ready, Ctx, Fields, Placed, AnsStates
  <2>4. Rested(k) /\ Dwelt(k, b1) /\ Unsent(k)
    BY <1>7, <2>a0, <2>a1 DEF InitGen, SetRxMode, Word, Reported, AnyRate,
       Ready, Ctx, Fields, Counted, Worded, Placed, Rested, Counting, Dwelt,
       Unsent
  <2>5. k.mode = h.mode
    BY <1>7, <2>a0, <2>a1 DEF InitGen, SetRxMode, Word, Reported, AnyRate,
       Ready, Ctx, Fields
  <2> QED
    BY <2>1, <2>2, <2>3, <2>4, <2>5 DEF Good
<1>8. CASE h.state = "Z"
  <2> DEFINE k ==
       [SetTxMode(InitGen(To(h, "END", Scaled(128)), Gen("B1")),
       DecodeReg(h, 4)) EXCEPT !.tx = "ScrSequence", !.rx = "Data"]
  <2>1. AnsRates(h) = k
    BY <1>8 DEF AnsRates
  <2>0. Scaled(128) \in Nat \ {0}
    BY Times DEF Durations
  <2>a0. DecodeReg(h, 4) \in AnyRate
    BY CommonRate DEF DecodeReg
  <2>2. Ctx(k)
    <3>0. DOMAIN k = Fields
      BY <1>8, <2>0, <2>a0 DEF To, InitGen, Gen, SetTxMode, Reported, AnyRate,
         Ready, Ctx
    <3>1. k.own = h.own /\ k.named = h.named
      BY <1>8, <2>0, <2>a0 DEF To, InitGen, Gen, SetTxMode, Reported, AnyRate,
         Ready, Ctx, Fields
    <3>4. k.txr \in Rates /\ k.rxr \in Rates
      BY <1>8, <2>0, <2>a0 DEF To, InitGen, Gen, SetTxMode, Reported, AnyRate,
         Ready, Ctx, Fields, Rated, Rates, NONE
    <3>5. k.match \in SUBSET Bits /\ k.regs \in [1 .. 4 -> SUBSET Bits]
      BY <1>8, <2>0, <2>a0 DEF To, InitGen, Gen, SetTxMode, Reported, AnyRate,
         Ready, Ctx, Fields, Rated
    <3>6. Rated(k)
      BY <3>1, <3>4, <3>5 DEF Ready, Ctx, Rated
    <3>2. Counted(k)
      BY <1>8, <2>0, <2>a0 DEF To, InitGen, Gen, SetTxMode, Reported, AnyRate,
         Ready, Ctx, Fields, Counted
    <3>3. Worded(k)
      BY <1>8, <2>0, <2>a0 DEF To, InitGen, Gen, SetTxMode, Reported, AnyRate,
         Ready, Ctx, Fields, Worded, Pieces, Kinds
    <3> QED
      BY <3>0, <3>2, <3>3, <3>6 DEF Ctx
  <2>3. Placed(k)
    BY <1>8, <2>0, <2>a0 DEF To, InitGen, Gen, SetTxMode, Reported, AnyRate,
       Ready, Ctx, Fields, Placed, AnsStates
  <2>4. Rested(k) /\ Dwelt(k, b1) /\ Unsent(k)
    BY <1>8, <2>0, <2>a0 DEF To, InitGen, Gen, SetTxMode, Reported, AnyRate,
       Ready, Ctx, Fields, Counted, Worded, Placed, Rested, Counting, Dwelt,
       Unsent
  <2>5. k.mode = h.mode
    BY <1>8, <2>0, <2>a0 DEF To, InitGen, Gen, SetTxMode, Reported, AnyRate,
       Ready, Ctx, Fields
  <2> QED
    BY <2>1, <2>2, <2>3, <2>4, <2>5 DEF Good
<1>9. CASE h.state = "END"
  <2> DEFINE k ==
       [To(h, "END", Limit) EXCEPT
       !.data = TRUE, !.status = V32_CONNECT[DecodeReg(h, 4)]]
  <2>1. AnsRates(h) = k
    BY <1>9 DEF AnsRates
  <2>a0. V32_CONNECT[DecodeReg(h, 4)] \in 0 .. 28
    BY CommonRate, ConnectStatus DEF DecodeReg
  <2>2. Ctx(k)
    <3>0. DOMAIN k = Fields
      BY <1>9, <2>a0 DEF To, Ready, Ctx
    <3>1. k.own = h.own /\ k.named = h.named
      BY <1>9, <2>a0 DEF To, Ready, Ctx, Fields
    <3>4. k.txr \in Rates /\ k.rxr \in Rates
      BY <1>9, <2>a0 DEF To, Ready, Ctx, Fields, Rated, Rates, NONE
    <3>5. k.match \in SUBSET Bits /\ k.regs \in [1 .. 4 -> SUBSET Bits]
      BY <1>9, <2>a0 DEF To, Ready, Ctx, Fields, Rated
    <3>6. Rated(k)
      BY <3>1, <3>4, <3>5 DEF Ready, Ctx, Rated
    <3>2. Counted(k)
      BY <1>9, <2>a0 DEF To, Ready, Ctx, Fields, Counted
    <3>3. Worded(k)
      BY <1>9, <2>a0 DEF To, Ready, Ctx, Fields, Worded, Pieces, Kinds
    <3> QED
      BY <3>0, <3>2, <3>3, <3>6 DEF Ctx
  <2>3. Placed(k)
    BY <1>9, <2>a0 DEF To, Ready, Ctx, Fields, Placed, AnsStates
  <2>4. Rested(k) /\ Dwelt(k, b1) /\ Unsent(k)
    BY <1>9, <2>a0 DEF To, Ready, Ctx, Fields, Counted, Worded, Placed,
       Rested, Counting, Dwelt, Unsent
  <2>5. k.mode = h.mode
    BY <1>9, <2>a0 DEF To, Ready, Ctx, Fields
  <2> QED
    BY <2>1, <2>2, <2>3, <2>4, <2>5 DEF Good
<1> QED
  BY <1>1, <1>2, <1>3, <1>4, <1>5, <1>6, <1>7, <1>8, <1>9

\* A step of the machine, whoever makes it, keeps a station good.
LEMMA NextStateGood ==
  ASSUME NEW h, NEW b, NEW b1, Ready(h, b, b1)
  PROVE  Good(NextState(h), b1) /\ NextState(h).mode = h.mode
<1> DEFINE e == [h EXCEPT !.left = Limit]
<1>0. \/ h.mode = "org" /\ h.state \in OrgStates
      \/ h.mode = "ans" /\ h.state \in AnsStates
  BY DEF Ready, Placed
<1>1. CASE h.state = "ERROR"
  <2>1. NextState(h) = e
    BY <1>0, <1>1 DEF NextState, OrgNextState, AnsNextState
  <2>2. Ctx(e)
    BY <1>1, Times DEF Ready, Ctx, Fields, Rated, Counted, Worded
  <2>3. Placed(e) /\ e.mode = h.mode
    BY <1>1 DEF Ready, Ctx, Fields, Placed
  <2>4. Rested(e) /\ Dwelt(e, b1) /\ Unsent(e)
    BY <1>1, Times DEF Ready, Ctx, Fields, Placed, Rested, Counting, Dwelt,
       Unsent
  <2> QED
    BY <2>1, <2>2, <2>3, <2>4 DEF Good
<1>2. CASE h.mode = "org" /\ h.state \in {"A", "B", "B2", "C", "D", "D2"}
  BY <1>2, OrgRangingGood DEF NextState, OrgNextState
<1>3. CASE /\ h.mode = "org"
           /\ h.state \in {"E", "F", "G", "H", "I", "J", "K", "L", "M"}
  BY <1>3, OrgTrainingGood DEF NextState, OrgNextState
<1>4. CASE /\ h.mode = "org"
           /\ h.state \in {"N", "O", "P", "Q", "R", "S", "T", "U", "V"}
  BY <1>4, OrgRatesGood DEF NextState, OrgNextState
<1>5. CASE /\ h.mode = "ans"
           /\ h.state \in {"A", "B", "B2", "C", "D", "E", "F", "F2"}
  BY <1>5, AnsRangingGood DEF NextState, AnsNextState
<1>6. CASE /\ h.mode = "ans"
           /\ h.state \in {"G", "H", "I", "J", "K", "L", "M", "N", "O", "P", "Q"}
  BY <1>6, AnsTrainingGood DEF NextState, AnsNextState
<1>7. CASE /\ h.mode = "ans"
           /\ h.state \in {"T", "U", "V", "W", "X", "X2", "Y", "Z", "END"}
  BY <1>7, AnsRatesGood DEF NextState, AnsNextState
<1> QED
  BY <1>0, <1>1, <1>2, <1>3, <1>4, <1>5, <1>6, <1>7 DEF OrgStates, AnsStates

\* A detection steps a good station with its block still to be sent.
LEMMA DetectedGood ==
  ASSUME NEW h, NEW b \in 0 .. Sym, Good(h, b)
  PROVE  Good(NextState(h), b) /\ NextState(h).mode = h.mode
<1>1. Ready(h, b, b)
  BY DEF Good, Ready
<1> QED
  BY <1>1, NextStateGood

-----------------------------------------------------------------------------

\* What the receive routines change themselves: the time of the wait,
LEMMA TimerGood ==
  ASSUME NEW h, NEW b, Good(h, b), NEW t \in Nat
  PROVE  /\ Good([h EXCEPT !.timer = t], b)
         /\ [h EXCEPT !.timer = t].mode = h.mode
<1> DEFINE k == [h EXCEPT !.timer = t]
<1>1. Ctx(k) /\ k.mode = h.mode
  BY DEF Good, Ctx, Fields, Rated, Counted, Worded
<1>2. Placed(k)
  BY DEF Good, Ctx, Fields, Placed
<1>3. Rested(k) /\ Dwelt(k, b) /\ Unsent(k)
  BY DEF Good, Ctx, Fields, Rested, Dwelt, Unsent
<1> QED
  BY <1>1, <1>2, <1>3 DEF Good

\* the word that was heard,
LEMMA MatchGood ==
  ASSUME NEW h, NEW b, Good(h, b), NEW w \in SUBSET Bits
  PROVE  /\ Good([h EXCEPT !.match = w], b)
         /\ [h EXCEPT !.match = w].mode = h.mode
<1> DEFINE k == [h EXCEPT !.match = w]
<1>1. Ctx(k) /\ k.mode = h.mode
  BY DEF Good, Ctx, Fields, Rated, Counted, Worded
<1>2. Placed(k)
  BY DEF Good, Ctx, Fields, Placed
<1>3. Rested(k) /\ Dwelt(k, b) /\ Unsent(k)
  BY DEF Good, Ctx, Fields, Rested, Dwelt, Unsent
<1> QED
  BY <1>1, <1>2, <1>3 DEF Good

\* the blocks a tone has been there for,
LEMMA ToneGood ==
  ASSUME NEW h, NEW b, Good(h, b), NEW ac \in 0 .. 3
  PROVE  /\ Good([h EXCEPT !.ac = ac], b)
         /\ [h EXCEPT !.ac = ac].mode = h.mode
         /\ Good([h EXCEPT !.i90 = TRUE, !.ac = 0], b)
         /\ [h EXCEPT !.i90 = TRUE, !.ac = 0].mode = h.mode
<1> DEFINE k == [h EXCEPT !.ac = ac]
           j == [h EXCEPT !.i90 = TRUE, !.ac = 0]
<1>1. Ctx(k) /\ k.mode = h.mode
  BY DEF Good, Ctx, Fields, Rated, Counted, Worded
<1>2. Placed(k)
  BY DEF Good, Ctx, Fields, Placed
<1>3. Rested(k) /\ Dwelt(k, b) /\ Unsent(k)
  BY DEF Good, Ctx, Fields, Rested, Dwelt, Unsent
<1>4. Ctx(j) /\ j.mode = h.mode
  BY DEF Good, Ctx, Fields, Rated, Counted, Worded
<1>5. Placed(j)
  BY DEF Good, Ctx, Fields, Placed
<1>6. Rested(j) /\ Dwelt(j, b) /\ Unsent(j)
  BY DEF Good, Ctx, Fields, Rested, Dwelt, Unsent
<1> QED
  BY <1>1, <1>2, <1>3, <1>4, <1>5, <1>6 DEF Good

\* and the failure of a wait that has lasted too long.
LEMMA TimedGood ==
  ASSUME NEW h, NEW b, Good(h, b), NEW st \in 0 .. 28
  PROVE  Good(Timed(h, st), b) /\ Timed(h, st).mode = h.mode
<1> DEFINE k == Fail(h, st)
<1>1. Ctx(k) /\ k.mode = h.mode
  BY DEF Fail, Good, Ctx, Fields, Rated, Counted, Worded
<1>2. Placed(k)
  BY DEF Fail, Good, Ctx, Fields, Placed, OrgStates, AnsStates
<1>3. Rested(k) /\ Dwelt(k, b) /\ Unsent(k)
  BY DEF Fail, Good, Ctx, Fields, Rested, Counting, Dwelt, Unsent
<1> QED
  BY <1>1, <1>2, <1>3 DEF Good, Timed

\* The start of a routine: the block is counted.  Most routines do not run in
\* D or F,
LEMMA StartedGood ==
  ASSUME NEW h, Good(h, 0), h.rx \notin {"NoSignal", "PhsReversal"}
  PROVE  LET k == [h EXCEPT !.data = FALSE, !.timer = @ + Sym]
         IN Good(k, Sym) /\ k.mode = h.mode
<1> DEFINE k == [h EXCEPT !.data = FALSE, !.timer = @ + Sym]
<1>1. Ctx(k) /\ k.mode = h.mode
  BY Times DEF Good, Ctx, Fields, Rated, Counted, Worded
<1>2. Placed(k)
  BY DEF Good, Ctx, Fields, Placed
<1>3. Rested(k) /\ Dwelt(k, Sym) /\ Unsent(k)
  BY DEF Good, Ctx, Fields, Placed, Rested, Dwelt, Unsent
<1> QED
  BY <1>1, <1>2, <1>3 DEF Good

\* RxHdxNoSignal counts for F,
LEMMA StartedNoSignal ==
  ASSUME NEW h, Good(h, 0), h.rx = "NoSignal"
  PROVE  LET k == [[h EXCEPT !.data = FALSE, !.timer = @ + Sym] EXCEPT
                     !.aa = SatAdd(@, Scaled(95))]
         IN Good(k, Sym) /\ k.mode = h.mode
<1> DEFINE k == [[h EXCEPT !.data = FALSE, !.timer = @ + Sym] EXCEPT
                   !.aa = SatAdd(@, Scaled(95))]
<1>1. Ctx(k) /\ k.mode = h.mode
  BY Times DEF SatAdd, Good, Ctx, Fields, Rated, Counted, Worded
<1>2. Placed(k)
  BY DEF Good, Ctx, Fields, Placed
<1>3. Rested(k) /\ Dwelt(k, Sym) /\ Unsent(k)
  BY Times DEF SatAdd, Good, Ctx, Fields, Counted, Placed, Rested, Dwelt, Unsent
<1> QED
  BY <1>1, <1>2, <1>3 DEF Good

\* and RxHdxPhsReversal for D.
LEMMA StartedPhsReversal ==
  ASSUME NEW h, Good(h, 0), h.rx = "PhsReversal"
  PROVE  LET k == [[h EXCEPT !.data = FALSE, !.timer = @ + Sym] EXCEPT
                     !.a8 = SatAdd(@, Scaled(72))]
         IN Good(k, Sym) /\ k.mode = h.mode
<1> DEFINE k == [[h EXCEPT !.data = FALSE, !.timer = @ + Sym] EXCEPT
                   !.a8 = SatAdd(@, Scaled(72))]
<1>1. Ctx(k) /\ k.mode = h.mode
  BY Times DEF SatAdd, Good, Ctx, Fields, Rated, Counted, Worded
<1>2. Placed(k)
  BY DEF Good, Ctx, Fields, Placed
<1>3. Rested(k) /\ Dwelt(k, Sym) /\ Unsent(k)
  BY Times DEF SatAdd, Good, Ctx, Fields, Counted, Placed, Rested, Dwelt, Unsent
<1> QED
  BY <1>1, <1>2, <1>3 DEF Good

\* What a station is when its receive routine is called.
LEMMA ReceivingGood ==
  ASSUME StationIInv, NEW s \in Sides, NEW rx, Receiving(s, rx)
  PROVE  Good(m[s], 0) /\ m[s].mode = s /\ m[s].rx = rx
BY DEF StationIInv, SideInv, Owed, Receiving

\* What it hears: pieces of signal, the last of them of some kind, and words
\* of rate bits.
LEMMA HeardPieces ==
  ASSUME StationIInv, NEW s \in Sides
  PROVE  /\ LastHeard(s) \in Kinds
         /\ \A kind : \A w \in WordsHeard(s, kind) : w \in SUBSET Bits
<1>1. Peer(s) \in Sides
  BY DEF Peer, Sides
<1>2. Heard(s) \in Seq(Pieces) /\ Heard(s) # << >>
  BY <1>1 DEF StationIInv, SideInv, Heard
<1>3. Len(Heard(s)) \in 1 .. Len(Heard(s))
  BY <1>2, EmptySeq, LenProperties
<1>4. \A i \in 1 .. Len(Heard(s)) : Heard(s)[i] \in Pieces
  BY <1>2, ElementOfSeq
<1>5. \A g \in Pieces : g.kind \in Kinds /\ g.seq \in SUBSET Bits
  BY DEF Pieces
<1> QED
  BY <1>3, <1>4, <1>5 DEF LastHeard, WordsHeard

\* The end of a receive routine, with a good station.
LEMMA RxEndKeeps ==
  ASSUME StationIInv, NEW s \in Sides, NEW rx, Receiving(s, rx),
         NEW h, Good(h, Sym), h.mode = s, RxEnd(s, h)
  PROVE  StationIInv'
<1> USE DEF Sides
<1>0. LastHeard(s) \in Kinds
  BY HeardPieces
<1>1. m'[s] = h /\ \A t \in Sides : t # s => m'[t] = m[t]
  BY DEF RxEnd, StationIInv, CallInv
<1>2. /\ turn' = s /\ pc' = "tx" /\ budget' = Sym /\ line' = line
      /\ overrun' = overrun /\ turn = s /\ pc = "rx" /\ ~overrun[s]
  BY DEF RxEnd, Receiving, Alive
<1>3. \A t \in Sides : last'[t] \in Kinds
  BY <1>0 DEF RxEnd, StationIInv, CallInv, SideInv
<1>4. CallInv'
  <2>1. /\ DOMAIN m' = Sides /\ DOMAIN line' = Sides /\ DOMAIN last' = Sides
        /\ UNCHANGED << dp, deferred, overrun, turn, retrains >>
    BY DEF RxEnd, StationIInv, CallInv
  <2>2. budget' \in 0 .. Sym /\ (pc' = "tx" => m'[turn'].mode = turn')
    BY <1>1, <1>2, Times
  <2> QED
    BY <1>2, <2>1, <2>2 DEF StationIInv, CallInv
<1>5. SideInv(s)'
  BY <1>1, <1>2, <1>3 DEF StationIInv, SideInv, Owed, Good
<1>6. ASSUME NEW t \in Sides, t # s
      PROVE  SideInv(t)'
  BY <1>1, <1>2, <1>3, <1>6 DEF StationIInv, SideInv, Owed
<1> QED
  BY <1>4, <1>5, <1>6 DEF StationIInv

\* Every receive routine: count the block, step if something is detected,
\* fail if it has been too long.
LEMMA ReceiveKeeps ==
  ASSUME StationIInv, NEW s \in Sides, Receive(s)
  PROVE  StationIInv'
<1>0. Sym \in 0 .. Sym /\ Tad \in Nat
  BY Times, CallAssumption
<1>s. ASSUME NEW rx, Receiving(s, rx), rx \notin {"NoSignal", "PhsReversal"}
      PROVE  Good(RxStart(s), Sym) /\ RxStart(s).mode = s
  BY <1>s, ReceivingGood, StartedGood DEF RxStart
<1>t. ASSUME NEW h, Good(h, Sym), h.mode = s, NEW st \in 0 .. 28
      PROVE  /\ Good(Timed(h, st), Sym) /\ Timed(h, st).mode = s
             /\ Good(Timed(NextState(h), st), Sym)
             /\ Timed(NextState(h), st).mode = s
  BY <1>0, <1>t, TimedGood, DetectedGood
<1>1. CASE RxHdxTone(s)
  BY <1>1, <1>s, <1>t, RxEndKeeps DEF RxHdxTone
<1>2. CASE RxHdxNoSignal(s)
  <2>1. PICK gone \in Possible(ToneGone(s)) :
          LET h == [RxStart(s) EXCEPT !.aa = SatAdd(@, Scaled(95))]
          IN RxEnd(s, Timed(IF gone /\ h.timer > Scaled(60)
                            THEN NextState(h) ELSE h, 17))
    BY <1>2 DEF RxHdxNoSignal
  <2> DEFINE h == [RxStart(s) EXCEPT !.aa = SatAdd(@, Scaled(95))]
             r == Timed(IF gone /\ h.timer > Scaled(60)
                        THEN NextState(h) ELSE h, 17)
  <2>2. Receiving(s, "NoSignal")
    BY <1>2 DEF RxHdxNoSignal
  <2>3. Good(h, Sym) /\ h.mode = s
    BY <2>2, ReceivingGood, StartedNoSignal DEF RxStart
  <2>4. Good(r, Sym) /\ r.mode = s
    <3> HIDE DEF h
    <3> QED
      BY <2>3, <1>t
  <2> HIDE DEF r
  <2> QED
    BY <2>1, <2>2, <2>4, RxEndKeeps DEF r
<1>3. CASE RxHdxPhsReversal(s)
  <2> DEFINE h == [RxStart(s) EXCEPT !.a8 = SatAdd(@, Scaled(72))]
             k(rev) == IF h.i90 /\ rev
                       THEN NextState([h EXCEPT !.timer = Tad]) ELSE h
             ac(rev, tone) == IF tone THEN k(rev).ac + 1 ELSE 0
             j(rev, tone) ==
               CASE k(rev).i90 -> k(rev)
                 [] ~k(rev).i90 /\ ac(rev, tone) > 3 ->
                      [k(rev) EXCEPT !.i90 = TRUE, !.ac = 0]
                 [] OTHER -> [k(rev) EXCEPT !.ac = ac(rev, tone)]
  <2>1. PICK rev \in Possible(ReversalHeard(s)), tone \in Possible(ToneHeard(s)) :
          RxEnd(s, Timed(j(rev, tone), 18))
    BY <1>3, Zenon DEF RxHdxPhsReversal
  <2>2. Receiving(s, "PhsReversal")
    BY <1>3 DEF RxHdxPhsReversal
  <2>3. Good(h, Sym) /\ h.mode = s
    BY <2>2, ReceivingGood, StartedPhsReversal DEF RxStart
  <2> HIDE DEF h
  <2>4. Good(k(rev), Sym) /\ k(rev).mode = s
    BY <2>3, <1>0, TimerGood, DetectedGood
  <2> HIDE DEF k
  <2>5. k(rev).ac \in 0 .. 3
    BY <2>4 DEF Good, Ctx, Counted
  <2>6. Good(j(rev, tone), Sym) /\ j(rev, tone).mode = s
    <3>1. CASE k(rev).i90
      BY <3>1, <2>4
    <3>2. CASE ~k(rev).i90 /\ ac(rev, tone) > 3
      BY <3>2, <2>4, <2>5, ToneGood
    <3>3. CASE ~k(rev).i90 /\ ~(ac(rev, tone) > 3)
      <4>1. ac(rev, tone) \in 0 .. 3
        BY <3>3, <2>5
      <4> HIDE DEF ac
      <4> QED
        BY <3>3, <4>1, <2>4, ToneGood
    <3> QED
      BY <3>1, <3>2, <3>3
  <2> HIDE DEF j
  <2> QED
    BY <2>1, <2>2, <2>6, <1>t, RxEndKeeps
<1>w. ASSUME NEW rx, Receiving(s, rx), rx \notin {"NoSignal", "PhsReversal"},
             NEW seq \in WordsHeard(s, m[s].det)
      PROVE  /\ Good(Timed(RxStep(s, RxStart(s), TRUE, seq), 19), Sym)
             /\ Timed(RxStep(s, RxStart(s), TRUE, seq), 19).mode = s
  <2>1. seq \in SUBSET Bits
    BY HeardPieces
  <2> DEFINE k == RxStart(s)
             h == [k EXCEPT !.match = seq]
  <2>2. Good(k, Sym) /\ k.mode = s
    BY <1>w, <1>s
  <2> HIDE DEF k
  <2>3. Good(h, Sym) /\ h.mode = s
    BY <2>1, <2>2, MatchGood
  <2>4. RxStep(s, k, TRUE, seq) = NextState(h)
    BY Zenon DEF RxStep
  <2> HIDE DEF h
  <2>5. Good(Timed(NextState(h), 19), Sym) /\ Timed(NextState(h), 19).mode = s
    BY <2>3, <1>t
  <2> QED
    BY <2>4, <2>5 DEF k
<1>4. CASE RxHdxRateSequence(s)
  <2>1. Receiving(s, "RateSequence")
    BY <1>4 DEF RxHdxRateSequence
  <2>2. CASE RxEnd(s, Timed(RxStart(s), 19))
    BY <2>1, <2>2, <1>s, <1>t, RxEndKeeps
  <2>3. ASSUME NEW seq \in WordsHeard(s, m[s].det),
               RxEnd(s, Timed(RxStep(s, RxStart(s), TRUE, seq), 19))
        PROVE  StationIInv'
    BY <2>1, <2>3, <1>w, RxEndKeeps
  <2> QED
    BY <1>4, <2>2, <2>3 DEF RxHdxRateSequence
<1>5. CASE RxHdxSequence(s)
  <2>1. Receiving(s, "Sequence")
    BY <1>5 DEF RxHdxSequence
  <2>2. CASE RxEnd(s, Timed(RxStart(s), 19))
    BY <2>1, <2>2, <1>s, <1>t, RxEndKeeps
  <2>3. ASSUME NEW seq \in WordsHeard(s, m[s].det),
               RxEnd(s, Timed(RxStep(s, RxStart(s), TRUE, seq), 19))
        PROVE  StationIInv'
    BY <2>1, <2>3, <1>w, RxEndKeeps
  <2> QED
    BY <1>5, <2>2, <2>3 DEF RxHdxSequence
<1>6. CASE RxHdxData(s)
  BY <1>6, <1>s, RxEndKeeps DEF RxHdxData
<1>7. CASE RxHdxNull(s)
  BY <1>7, <1>s, <1>t, RxEndKeeps DEF RxHdxNull
<1>8. CASE RxHdxSTone(s)
  BY <1>8, <1>s, <1>t, RxEndKeeps DEF RxHdxSTone
<1>9. CASE RxHdxEpoch(s)
  BY <1>9, <1>s, <1>t, RxEndKeeps DEF RxHdxEpoch
<1> QED
  BY <1>1, <1>2, <1>3, <1>4, <1>5, <1>6, <1>7, <1>8, <1>9 DEF Receive

-----------------------------------------------------------------------------

\* A station whose transmit routine is called.
LEMMA SendingGood ==
  ASSUME StationIInv, NEW s \in Sides, turn = s, pc = "tx"
  PROVE  Good(m[s], budget) /\ m[s].mode = s /\ budget \in 0 .. Sym
BY DEF StationIInv, CallInv, SideInv, Owed

\* The count of symbols is what is left of the countdown or of the block, but
\* when the countdown is negative.
LEMMA CountKnown ==
  ASSUME StationIInv, NEW s \in Sides, turn = s, pc = "tx"
  PROVE  /\ Count(s) \in Nat
         /\ m[s].left > budget => Count(s) = budget
         /\ m[s].left \in 0 .. budget => Count(s) <= m[s].left
<1>1. m[s].left \in Int /\ budget \in Nat
  BY SendingGood, Times DEF Good, Ctx, Counted
<1> QED
  BY <1>1 DEF Count

\* A routine that has charged the block, and maybe stepped.
LEMMA SteppedGood ==
  ASSUME NEW h, Ctx(h), Placed(h), Dwelt(h, 0),
         h.left > 0 => Rested(h) /\ Unsent(h),
         NEW b \in 0 .. Sym, h.left > 0 => b = 0
  PROVE  Good(Stepped(h), b) /\ Stepped(h).mode = h.mode
<1>1. h.left \in Int
  BY DEF Ctx, Counted
<1>2. CASE h.left <= 0
  <2>1. Ready(h, 0, b)
    BY <1>2, Times DEF Ready
  <2> QED
    BY <1>2, <2>1, NextStateGood DEF Stepped
<1>3. CASE h.left > 0
  BY <1>1, <1>3 DEF Stepped, Good
<1> QED
  BY <1>1, <1>2, <1>3

\* The end of a transmit routine that has sent n symbols.
LEMMA TxEndKeeps ==
  ASSUME StationIInv, NEW s \in Sides, turn = s, pc = "tx", ~overrun[s],
         NEW n \in 0 .. budget, NEW sig \in Pieces,
         NEW h, Good(h, budget - n), h.mode = s, TxEnd(s, h, sig, n)
  PROVE  StationIInv'
<1> USE DEF Sides
<1>1. m'[s] = h /\ \A t \in Sides : t # s => m'[t] = m[t]
  BY DEF TxEnd, StationIInv, CallInv
<1>2. budget \in 0 .. Sym /\ budget' = budget - n /\ budget' \in 0 .. Sym
  BY SendingGood, Times DEF TxEnd
<1>3. /\ turn' = s /\ pc' \in {"tx", "end"} /\ (pc' = "end" => budget' = 0)
      /\ UNCHANGED << dp, deferred, overrun, last, retrains, turn >>
      /\ DOMAIN m' = Sides /\ DOMAIN line' = Sides
  BY DEF TxEnd, StationIInv, CallInv
<1>4. \A t \in Sides : line'[t] \in Seq(Pieces) /\ line'[t] # << >>
  <2> DEFINE old == IF budget = Sym THEN << >> ELSE line[s]
             new == IF n = 0 THEN line[s]
                    ELSE IF old # << >> /\ old[Len(old)] = sig THEN old
                    ELSE Append(old, sig)
  <2>1. \A t \in Sides : line[t] \in Seq(Pieces) /\ line[t] # << >>
    BY DEF StationIInv, SideInv
  <2>2. old \in Seq(Pieces)
    BY <2>1
  <2>3. Append(old, sig) \in Seq(Pieces) /\ Append(old, sig) # << >>
    <3> HIDE DEF old
    <3> QED
      BY <2>2, AppendProperties, EmptySeq
  <2>4. new \in Seq(Pieces) /\ new # << >>
    <3> HIDE DEF old
    <3> QED
      BY <2>1, <2>2, <2>3
  <2>5. line' = [line EXCEPT ![s] = new]
    BY DEF TxEnd
  <2> HIDE DEF new
  <2> QED
    BY <2>1, <2>4, <2>5 DEF StationIInv, CallInv
<1>5. CallInv'
  <2>1. pc' = "tx" => m'[turn'].mode = turn'
    BY <1>1, <1>3
  <2> QED
    BY <1>2, <1>3, <2>1 DEF StationIInv, CallInv
<1>6. SideInv(s)'
  <2>1. Owed(s)' = budget - n
    BY <1>2, <1>3 DEF Owed
  <2>2. Ctx(h) /\ last[s] \in Kinds
    BY DEF Good, StationIInv, SideInv
  <2> QED
    BY <1>1, <1>3, <1>4, <2>1, <2>2 DEF SideInv
<1>7. ASSUME NEW t \in Sides, t # s
      PROVE  SideInv(t)'
  BY <1>1, <1>3, <1>4, <1>7 DEF StationIInv, SideInv, Owed
<1> QED
  BY <1>5, <1>6, <1>7 DEF StationIInv

\* TxHdxTone and TxHdxNull: neither is used where a wait is being counted.
LEMMA WholeBlockKeeps ==
  ASSUME StationIInv, NEW s \in Sides, turn = s, pc = "tx", ~overrun[s],
         m[s].tx \in {"Tone", "Null"}, NEW sig \in Pieces, WholeBlock(s, sig)
  PROVE  StationIInv'
<1> DEFINE h == [m[s] EXCEPT !.left = @ - m[s].charge]
<1>0. Good(m[s], budget) /\ m[s].mode = s /\ budget \in 0 .. Sym
  BY SendingGood
<1>1. Ctx(h) /\ h.mode = s
  BY <1>0 DEF Good, Ctx, Fields, Rated, Counted, Worded
<1>2. Placed(h)
  BY <1>0 DEF Good, Ctx, Fields, Placed
<1>3. Rested(h) /\ Dwelt(h, 0)
  BY <1>0 DEF Good, Ctx, Fields, Placed, Rested, Counting, Dwelt
<1>4. Unsent(h)
  BY <1>0, Times DEF Good, Ctx, Fields, Counted, Worded, Unsent
<1> HIDE DEF h
<1>5. Good(Stepped(h), 0) /\ Stepped(h).mode = s
  BY <1>1, <1>2, <1>3, <1>4, Times, SteppedGood
<1>6. TxEnd(s, Stepped(h), sig, budget) /\ budget \in 0 .. budget /\ budget - budget = 0
  BY <1>0, Times DEF WholeBlock, h
<1> QED
  BY <1>5, <1>6, TxEndKeeps

\* The others charge the symbols they were offered: a routine that does not
\* step has used up the block.
LEMMA SendSymbolsKeeps ==
  ASSUME StationIInv, NEW s \in Sides, turn = s, pc = "tx", ~overrun[s],
         NEW h, Ctx(h), Placed(h), Dwelt(h, budget), h.mode = s,
         (h.gen.kind = "E" /\ h.state \in {"T", "Z"} /\ h.left > budget) =>
           h.esent + h.left - budget <= Scaled(8),
         NEW n \in 0 .. budget, h.left > budget => n = budget,
         NEW sig \in Pieces, SendSymbols(s, h, n, sig)
  PROVE  StationIInv'
<1> DEFINE k == [h EXCEPT !.left = @ - budget]
<1>0. budget \in 0 .. Sym /\ budget - n \in 0 .. Sym
  BY SendingGood, Times
<1>1. Ctx(k) /\ k.mode = s /\ k.left = h.left - budget /\ h.left \in Int
  BY <1>0, Times DEF Ctx, Fields, Rated, Counted, Worded
<1>2. Placed(k)
  BY DEF Ctx, Fields, Placed
<1>3. Dwelt(k, 0)
  BY <1>0, <1>1, Times DEF Ctx, Fields, Counted, Dwelt
<1>4. ASSUME k.left > 0 PROVE Rested(k) /\ Unsent(k) /\ budget - n = 0
  <2>1. budget - n = 0
    BY <1>0, <1>1, <1>4, Times
  <2>2. Rested(k)
    <3> HIDE DEF k
    <3> QED
      BY <1>1, <1>4 DEF Ctx, Counted, Rested
  <2>3. Unsent(k)
    BY <1>0, <1>1, <1>4, Times DEF Ctx, Fields, Worded, Unsent
  <2> QED
    BY <2>1, <2>2, <2>3
<1> HIDE DEF k
<1>5. Good(Stepped(k), budget - n) /\ Stepped(k).mode = s
  BY <1>0, <1>1, <1>2, <1>3, <1>4, SteppedGood
<1>6. TxEnd(s, Stepped(k), sig, n)
  BY DEF SendSymbols, k
<1> QED
  BY <1>5, <1>6, TxEndKeeps

\* A routine that sends what the countdown says, and what its station is when
\* it has counted what it sends of the words R and E: no more of E than there
\* is of it.
LEMMA CountingKeeps ==
  ASSUME StationIInv, NEW s \in Sides, turn = s, pc = "tx", ~overrun[s],
         m[s].tx \in Counting, Count(s) <= budget, NEW sig \in Pieces,
         \/ SendSymbols(s, m[s], Count(s), sig)
         \/ /\ m[s].tx = "ScrSequence"
            /\ SendSymbols(s, Sent(m[s], Count(s)), Count(s), sig)
  PROVE  StationIInv'
<1>0. Good(m[s], budget) /\ m[s].mode = s /\ budget \in 0 .. Sym
  BY SendingGood
<1>1. m[s].left \in Int /\ budget \in Nat /\ Count(s) \in 0 .. budget
  BY <1>0, CountKnown, Times DEF Good, Ctx, Counted
<1>2. m[s].left > budget => Count(s) = budget
  BY CountKnown
<1>3. CASE SendSymbols(s, m[s], Count(s), sig)
  <2>1. (m[s].gen.kind = "E" /\ m[s].state \in {"T", "Z"}) =>
          m[s].esent + m[s].left - budget <= Scaled(8)
    BY <1>0, <1>1, Times DEF Good, Ctx, Worded, Unsent
  <2> QED
    BY <1>0, <1>1, <1>2, <1>3, <2>1, SendSymbolsKeeps DEF Good
<1>4. CASE /\ m[s].tx = "ScrSequence"
           /\ SendSymbols(s, Sent(m[s], Count(s)), Count(s), sig)
  <2> DEFINE n == Count(s)
             h == Sent(m[s], n)
  <2>0. n \in 0 .. budget
    BY <1>1
  <2>1. ASSUME m[s].gen.kind = "E"
        PROVE  /\ m[s].state \in {"T", "Z"} /\ m[s].left >= 0
               /\ n <= m[s].left /\ m[s].esent + m[s].left <= Scaled(8)
    <3>1. m[s].state \in {"T", "Z"}
      BY <1>0, <1>4, <2>1 DEF Good, Placed
    <3>2. m[s].left >= 0
      BY <1>0, <1>4, <3>1 DEF Good, Rested, Counting
    <3>3. n <= m[s].left
      BY <1>1, <1>2, <3>2, CountKnown
    <3> QED
      BY <1>0, <2>1, <3>1, <3>2, <3>3 DEF Good, Unsent
  <2>2. (m[s].rmod + n) % Scaled(8) \in 0 .. Scaled(8) - 1
    BY <1>0, <2>0, <1>1, Times DEF Good, Ctx, Worded
  <2>3. m[s].gen.kind = "E" => m[s].esent + n \in 0 .. Scaled(8)
    BY <1>0, <1>1, <2>0, <2>1, Times DEF Good, Ctx, Worded
  <2> HIDE DEF n
  <2>4. Ctx(h) /\ h.mode = s /\ h.left = m[s].left
    BY <1>0, <2>2, <2>3 DEF Sent, Good, Ctx, Fields, Rated, Counted, Worded
  <2>5. Placed(h)
    BY <1>0 DEF Sent, Good, Ctx, Fields, Placed
  <2>6. Dwelt(h, budget)
    BY <1>0 DEF Sent, Good, Ctx, Fields, Dwelt
  <2>7. /\ h.gen = m[s].gen /\ h.state = m[s].state
        /\ h.gen.kind = "E" => h.esent = m[s].esent + n
    BY <1>0 DEF Sent, Good, Ctx, Fields
  <2>8. (h.gen.kind = "E" /\ h.state \in {"T", "Z"} /\ h.left > budget) =>
          h.esent + h.left - budget <= Scaled(8)
    <3>1. m[s].esent \in Nat /\ Scaled(8) \in Nat
      BY <1>0, Times DEF Good, Ctx, Worded
    <3>2. h.left > budget => n = budget
      BY <1>2, <2>4 DEF n
    <3> HIDE DEF h
    <3> QED
      BY <1>1, <2>1, <2>4, <2>7, <3>1, <3>2
  <2>9. SendSymbols(s, h, n, sig) /\ (h.left > budget => n = budget)
    BY <1>2, <1>4, <2>4 DEF n
  <2> HIDE DEF h
  <2> QED
    BY <2>0, <2>4, <2>5, <2>6, <2>8, <2>9, SendSymbolsKeeps
<1> QED
  BY <1>3, <1>4

\* What is sent is a piece of signal.
LEMMA SentPieces ==
  ASSUME StationIInv, NEW s \in Sides
  PROVE  /\ m[s].gen \in Pieces
         /\ \A n : Audible(m[s], n) \in Pieces
         /\ Gen("silence") \in Pieces /\ Gen("ANS") \in Pieces
         /\ Gen("data") \in Pieces
<1>1. m[s].gen \in Pieces
  BY DEF StationIInv, SideInv, Ctx, Worded
<1>2. /\ Gen("silence") \in Pieces /\ Gen("ANS") \in Pieces
      /\ Gen("data") \in Pieces
  BY DEF Gen, Pieces, Kinds
<1>3. ASSUME NEW n PROVE Audible(m[s], n) \in Pieces
  <2>1. Audible(m[s], n) \in {Gen("data"), m[s].gen}
    BY DEF Audible
  <2> QED
    BY <2>1, <1>1, <1>2
<1> QED
  BY <1>1, <1>2, <1>3

\* A routine asked for more symbols than the block has: its countdown was
\* negative, so it is in one of the two states that are left one.
LEMMA OverrunKeeps ==
  ASSUME StationIInv, NEW s \in Sides, TxHdxOverrun(s)
  PROVE  StationIInv'
<1> USE DEF Sides
<1>0. turn = s /\ pc = "tx" /\ m[s].tx \in Counting /\ Count(s) > budget
  BY DEF TxHdxOverrun, Counting
<1>1. Good(m[s], budget) /\ m[s].mode = s /\ budget \in 0 .. Sym
  BY <1>0, SendingGood
<1>2. m[s].left \in Int /\ budget \in Nat
  BY <1>1, Times DEF Good, Ctx, Counted
<1>3. m[s].left < 0
  BY <1>0, <1>2, CountKnown
<1>4. m[s].state = IF s = "ans" THEN "C" ELSE "P"
  BY <1>0, <1>1, <1>2, <1>3 DEF Good, Rested
<1>5. /\ UNCHANGED << m, dp, deferred, line, last, turn, retrains >>
      /\ pc' = "end" /\ budget' = 0 /\ overrun' \in [Sides -> BOOLEAN]
      /\ \A t \in Sides : t # s => overrun'[t] = overrun[t]
  BY DEF TxHdxOverrun, StationIInv, CallInv
<1>6. CallInv'
  BY <1>5, Times DEF StationIInv, CallInv
<1>7. SideInv(s)'
  <2>1. Dwelt(m[s], 0)
    BY <1>1, <1>2, Times DEF Good, Ctx, Counted, Dwelt
  <2>2. Good(m[s], 0)
    BY <1>1, <2>1 DEF Good
  <2>3. Owed(s)' = 0
    BY <1>5 DEF Owed
  <2> QED
    BY <1>1, <1>4, <1>5, <2>2, <2>3 DEF StationIInv, SideInv
<1>8. ASSUME NEW t \in Sides, t # s
      PROVE  SideInv(t)'
  BY <1>0, <1>5, <1>8 DEF StationIInv, SideInv, Owed
<1> QED
  BY <1>6, <1>7, <1>8 DEF StationIInv

\* Every transmit routine.
LEMMA TransmitKeeps ==
  ASSUME StationIInv, NEW s \in Sides, Transmit(s)
  PROVE  StationIInv'
<1>1. CASE TxHdxTone(s)
  BY <1>1, WholeBlockKeeps, SentPieces DEF TxHdxTone, Sending
<1>2. CASE TxHdxNull(s)
  BY <1>2, WholeBlockKeeps, SentPieces DEF TxHdxNull, Sending
<1>3. CASE TxHdxCarrierState(s)
  BY <1>3, CountingKeeps, SentPieces DEF TxHdxCarrierState, Sending, Counting
<1>4. CASE TxHdxScrSequence(s)
  BY <1>4, CountingKeeps, SentPieces DEF TxHdxScrSequence, Sending, Counting
<1>5. CASE TxHdxTRN(s)
  BY <1>5, CountingKeeps, SentPieces DEF TxHdxTRN, Sending, Counting
<1>u. ASSUME turn = s, pc = "tx"
      PROVE  /\ Ctx(m[s]) /\ Placed(m[s]) /\ Dwelt(m[s], budget) /\ m[s].mode = s
             /\ (m[s].gen.kind = "E" /\ m[s].state \in {"T", "Z"}) =>
                  m[s].esent + m[s].left - budget <= Scaled(8)
             /\ budget \in 0 .. budget /\ m[s].left \in Int /\ budget \in Nat
  <2>1. Good(m[s], budget) /\ m[s].mode = s /\ budget \in 0 .. Sym
    BY <1>u, SendingGood
  <2>2. m[s].left \in Int /\ budget \in Nat /\ m[s].esent \in Nat
    BY <2>1, Times DEF Good, Ctx, Counted, Worded
  <2>3. (m[s].gen.kind = "E" /\ m[s].state \in {"T", "Z"}) =>
          m[s].esent + m[s].left - budget <= Scaled(8)
    BY <2>1, <2>2, Times DEF Good, Unsent
  <2> QED
    BY <2>1, <2>2, <2>3 DEF Good
<1>6. CASE TxHdxNoCarrier(s)
  <2> DEFINE n == IF m[s].left <= 0 THEN 0 ELSE Count(s)
  <2>1. turn = s /\ pc = "tx" /\ ~overrun[s]
    BY <1>6 DEF TxHdxNoCarrier, Sending
  <2>2. n \in 0 .. budget /\ (m[s].left > budget => n = budget)
    BY <2>1, <1>u, CountKnown
  <2>3. SendSymbols(s, m[s], n, Gen("silence"))
    BY <1>6 DEF TxHdxNoCarrier
  <2> HIDE DEF n
  <2> QED
    BY <2>1, <2>2, <2>3, <1>u, SendSymbolsKeeps, SentPieces
<1>7. CASE TxHdxFinishFrame(s)
  <2>1. turn = s /\ pc = "tx" /\ ~overrun[s]
    BY <1>7 DEF TxHdxFinishFrame, Sending
  <2>2. SendSymbols(s, m[s], budget, Gen("silence"))
    BY <1>7 DEF TxHdxFinishFrame
  <2> QED
    BY <2>1, <2>2, <1>u, SendSymbolsKeeps, SentPieces
<1>8. CASE TxHdxOverrun(s)
  BY <1>8, OverrunKeeps
<1> QED
  BY <1>1, <1>2, <1>3, <1>4, <1>5, <1>6, <1>7, <1>8 DEF Transmit

-----------------------------------------------------------------------------

\* A retrain starts from state B, past its wait, with a rate the station has.
LEMMA RetrainedGood ==
  ASSUME NEW s \in Sides, NEW h, Ctx(h), NEW opt, NEW fallback
  PROVE  LET k == Retrained(h, s, opt, fallback)
         IN Good(k, 0) /\ k.mode = s
<1> USE DEF Sides
<1> DEFINE own == IF fallback THEN Fallback(h.own, h.rxr) ELSE h.own
           cfg == [own |-> own, named |-> IF own = h.own THEN h.named ELSE own]
           c == [Created(s, cfg, opt) EXCEPT
                   !.state = "B",
                   !.timer = IF s = "org" THEN Scaled(2400) ELSE 0]
           k == NextState(c)
           r == [k EXCEPT !.carrier = TRUE, !.status = 11]
<1>0. Scaled(2400) \in Nat /\ Scaled(7920) \in Nat
  BY Times DEF Durations
<1>1. own \in Rates
  BY DEF Fallback, Ctx, Rated, Rates
<1>2. cfg.own \in Rates /\ cfg.named \in AnyRate
  <2>1. own \in AnyRate /\ h.named \in AnyRate
    BY <1>1 DEF Rates, AnyRate, NONE, Ctx, Rated
  <2> HIDE DEF own
  <2> QED
    BY <1>1, <2>1
<1> HIDE DEF cfg
<1>3. Ctx(c) /\ c.mode = s
  <2>1. DOMAIN c = Fields /\ c.mode = s
    BY DEF Created, Fields
  <2>2. Rated(c)
    BY <1>2 DEF Created, Rated, Rates
  <2>3. Counted(c)
    BY <1>0, Times DEF Created, Counted
  <2>4. Worded(c)
    BY Times DEF Created, Worded, Pieces, Kinds, Gen
  <2> QED
    BY <2>1, <2>2, <2>3, <2>4 DEF Ctx
<1>4. Placed(c)
  BY DEF Created, Placed, OrgStates, AnsStates, Gen
<1>5. Rested(c) /\ Dwelt(c, 0) /\ Unsent(c)
  BY DEF Created, Rested, Counting, Dwelt, Unsent, Gen
<1>6. 0 \in 0 .. Sym
  BY Times
<1> HIDE DEF c
<1>7. Good(k, 0) /\ k.mode = s
  BY <1>3, <1>4, <1>5, <1>6, DetectedGood DEF Good
<1> HIDE DEF k
<1>8. Ctx(r) /\ r.mode = s
  BY <1>7 DEF Good, Ctx, Fields, Rated, Counted, Worded
<1>9. Placed(r)
  BY <1>7 DEF Good, Ctx, Fields, Placed
<1>10. Rested(r) /\ Dwelt(r, 0) /\ Unsent(r)
  BY <1>7 DEF Good, Ctx, Fields, Rested, Dwelt, Unsent
<1>11. Retrained(h, s, opt, fallback) = r
  BY Zenon DEF Retrained, r, k, c, cfg, own
<1> QED
  BY <1>8, <1>9, <1>10, <1>11 DEF Good

\* The end of a block of data, with a station in data mode or retraining.
LEMMA DataEndKeeps ==
  ASSUME StationIInv, NEW s \in Sides, DataBlock(s), NEW h, Ctx(h),
         h.mode = "data" \/ (h.mode = s /\ Good(h, 0)),
         m' = [m EXCEPT ![s] = h], DataEnd(s),
         deferred' \in [Sides -> BOOLEAN], retrains' \in 0 .. MaxRetrains
  PROVE  StationIInv'
<1> USE DEF Sides
<1>1. m'[s] = h /\ \A t \in Sides : t # s => m'[t] = m[t]
  BY DEF StationIInv, CallInv
<1>2. turn = s /\ pc = "rx" /\ ~overrun[s] /\ pc' = "end"
  BY DEF DataBlock, Alive, DataEnd
<1>3. UNCHANGED << dp, overrun, turn, budget >>
  BY DEF DataEnd
<1>4. \A t \in Sides : last'[t] \in Kinds
  BY HeardPieces DEF DataEnd, StationIInv, CallInv, SideInv
<1>5. \A t \in Sides : line'[t] \in Seq(Pieces) /\ line'[t] # << >>
  <2>1. << Gen("data") >> \in Seq(Pieces) /\ << Gen("data") >> # << >>
    BY SentPieces
  <2> QED
    BY <2>1 DEF DataEnd, StationIInv, CallInv, SideInv
<1>6. CallInv'
  BY <1>2, <1>3 DEF DataEnd, StationIInv, CallInv
<1>7. SideInv(s)'
  BY <1>1, <1>2, <1>3, <1>4, <1>5 DEF SideInv, Owed
<1>8. ASSUME NEW t \in Sides, t # s
      PROVE  SideInv(t)'
  BY <1>1, <1>2, <1>3, <1>4, <1>5, <1>8 DEF StationIInv, SideInv, Owed
<1> QED
  BY <1>6, <1>7, <1>8 DEF StationIInv

\* v32_data: the flags and the status it posts do not matter to the machine.
LEMMA DataKeeps ==
  ASSUME StationIInv, NEW s \in Sides, v32_data(s)
  PROVE  StationIInv'
<1> DEFINE h(drop) == IF drop THEN Retrained(m[s], s, TRUE, TRUE) ELSE m[s]
           carrier == KindsHeard(s) # {"silence"}
           loss(drop) == IF carrier THEN 0
                         ELSE IF h(drop).loss > LossLimit THEN h(drop).loss
                         ELSE h(drop).loss + 1
           lost(drop) == Lost(loss(drop))
           k(drop, req) ==
             [h(drop) EXCEPT !.carrier = carrier, !.data = @ /\ ~req,
                             !.loss = loss(drop),
                             !.status = IF lost(drop) THEN 12
                                        ELSE IF req THEN 9 ELSE 0]
<1>1. PICK drop \in BOOLEAN, req \in Possible(RetrainHeard(s)) :
        /\ drop => retrains < MaxRetrains
        /\ retrains' = IF drop THEN retrains + 1 ELSE retrains
        /\ ~(drop /\ req)
        /\ m' = [m EXCEPT ![s] = k(drop, req)]
        /\ deferred' = [deferred EXCEPT ![s] = req]
        /\ DataEnd(s)
  BY Zenon DEF v32_data
<1>2. DataBlock(s) /\ m[s].mode = "data" /\ Ctx(m[s])
  BY DEF v32_data, DataBlock, StationIInv, SideInv
<1>3. req \in BOOLEAN
  BY DEF Possible
<1>4. retrains' \in 0 .. MaxRetrains
  BY <1>1, CallAssumption DEF StationIInv, CallInv
<1>5. deferred' \in [Sides -> BOOLEAN]
  BY <1>1, <1>3 DEF StationIInv, CallInv
<1>6. /\ Ctx(h(drop))
      /\ h(drop).mode = "data" \/ (h(drop).mode = s /\ Good(h(drop), 0))
  <2> DEFINE j == Retrained(m[s], s, TRUE, TRUE)
  <2>1. Good(j, 0) /\ j.mode = s
    BY <1>2, RetrainedGood
  <2> HIDE DEF j
  <2>2. Ctx(j)
    BY <2>1 DEF Good
  <2>3. h(drop) = IF drop THEN j ELSE m[s]
    BY DEF j
  <2> HIDE DEF h
  <2> QED
    BY <1>2, <2>1, <2>2, <2>3
<1> DEFINE g == h(drop)
           f == loss(drop)
           st == IF lost(drop) THEN 12 ELSE IF req THEN 9 ELSE 0
           d == g.data /\ ~req
           r == [g EXCEPT !.carrier = carrier, !.data = d, !.loss = f, !.status = st]
<1>7. k(drop, req) = r
  OBVIOUS
<1>8. st \in 0 .. 28
  OBVIOUS
<1>9. d \in BOOLEAN /\ (d = TRUE => g.data = TRUE)
  BY <1>3, <1>6 DEF Ctx, Counted
<1> HIDE DEF h, loss, lost, carrier, st, f, d, k, g
<1>10. Ctx(r) /\ r.mode = g.mode
  BY <1>6, <1>8, <1>9 DEF g, Ctx, Fields, Rated, Counted, Worded
<1>11. ASSUME Good(g, 0) PROVE Good(r, 0)
  <2>1. Placed(r)
    BY <1>9, <1>11 DEF Good, Ctx, Fields, Placed
  <2>2. Rested(r) /\ Dwelt(r, 0) /\ Unsent(r)
    BY <1>11 DEF Good, Ctx, Fields, Rested, Dwelt, Unsent
  <2> QED
    BY <1>10, <2>1, <2>2 DEF Good
<1>12. r.mode = "data" \/ (r.mode = s /\ Good(r, 0))
  BY <1>6, <1>10, <1>11 DEF g
<1> HIDE DEF r
<1> QED
  BY <1>1, <1>2, <1>4, <1>5, <1>7, <1>10, <1>12, DataEndKeeps

\* The deferred control of a retrain request.
LEMMA ControlKeeps ==
  ASSUME StationIInv, NEW s \in Sides, v32_data_control(s)
  PROVE  StationIInv'
<1>1. PICK opt \in BOOLEAN : m' = [m EXCEPT ![s] = Retrained(m[s], s, opt, FALSE)]
  BY DEF v32_data_control
<1>2. DataBlock(s) /\ DataEnd(s) /\ Ctx(m[s])
  BY DEF v32_data_control, StationIInv, SideInv
<1>3. /\ Good(Retrained(m[s], s, opt, FALSE), 0)
      /\ Retrained(m[s], s, opt, FALSE).mode = s
  BY <1>2, RetrainedGood
<1>4. deferred' \in [Sides -> BOOLEAN] /\ retrains' \in 0 .. MaxRetrains
  BY DEF v32_data_control, StationIInv, CallInv
<1> QED
  BY <1>1, <1>2, <1>3, <1>4, DataEndKeeps DEF Good

\* The end of a block: a station that enters data mode has not overrun.
LEMMA ProcessKeeps ==
  ASSUME StationIInv, NEW s \in Sides, v32_process(s)
  PROVE  StationIInv'
<1> USE DEF Sides
<1> DEFINE d == [m[s] EXCEPT !.mode = "data", !.state = "DONT_CARE"]
           h == IF m[s].data THEN d ELSE m[s]
<1>1. m' = [m EXCEPT ![s] = h]
  BY DEF v32_process
<1>2. Ctx(m[s]) /\ m[s].data \in BOOLEAN
  BY DEF StationIInv, SideInv, Ctx, Counted
<1>3. Ctx(d) /\ d.mode = "data"
  BY <1>2 DEF Ctx, Fields, Rated, Counted, Worded
<1>4. /\ turn = s /\ pc = "end" /\ turn' = Peer(s) /\ pc' = "rx"
      /\ UNCHANGED << deferred, overrun, line, last, budget, retrains >>
  BY DEF v32_process
<1>5. ASSUME overrun[s] PROVE h = m[s]
  <2>1. m[s].mode = s /\ m[s].state \in {"C", "P"} /\ Good(m[s], 0)
    BY <1>4, <1>5 DEF StationIInv, SideInv, Owed
  <2>2. ~m[s].data
    BY <1>2, <2>1 DEF Good, Placed
  <2> QED
    BY <2>2
<1>6. /\ Ctx(h) /\ h.mode \in {s, "data"} /\ (h.mode = s => Good(h, 0))
      /\ overrun[s] => h.mode = s /\ h.state = IF s = "ans" THEN "C" ELSE "P"
  <2> HIDE DEF d
  <2>1. CASE m[s].data
    BY <1>2, <1>3, <1>4, <1>5, <2>1 DEF StationIInv, SideInv, Owed
  <2>2. CASE ~m[s].data
    BY <1>2, <1>4, <2>2 DEF StationIInv, SideInv, Owed
  <2> QED
    BY <2>1, <2>2
<1> HIDE DEF h
<1>7. m'[s] = h /\ \A t \in Sides : t # s => m'[t] = m[t]
  BY <1>1 DEF StationIInv, CallInv
<1>8. CallInv'
  <2>1. dp' \in [Sides -> {"OK", "CONNECT", "ERROR"}]
    BY DEF v32_process, DpStatus, StationIInv, CallInv
  <2>2. DOMAIN m' = Sides /\ turn' \in Sides
    BY <1>1, <1>4 DEF Peer, StationIInv, CallInv
  <2> QED
    BY <1>4, <2>1, <2>2 DEF StationIInv, CallInv
<1>9. SideInv(s)'
  BY <1>4, <1>6, <1>7 DEF StationIInv, SideInv, Owed
<1>10. ASSUME NEW t \in Sides, t # s
       PROVE  SideInv(t)'
  BY <1>4, <1>7, <1>10 DEF StationIInv, SideInv, Owed
<1> QED
  BY <1>8, <1>9, <1>10 DEF StationIInv

\* A station that has failed only sends silence.
LEMMA ErrorKeeps ==
  ASSUME StationIInv, NEW s \in Sides, v32_process_error(s)
  PROVE  StationIInv'
<1> USE DEF Sides
<1>1. << Gen("silence") >> \in Seq(Pieces) /\ << Gen("silence") >> # << >>
  BY SentPieces
<1>2. \A t \in Sides : line'[t] \in Seq(Pieces) /\ line'[t] # << >>
  BY <1>1 DEF v32_process_error, StationIInv, CallInv, SideInv
<1>3. /\ turn = s /\ pc = "rx" /\ turn' = Peer(s)
      /\ UNCHANGED << m, dp, deferred, overrun, last, pc, budget, retrains >>
  BY DEF v32_process_error
<1>4. CallInv'
  BY <1>3 DEF v32_process_error, Peer, StationIInv, CallInv
<1>5. ASSUME NEW t \in Sides PROVE SideInv(t)'
  BY <1>2, <1>3 DEF StationIInv, SideInv, Owed
<1> QED
  BY <1>4, <1>5 DEF StationIInv

-----------------------------------------------------------------------------

\* Two stations as v32_create leaves them.
LEMMA InitKeeps ==
  ASSUME Init
  PROVE  StationIInv
<1> USE DEF Sides
<1>0. Scaled(7920) \in Nat \ {0}
  BY Times DEF Durations
<1>1. PICK cfg \in Calls : m = [s \in Sides |-> Created(s, cfg[s], TRUE)]
  BY DEF Init
<1>2. ASSUME NEW s \in Sides PROVE SideInv(s)
  <2> DEFINE c == Created(s, cfg[s], TRUE)
  <2>1. m[s] = c /\ cfg[s].own \in Rates /\ cfg[s].named \in AnyRate
    BY <1>1, CallAssumption
  <2>2. Ctx(c) /\ c.mode = s
    <3>1. DOMAIN c = Fields /\ c.mode = s
      BY DEF Created, Fields
    <3>2. Rated(c)
      BY <2>1 DEF Created, Rated, Rates
    <3>3. Counted(c)
      BY <1>0, Times DEF Created, Counted
    <3>4. Worded(c)
      BY Times DEF Created, Worded, Pieces, Kinds, Gen
    <3> QED
      BY <3>1, <3>2, <3>3, <3>4 DEF Ctx
  <2>3. Placed(c)
    BY DEF Created, Placed, OrgStates, AnsStates, Gen
  <2>4. Rested(c) /\ Dwelt(c, 0) /\ Unsent(c)
    BY DEF Created, Rested, Counting, Dwelt, Unsent, Gen
  <2>5. Owed(s) = 0
    BY DEF Init, Owed
  <2>6. /\ line[s] \in Seq(Pieces) /\ line[s] # << >> /\ last[s] \in Kinds
        /\ ~overrun[s]
    <3>1. line[s] = << Gen("silence") >> /\ last[s] = "silence" /\ overrun[s] = FALSE
      BY DEF Init
    <3>2. Gen("silence") \in Pieces /\ "silence" \in Kinds
      BY DEF Gen, Pieces, Kinds
    <3> QED
      BY <3>1, <3>2
  <2> HIDE DEF c
  <2> QED
    BY <2>1, <2>2, <2>3, <2>4, <2>5, <2>6 DEF SideInv, Good
<1>3. CallInv
  BY <1>1, Times, CallAssumption DEF Init, CallInv
<1> QED
  BY <1>2, <1>3 DEF StationIInv

\* Every step of the two stations.
LEMMA NextKeeps ==
  ASSUME StationIInv, [Next]_vars
  PROVE  StationIInv'
<1>1. CASE UNCHANGED vars
  BY <1>1 DEF vars, StationIInv, CallInv, SideInv, Owed
<1>2. ASSUME NEW s \in Sides, Block(s)
      PROVE  StationIInv'
  BY <1>2, ReceiveKeeps, TransmitKeeps, DataKeeps, ControlKeeps, ProcessKeeps,
     ErrorKeeps DEF Block
<1> QED
  BY <1>1, <1>2 DEF Next

\* What the invariant says of the properties that the runs check.
LEMMA StationIInvSafe ==
  ASSUME StationIInv
  PROVE  StationInv
<1>1. TypeOK
  <2>1. ASSUME NEW s \in Sides
        PROVE  /\ m[s].mode \in {s, "data"} /\ m[s].timer \in Nat
               /\ m[s].left \in Int /\ m[s].status \in 0 .. 28
               /\ m[s].regs \in [1 .. 4 -> SUBSET Bits]
               /\ m[s].txr \in Rates /\ m[s].rxr \in Rates
               /\ m[s].gen.kind \in Kinds /\ m[s].gen.seq \subseteq Bits
               /\ m[s].match \subseteq Bits
               /\ m[s].rmod \in 0 .. Scaled(8) - 1
               /\ m[s].esent \in 0 .. Scaled(8)
               /\ m[s].own \in Rates /\ m[s].ac \in 0 .. 3
               /\ line[s] # << >> /\ last[s] \in Kinds
    BY DEF StationIInv, SideInv, Ctx, Rated, Counted, Worded, Pieces
  <2> QED
    BY <2>1 DEF TypeOK, StationIInv, CallInv
<1>2. OverrunKnown
  BY DEF OverrunKnown, StationIInv, SideInv
<1> QED
  BY <1>1, <1>2 DEF StationInv

\* For every duration, delay, limit and pair of rates, whatever the detectors
\* miss: a station keeps the types of its state, sends no more of E than there
\* is of it, and only the answering station's C and the calling station's P
\* can ask for more symbols than a block has (V32TxHdxModem).
THEOREM StationSafe == Spec => []StationInv
<1>1. Init => StationIInv
  BY InitKeeps
<1>2. StationIInv /\ [Next]_vars => StationIInv'
  BY NextKeeps
<1>3. StationIInv => StationInv
  BY StationIInvSafe
<1> QED
  BY <1>1, <1>2, <1>3, PTL DEF Spec

-----------------------------------------------------------------------------
(***************************************************************************)
(* The rates of a connection.                                              *)
(***************************************************************************)

\* What a calling station that is not in data mode sends, looks for and has
\* settled: the rate of R3 (register 3), then that of the E it hears (4).
OrgCoded(h) ==
  /\ h.state \in {"T", "U", "V"} => h.tx = "ScrSequence"
  /\ h.state \in {"T", "U"} => h.det = "E"
  /\ h.state = "T" => h.gen = Word("E", CodeESeq(h.own, h.regs[3]))
  /\ h.state = "R" => h.det = "R"
  /\ h.state = "V" => h.rx = "Data"
  /\ h.state \in {"U", "V"} /\ DecodeReg(h, 3) # NONE =>
       h.txr = Reported(DecodeReg(h, 3))
  /\ h.state = "V" /\ DecodeReg(h, 3) # NONE /\ DecodeReg(h, 4) # NONE =>
       DecodeReg(h, 4) = DecodeReg(h, 3) /\ h.rxr = Reported(DecodeReg(h, 4))

\* The answering station: the rate of the E it hears, and its own rates in
\* the words it sends before.
AnsCoded(h) ==
  /\ h.state \in {"X2", "Y", "Z", "END"} => h.tx = "ScrSequence"
  /\ h.gen.kind = "E" => h.state \in {"Z", "ERROR"}
  /\ h.state = "Y" => h.left <= Scaled(8)
  /\ h.state = "Z" => h.gen = Word("E", CodeESeq(h.own, h.regs[4]))
  /\ h.state \in {"Z", "END"} => h.rx = "Data"
  /\ h.state = "END" => h.gen.kind = "B1"
  /\ h.gen.kind = "R" => h.gen.seq \subseteq V32_RATE_SEQ[h.own]
  /\ h.state = "X2" => h.det = "E"
  /\ h.state \in {"Z", "END"} /\ DecodeReg(h, 4) # NONE =>
       h.rxr = Reported(DecodeReg(h, 4))
  /\ h.state = "END" /\ DecodeReg(h, 4) # NONE =>
       h.txr = Reported(DecodeReg(h, 4))

Coded(h) == IF h.mode = "org" THEN OrgCoded(h) ELSE AnsCoded(h)

\* A countdown that ends a wait for a word leaves none.
Waiting(h) ==
  IF h.mode = "org" THEN h.state \in {"R", "T", "U"} ELSE h.state = "X2"
Unmatched(h) == Waiting(h) => h.match = {}

\* A station that goes on without a rate, and what it has posted; b symbols
\* of the block are still to be sent.
Unfit(h) ==
  \/ h.state = "ERROR"
  \/ h.mode = "org" /\ h.state \in {"T", "U", "V"} /\ DecodeReg(h, 3) = NONE
  \/ h.mode = "org" /\ h.state = "V" /\ DecodeReg(h, 4) = NONE
  \/ h.mode = "ans" /\ h.state \in {"Z", "END"} /\ DecodeReg(h, 4) = NONE
Failing(h) == h.status \in ErrorCodes /\ h.data = FALSE
Doomed(h, b) == Failing(h) /\ (h.state \in {"V", "END"} => h.left > b)

\* A station in data mode.
Linked(s, h) ==
  /\ DecodeReg(h, 4) # NONE
  /\ h.txr = Reported(DecodeReg(h, 4)) /\ h.rxr = Reported(DecodeReg(h, 4))
  /\ s = "org" => DecodeReg(h, 3) = DecodeReg(h, 4)

InBlock(s) == turn = s /\ pc # "rx"
SideRates(s) ==
  /\ m[s].mode = s => Coded(m[s]) /\ Unmatched(m[s])
  /\ m[s].mode = s /\ Unfit(m[s]) =>
       dp[s] = "ERROR" \/ (InBlock(s) /\ Doomed(m[s], Owed(s)))
  /\ m[s].mode = "data" => Linked(s, m[s])
  /\ InBlock(s) => dp[s] # "ERROR"

\* The calling station has a rate that it is about to send in its E, or has
\* sent; the answering station has one from the E it heard.
Settling(h) ==
  h.mode = "org" /\ h.state \in {"S", "T"} /\ DecodeReg(h, 3) # NONE
Settled(h) ==
  (h.mode = "data" \/ h.state \in {"U", "V"}) /\ DecodeReg(h, 3) # NONE
Final(h) ==
  (h.mode = "data" \/ h.state \in {"Y", "Z", "END"}) /\ DecodeReg(h, 4) # NONE

\* What s has sent in the block that the other is about to hear, or hears.
Fresh(s) ==
  \/ turn = s /\ (pc = "end" \/ (pc = "tx" /\ budget < Sym))
  \/ turn = Peer(s) /\ pc = "rx"
On(s) == { line[s][i] : i \in 1 .. Len(line[s]) }
Carries(s, kind) == \E g \in On(s) : g.kind = kind

\* The rate of R3 is one the answering station has: its E will agree.
Shared == LET r == DecodeReg(m["org"], 3)
          IN common_rate(m["ans"].own, V32_FINAL_RATE_SEQ[r]) = r

\* E of the calling station is heard while it waits for the other's, or is
\* left on the line by a block that has not sent anything yet; E of the
\* answering station while it sends B1.
OrgLine ==
  \A g \in On("org") : g.kind = "E" =>
    \/ /\ m["org"].mode = "org" /\ m["org"].state = "U"
       /\ InBlock("org") /\ budget < Sym => m["org"].left > Owed("org")
       /\ g.seq = CodeESeq(m["org"].own, m["org"].regs[3])
    \/ /\ turn = "org" /\ pc = "tx" /\ budget = Sym
       /\ m["org"].mode = "org" /\ m["org"].state \in {"V", "ERROR"}
AnsLine ==
  \A g \in On("ans") :
    /\ g.kind = "E" =>
         /\ m["ans"].mode = "data" \/ m["ans"].state = "END"
         /\ g.seq = CodeESeq(m["ans"].own, m["ans"].regs[4])
    /\ g.kind = "R" => g.seq \subseteq V32_RATE_SEQ[m["ans"].own]

PairRates ==
  /\ Settling(m["org"]) => ~Final(m["ans"]) /\ Shared
  /\ Settled(m["org"]) /\ Final(m["ans"]) =>
       DecodeReg(m["ans"], 4) = DecodeReg(m["org"], 3)
  /\ Fresh("org") /\ Carries("org", "E") /\ DecodeReg(m["org"], 3) # NONE =>
       ~Final(m["ans"]) /\ Shared
  /\ Fresh("ans") /\ Carries("ans", "R") /\ Final(m["ans"]) =>
       Carries("org", "E")
  /\ Final(m["ans"]) /\ m["ans"].state = "Y" =>
       turn = "ans" /\ pc = "tx" /\ budget = Sym /\ Carries("org", "E")

RatesInv ==
  (\A s \in Sides : SideRates(s)) /\ OrgLine /\ AnsLine /\ PairRates
RatesIInv == StationIInv /\ RatesInv

-----------------------------------------------------------------------------

\* The bits that make a rate.
Core ==
  [r \in Rates |-> CASE r = 0 -> {"4800"} [] r = 1 -> {"9600"}
                     [] r = 2 -> {"9600", "T"} [] r = 3 -> {"7200"}
                     [] r = 4 -> {"12000"} [] r = 5 -> {"14400"}]

\* The words, one by one.
LEMMA RateWords ==
  /\ V32_RATE_SEQ[0] = {"4800"} /\ V32_RATE_SEQ[1] = {"9600"}
  /\ V32_RATE_SEQ[2] = {"9600", "T"} /\ V32_RATE_SEQ[3] = {"7200", "T"}
  /\ V32_RATE_SEQ[4] = {"12000", "T"} /\ V32_RATE_SEQ[5] = Bits
  /\ \A r \in Rates : V32_FINAL_RATE_SEQ[r] = IF r = 5 THEN {"14400", "T"}
                                                      ELSE V32_RATE_SEQ[r]
<1>1. /\ V32_RATE_SEQ[0] = {"4800"} /\ V32_RATE_SEQ[1] = {"9600"}
      /\ V32_RATE_SEQ[2] = {"9600", "T"} /\ V32_RATE_SEQ[3] = {"7200", "T"}
      /\ V32_RATE_SEQ[4] = {"12000", "T"} /\ V32_RATE_SEQ[5] = Bits
  BY DEF V32_RATE_SEQ, AnyRate, NONE
<1>2. DOMAIN V32_RATE_SEQ = AnyRate /\ Rates \subseteq AnyRate /\ 5 \in AnyRate
  BY DEF V32_RATE_SEQ, AnyRate, Rates, NONE
<1>3. \A r \in Rates : V32_FINAL_RATE_SEQ[r] = IF r = 5 THEN {"14400", "T"}
                                                      ELSE V32_RATE_SEQ[r]
  BY <1>2 DEF V32_FINAL_RATE_SEQ
<1> QED
  BY <1>1, <1>3

\* The rate in common is one whose bits both have.
LEMMA CommonRateCore ==
  ASSUME NEW own \in Rates, NEW seq, NEW r, common_rate(own, seq) = r, r # NONE
  PROVE  r \in Rates /\ Core[r] \subseteq seq /\ Core[r] \subseteq V32_RATE_SEQ[own]
<1> DEFINE both(b) == b \in seq /\ b \in V32_RATE_SEQ[own]
<1> HIDE DEF both
<1>1. r = (CASE both("14400") -> 5
       [] ~both("14400") /\ both("12000") -> 4
       [] ~both("14400") /\ ~both("12000") /\ both("9600") ->
            IF both("T") THEN 2 ELSE 1
       [] ~(\E b \in {"14400", "12000", "9600"} : both(b)) /\ both("7200") -> 3
       [] ~(\E b \in Bits \ {"T", "4800"} : both(b)) /\ both("4800") -> 0
       [] OTHER -> NONE)
  BY Zenon DEF common_rate, both
<1>2. \/ r = 5 /\ both("14400")
      \/ r = 4 /\ both("12000")
      \/ r = 2 /\ both("9600") /\ both("T")
      \/ r = 1 /\ both("9600")
      \/ r = 3 /\ both("7200")
      \/ r = 0 /\ both("4800")
  BY <1>1 DEF NONE
<1>3. \A b \in Core[r] : both(b)
  BY <1>2 DEF Core, Rates
<1>4. r \in Rates
  BY <1>2 DEF Rates
<1> QED
  BY <1>3, <1>4 DEF both

\* A rate whose bits a station has is the one it has in common with the word
\* that names that rate alone.
LEMMA FinalCommon ==
  ASSUME NEW own \in Rates, NEW r \in Rates, Core[r] \subseteq V32_RATE_SEQ[own]
  PROVE  common_rate(own, V32_FINAL_RATE_SEQ[r]) = r
<1> DEFINE seq == V32_FINAL_RATE_SEQ[r]
           both(b) == b \in seq /\ b \in V32_RATE_SEQ[own]
<1>1. /\ r = 0 => seq = {"4800"}
      /\ r = 1 => seq = {"9600"}
      /\ r = 2 => seq = {"9600", "T"}
      /\ r = 3 => seq = {"7200", "T"}
      /\ r = 4 => seq = {"12000", "T"}
      /\ r = 5 => seq = {"14400", "T"}
  BY RateWords DEF Rates
<1>2. \A b \in Core[r] : b \in V32_RATE_SEQ[own]
  OBVIOUS
<1>3. /\ r = 0 => both("4800") /\ ~both("7200") /\ ~both("9600")
                  /\ ~both("12000") /\ ~both("14400")
      /\ r = 1 => both("9600") /\ ~both("T") /\ ~both("12000") /\ ~both("14400")
      /\ r = 2 => both("9600") /\ both("T") /\ ~both("12000") /\ ~both("14400")
      /\ r = 3 => both("7200") /\ ~both("9600") /\ ~both("12000")
                  /\ ~both("14400")
      /\ r = 4 => both("12000") /\ ~both("14400")
      /\ r = 5 => both("14400")
  <2> HIDE DEF seq
  <2> QED
    BY <1>1, <1>2 DEF Core, Rates
<1>4. common_rate(own, seq) = (CASE both("14400") -> 5
       [] ~both("14400") /\ both("12000") -> 4
       [] ~both("14400") /\ ~both("12000") /\ both("9600") ->
            IF both("T") THEN 2 ELSE 1
       [] ~(\E b \in {"14400", "12000", "9600"} : both(b)) /\ both("7200") -> 3
       [] ~(\E b \in Bits \ {"T", "4800"} : both(b)) /\ both("4800") -> 0
       [] OTHER -> NONE)
  <2> HIDE DEF seq
  <2> QED
    BY Zenon DEF common_rate, both
<1> HIDE DEF both
<1>5. (CASE both("14400") -> 5
       [] ~both("14400") /\ both("12000") -> 4
       [] ~both("14400") /\ ~both("12000") /\ both("9600") ->
            IF both("T") THEN 2 ELSE 1
       [] ~(\E b \in {"14400", "12000", "9600"} : both(b)) /\ both("7200") -> 3
       [] ~(\E b \in Bits \ {"T", "4800"} : both(b)) /\ both("4800") -> 0
       [] OTHER -> NONE) = r
  BY <1>3 DEF Rates, NONE, Bits
<1> QED
  BY <1>4, <1>5

\* The word a station answers with has only rates of its own.
LEMMA CoreRates ==
  ASSUME NEW own \in Rates, NEW r \in Rates, Core[r] \subseteq V32_RATE_SEQ[own]
  PROVE  /\ V32_RATE_SEQ[r] \subseteq V32_RATE_SEQ[own]
         /\ V32_FINAL_RATE_SEQ[r] \subseteq V32_RATE_SEQ[own]
<1>1. \/ r = own
      \/ r # 5 /\ own = 5
      \/ r = 1 /\ own = 2
  <2>0. ASSUME r = 0 PROVE "4800" \in V32_RATE_SEQ[own]
    BY <2>0 DEF Core, Rates
  <2>1. ASSUME r = 1 PROVE "9600" \in V32_RATE_SEQ[own]
    BY <2>1 DEF Core, Rates
  <2>2. ASSUME r = 2 PROVE "9600" \in V32_RATE_SEQ[own] /\ "T" \in V32_RATE_SEQ[own]
    BY <2>2 DEF Core, Rates
  <2>3. ASSUME r = 3 PROVE "7200" \in V32_RATE_SEQ[own]
    BY <2>3 DEF Core, Rates
  <2>4. ASSUME r = 4 PROVE "12000" \in V32_RATE_SEQ[own]
    BY <2>4 DEF Core, Rates
  <2>5. ASSUME r = 5 PROVE "14400" \in V32_RATE_SEQ[own]
    BY <2>5 DEF Core, Rates
  <2> QED
    BY <2>0, <2>1, <2>2, <2>3, <2>4, <2>5, RateWords DEF Rates, Bits
<1>2. V32_RATE_SEQ[r] \subseteq V32_RATE_SEQ[own]
  BY <1>1, RateWords DEF Rates, Bits
<1>3. V32_FINAL_RATE_SEQ[r] \subseteq V32_RATE_SEQ[r]
  BY RateWords DEF Rates, Bits
<1> QED
  BY <1>2, <1>3

\* The word of a rate it has in common with another is one of a station's own.
LEMMA CodeOwn ==
  ASSUME NEW own \in Rates, NEW seq
  PROVE  /\ CodeRateSeq(own, seq) \subseteq V32_RATE_SEQ[own]
         /\ CodeFinalRateSeq(own, seq) \subseteq V32_RATE_SEQ[own]
<1> DEFINE r == common_rate(own, seq)
<1>1. r # NONE => /\ V32_RATE_SEQ[r] \subseteq V32_RATE_SEQ[own]
                  /\ V32_FINAL_RATE_SEQ[r] \subseteq V32_RATE_SEQ[own]
  BY CommonRateCore, CoreRates
<1> HIDE DEF r
<1>2. /\ CodeRateSeq(own, seq) = IF r = NONE THEN {} ELSE V32_RATE_SEQ[r]
      /\ CodeFinalRateSeq(own, seq) = IF r = NONE THEN {} ELSE V32_FINAL_RATE_SEQ[r]
  BY Zenon DEF CodeRateSeq, CodeFinalRateSeq, r
<1> QED
  BY <1>1, <1>2

\* A rate a station has in common with some word it has in common with the E
\* it sends for it.
LEMMA CommonKept ==
  ASSUME NEW own \in Rates, NEW seq, common_rate(own, seq) # NONE
  PROVE  LET r == common_rate(own, seq)
         IN /\ r \in Rates
            /\ CodeESeq(own, seq) = V32_FINAL_RATE_SEQ[r]
            /\ common_rate(own, V32_FINAL_RATE_SEQ[r]) = r
            /\ V32_FINAL_RATE_SEQ[r] \ {"T"} \subseteq V32_RATE_SEQ[own]
BY CommonRateCore, FinalCommon, CoreRates DEF CodeESeq

\* So does a station whose own words named that rate.
LEMMA CommonShared ==
  ASSUME NEW own \in Rates, NEW peer \in Rates, NEW w,
         w \subseteq V32_RATE_SEQ[peer], common_rate(own, w) # NONE
  PROVE  LET r == common_rate(own, w)
         IN common_rate(peer, V32_FINAL_RATE_SEQ[r]) = r
<1> DEFINE r == common_rate(own, w)
<1>1. r \in Rates /\ Core[r] \subseteq w
  BY CommonRateCore
<1> HIDE DEF r
<1>2. Core[r] \subseteq V32_RATE_SEQ[peer]
  BY <1>1
<1> QED
  BY <1>1, <1>2, FinalCommon DEF r

\* A word without a rate has none in common with anyone.
LEMMA CommonNone ==
  ASSUME NEW own \in Rates, NEW seq
  PROVE  /\ common_rate(own, {}) = NONE
         /\ common_rate(own, seq) = NONE => CodeESeq(own, seq) = {}
<1> DEFINE r == common_rate(own, {})
<1>1. r # NONE => r \in Rates /\ Core[r] \subseteq {}
  BY CommonRateCore
<1> HIDE DEF r
<1>2. r \in Rates => ~(Core[r] \subseteq {})
  <2>1. /\ r = 0 => "4800" \in Core[r]
        /\ r \in {1, 2} => "9600" \in Core[r]
        /\ r = 3 => "7200" \in Core[r]
        /\ r = 4 => "12000" \in Core[r]
        /\ r = 5 => "14400" \in Core[r]
    BY DEF Core, Rates
  <2> QED
    BY <2>1 DEF Rates
<1> QED
  BY <1>1, <1>2 DEF CodeESeq, r

-----------------------------------------------------------------------------

\* B1 is longer than a block, and an open wait longer still.
LEMMA Blocks ==
  /\ Sym \in Nat /\ Limit \in Nat /\ Scaled(128) \in Nat
  /\ Sym < Scaled(128) /\ Sym < Limit /\ Scaled(8) \in Nat
BY V32Assumption, Times DEF Durations

\* Where a step leads, and which rate words it leaves alone.
OrgMoved(h, k) ==
  /\ k.own = h.own
  /\ k.state = "S" => h.state = "R" /\ k.regs[3] = h.match
  /\ k.state = "T" => h.state = "S" /\ k.regs[3] = h.regs[3]
  /\ k.state = "U" => h.state = "T" /\ k.regs[3] = h.regs[3] /\ k.left = Limit
  /\ k.state = "V" => h.state \in {"U", "V"} /\ k.regs[3] = h.regs[3]
  /\ h.state \in {"U", "V"} => k.state = "V"
  /\ h.state = "ERROR" => k.state = "ERROR" /\ k.txr = h.txr
  /\ h.state = "T" => k.state = "U"
  /\ h.state = "U" =>
       /\ k.data = h.data /\ k.left = Scaled(128) /\ k.txr = h.txr
       /\ k.regs[4] = h.match
  /\ h.state = "V" => k.data = TRUE /\ k.txr = h.txr /\ k.regs[4] = h.regs[4]
AnsMoved(h, k) ==
  /\ k.own = h.own
  /\ k.state = "Y" => h.state = "X2" /\ k.regs[4] = h.match
  /\ k.state = "Z" => h.state = "Y" /\ k.regs[4] = h.regs[4]
  /\ k.state = "END" => h.state \in {"Z", "END"} /\ k.regs[4] = h.regs[4]
  /\ h.state = "Y" => k.state = "Z"
  /\ h.state \in {"Z", "END"} => k.state = "END"
  /\ h.state = "Z" => k.data = h.data /\ k.left = Scaled(128)
  /\ h.state = "END" => k.data = TRUE
Moved(h, k) ==
  /\ k.data = TRUE \/ k.status \in Posts(h)
  /\ IF h.mode = "org" THEN OrgMoved(h, k) ELSE AnsMoved(h, k)

\* The word heard, in the two states where it may not be any: E is not heard
\* before E is sent, and it names the rate of R3.
Heeded(h) ==
  h.mode = "org" =>
    /\ h.state = "T" => h.match = {}
    /\ LET r == common_rate(h.own, h.match)
       IN h.state = "U" /\ DecodeReg(h, 3) # NONE /\ r # NONE => r = DecodeReg(h, 3)

\* What a step needs and what it keeps.
Steady(h) ==
  /\ Coded(h) /\ Heeded(h) /\ (Unfit(h) => Failing(h))
  /\ h.state \in {"V", "END"} => ~Unfit(h)
Settles(h, k, b) ==
  /\ Coded(k) /\ Unmatched(k) /\ (Unfit(k) => Doomed(k, b)) /\ Moved(h, k)


\* A state of the calling station that settles nothing.
LEMMA OrgNothing ==
  ASSUME NEW h, NEW k, NEW b, h.mode = "org", k.mode = "org", k.own = h.own,
         k.state \in OrgStates \ {"R", "S", "T", "U", "V", "ERROR"},
         h.state \notin {"T", "U", "V", "ERROR"}, k.status \in Posts(h)
  PROVE  Settles(h, k, b)
<1>1. Coded(k)
  BY DEF Coded, OrgCoded, OrgStates
<1>2. Unmatched(k) /\ ~Unfit(k)
  BY DEF Unmatched, Waiting, Unfit, OrgStates
<1>3. Moved(h, k)
  BY DEF Moved, OrgMoved, OrgStates
<1> QED
  BY <1>1, <1>2, <1>3 DEF Settles

\* The arms of the calling station's rates.
LEMMA OrgRatesSettle ==
  ASSUME NEW h, NEW b, NEW b1, Ready(h, b, b1), h.mode = "org", Steady(h),
         h.state \in {"N", "O", "P", "Q", "R", "S", "T", "U", "V"}
  PROVE  Settles(h, OrgRates(h), b1)
<1> DEFINE r == DecodeReg(h, 3)
<1>r. r = common_rate(h.own, h.regs[3])
  BY DEF DecodeReg
<1>p. h.data = FALSE \/ h.state = "V"
  BY DEF Ready, Placed, Ctx, Counted
<1>q. 23 \in ErrorCodes
  BY DEF ErrorCodes
<1>c. OrgCoded(h)
  BY DEF Steady, Coded
<1>b. b1 \in Nat /\ b1 <= Sym
  BY Times DEF Ready
<1>g. h.regs \in [1 .. 4 -> SUBSET Bits]
  BY DEF Ready, Ctx, Rated
<1>1. CASE h.state = "N"
  <2> DEFINE k ==
       LET seq == CodeRateSeq(h.own, h.regs[1])
       IN [InitDet(InitGen(SetTxMode(To(h, "O", Limit), 0),
                           Word("R", seq)), "R") EXCEPT
             !.tx = "ScrSequence", !.rx = "STone", !.regs[2] = seq]
  <2>1. OrgRates(h) = k
    BY <1>1 DEF OrgRates
  <2>2. /\ k.mode = "org" /\ k.own = h.own
        /\ k.status \in Posts(h)
        /\ k.state = "O"
    BY <1>1, <1>g DEF To, Txs, Rxs, InitGen, InitDet, SetTxMode, SetRxMode,
       Gen, Word, Ready, Ctx, Fields, Posts, NONE
  <2> HIDE DEF k
  <2>3. Settles(h, k, b1)
    BY <1>1, <2>2, OrgNothing DEF OrgStates
  <2> QED
    BY <2>1, <2>3
<1>2. CASE h.state = "O"
  <2> DEFINE k ==
       SetRxMode([h EXCEPT !.state = "P", !.timer = 0,
                           !.tx = "ScrSequence", !.rx = "Epoch"], 0)
  <2>1. OrgRates(h) = k
    BY <1>2 DEF OrgRates
  <2>2. /\ k.mode = "org" /\ k.own = h.own
        /\ k.status \in Posts(h)
        /\ k.state = "P"
    BY <1>2, <1>g DEF To, Txs, Rxs, InitGen, InitDet, SetTxMode, SetRxMode,
       Gen, Word, Ready, Ctx, Fields, Posts
  <2> HIDE DEF k
  <2>3. Settles(h, k, b1)
    BY <1>2, <2>2, OrgNothing DEF OrgStates
  <2> QED
    BY <2>1, <2>3
<1>3. CASE h.state = "P"
  <2> DEFINE k ==
       [To(h, "Q", Scaled(1232)) EXCEPT
          !.s46 = Limit - h.left, !.tx = "ScrSequence", !.rx = "Data"]
  <2>1. OrgRates(h) = k
    BY <1>3 DEF OrgRates
  <2>2. /\ k.mode = "org" /\ k.own = h.own
        /\ k.status \in Posts(h)
        /\ k.state = "Q"
    BY <1>3, <1>g DEF To, Txs, Rxs, InitGen, InitDet, SetTxMode, SetRxMode,
       Gen, Word, Ready, Ctx, Fields, Posts
  <2> HIDE DEF k
  <2>3. Settles(h, k, b1)
    BY <1>3, <2>2, OrgNothing DEF OrgStates
  <2> QED
    BY <2>1, <2>3
<1>4. CASE h.state = "Q"
  <2> DEFINE k ==
       InitDet(Rxs(Txs(To(h, "R", Limit), "ScrSequence"), "Sequence"), "R")
  <2>1. OrgRates(h) = k
    BY <1>4 DEF OrgRates
  <2>2. /\ k.mode = "org" /\ k.own = h.own
        /\ k.status \in Posts(h)
        /\ k.state = "R" /\ k.det = "R" /\ k.match = {}
    BY <1>4, <1>g DEF To, Txs, Rxs, InitGen, InitDet, SetTxMode, SetRxMode,
       Gen, Word, Ready, Ctx, Fields, Posts
  <2> HIDE DEF k
  <2>c. OrgCoded(k)
    BY <2>2 DEF OrgCoded
  <2>3. Coded(k)
    BY <2>2, <2>c DEF Coded
  <2>4. Unmatched(k)
    BY <2>2 DEF Unmatched
  <2>5. Unfit(k) => Doomed(k, b1)
    BY <2>2 DEF Unfit
  <2>6. Moved(h, k)
    BY <1>4, <2>2 DEF Moved, OrgMoved
  <2> QED
    BY <2>1, <2>3, <2>4, <2>5, <2>6 DEF Settles
<1>5. CASE h.state = "R"
  <2> DEFINE k ==
       [h EXCEPT
          !.state = "S", !.regs[3] = h.match,
          !.left = ToWordEnd(Scaled(1232) + (Limit - h.left) + h.s46)]
  <2>1. OrgRates(h) = k
    BY <1>5 DEF OrgRates
  <2>2. /\ k.mode = "org" /\ k.own = h.own
        /\ k.status \in Posts(h)
        /\ k.state = "S" /\ k.regs[3] = h.match
    BY <1>5, <1>g DEF To, Txs, Rxs, InitGen, InitDet, SetTxMode, SetRxMode,
       Gen, Word, Ready, Ctx, Fields, Posts
  <2> HIDE DEF k
  <2>c. OrgCoded(k)
    BY <2>2 DEF OrgCoded
  <2>3. Coded(k)
    BY <2>2, <2>c DEF Coded
  <2>4. Unmatched(k)
    BY <2>2 DEF Unmatched, Waiting
  <2>5. Unfit(k) => Doomed(k, b1)
    BY <2>2 DEF Unfit
  <2>6. Moved(h, k)
    BY <1>5, <2>2 DEF Moved, OrgMoved
  <2> QED
    BY <2>1, <2>3, <2>4, <2>5, <2>6 DEF Settles
<1>6. CASE h.state = "S"
  <2> DEFINE k ==
       LET j == InitDet(InitGen(To(h, "T", Scaled(8)),
                            Word("E", CodeESeq(h.own, h.regs[3]))), "E")
       IN [j EXCEPT !.tx = "ScrSequence", !.rx = "Sequence",
                    !.status = IF DecodeReg(h, 3) = NONE THEN 23 ELSE @]
  <2>1. OrgRates(h) = k
    BY <1>6 DEF OrgRates
  <2>2. /\ k.mode = "org" /\ k.own = h.own
        /\ k.status \in Posts(h)
        /\ k.state = "T" /\ k.regs = h.regs /\ k.data = h.data
        /\ k.tx = "ScrSequence" /\ k.det = "E" /\ k.match = {}
        /\ k.gen = Word("E", CodeESeq(h.own, h.regs[3]))
        /\ r = NONE => k.status = 23
    BY <1>6, <1>g DEF To, Txs, Rxs, InitGen, InitDet, SetTxMode, SetRxMode,
       Gen, Word, Ready, Ctx, Fields, Posts
  <2> HIDE DEF k
  <2>c. OrgCoded(k)
    BY <2>2 DEF OrgCoded
  <2>3. Coded(k)
    BY <2>2, <2>c DEF Coded
  <2>4. Unmatched(k)
    BY <2>2 DEF Unmatched
  <2>5. Unfit(k) => Doomed(k, b1)
    BY <1>6, <1>r, <1>p, <1>q, <2>2 DEF Unfit, Doomed, Failing, DecodeReg
  <2>6. Moved(h, k)
    BY <1>6, <2>2 DEF Moved, OrgMoved
  <2> QED
    BY <2>1, <2>3, <2>4, <2>5, <2>6 DEF Settles
<1>7. CASE h.state = "T"
  <2> DEFINE k ==
       InitGen(SetTxMode(To(h, "U", Limit), DecodeReg(h, 3)), Gen("B1"))
  <2>1. OrgRates(h) = k
    BY <1>7 DEF OrgRates
  <2>2. /\ k.mode = "org" /\ k.own = h.own
        /\ k.status \in Posts(h)
        /\ k.state = "U" /\ k.regs = h.regs /\ k.data = h.data
        /\ k.tx = h.tx /\ k.det = h.det /\ k.match = h.match /\ k.left = Limit
        /\ r = NONE => k.status = 23
        /\ r # NONE => k.txr = Reported(r)
    BY <1>7, <1>g DEF To, Txs, Rxs, InitGen, InitDet, SetTxMode, SetRxMode,
       Gen, Word, Ready, Ctx, Fields, Posts
  <2> HIDE DEF k
  <2>c. OrgCoded(k)
    BY <1>7, <1>r, <1>c, <2>2 DEF OrgCoded, DecodeReg
  <2>3. Coded(k)
    BY <2>2, <2>c DEF Coded
  <2>4. Unmatched(k)
    BY <1>7, <2>2 DEF Unmatched, Steady, Heeded
  <2>5. Unfit(k) => Doomed(k, b1)
    BY <1>7, <1>r, <1>p, <1>q, <2>2 DEF Unfit, Doomed, Failing, DecodeReg
  <2>6. Moved(h, k)
    BY <1>7, <2>2 DEF Moved, OrgMoved
  <2> QED
    BY <2>1, <2>3, <2>4, <2>5, <2>6 DEF Settles
<1>8. CASE h.state = "U"
  <2> DEFINE k ==
       SetRxMode([To(h, "V", Scaled(128)) EXCEPT
                    !.rx = "Data", !.regs[4] = h.match],
                 common_rate(h.own, h.match))
  <2>1. OrgRates(h) = k
    BY <1>8 DEF OrgRates
  <2>2. /\ k.mode = "org" /\ k.own = h.own
        /\ k.status \in Posts(h)
        /\ k.state = "V" /\ k.rx = "Data" /\ k.data = h.data
        /\ k.regs[3] = h.regs[3] /\ k.regs[4] = h.match
        /\ k.txr = h.txr /\ k.tx = h.tx /\ k.left = Scaled(128)
        /\ common_rate(h.own, h.match) = NONE => k.status = 23
        /\ common_rate(h.own, h.match) # NONE =>
             k.status = h.status /\ k.rxr = Reported(common_rate(h.own, h.match))
    BY <1>8, <1>g DEF To, Txs, Rxs, InitGen, InitDet, SetTxMode, SetRxMode,
       Gen, Word, Ready, Ctx, Fields, Posts
  <2> HIDE DEF k
  <2>c. OrgCoded(k)
    BY <1>8, <1>r, <1>c, <2>2 DEF OrgCoded, DecodeReg, Steady, Heeded
  <2>3. Coded(k)
    BY <2>2, <2>c DEF Coded
  <2>4. Unmatched(k)
    BY <2>2 DEF Unmatched, Waiting
  <2>5. Unfit(k) => Doomed(k, b1)
    BY <1>8, <1>b, <1>r, <1>p, <1>q, <2>2, Blocks DEF Unfit, Doomed, Failing,
       DecodeReg, Steady
  <2>6. Moved(h, k)
    BY <1>8, <2>2 DEF Moved, OrgMoved
  <2> QED
    BY <2>1, <2>3, <2>4, <2>5, <2>6 DEF Settles
<1>9. CASE h.state = "V"
  <2> DEFINE k ==
       [To(h, "V", Limit) EXCEPT
          !.rx = "Data", !.data = TRUE,
          !.status = V32_CONNECT[DecodeReg(h, 3)]]
  <2>1. OrgRates(h) = k
    BY <1>9 DEF OrgRates
  <2>2. /\ k.mode = "org" /\ k.own = h.own
        /\ k.data = TRUE
        /\ k.state = "V" /\ k.rx = "Data" /\ k.regs = h.regs
        /\ k.txr = h.txr /\ k.rxr = h.rxr /\ k.tx = h.tx
    BY <1>9, <1>g DEF To, Txs, Rxs, InitGen, InitDet, SetTxMode, SetRxMode,
       Gen, Word, Ready, Ctx, Fields, Posts
  <2> HIDE DEF k
  <2>c. OrgCoded(k)
    BY <1>9, <1>c, <2>2 DEF OrgCoded, DecodeReg
  <2>3. Coded(k)
    BY <2>2, <2>c DEF Coded
  <2>4. Unmatched(k)
    BY <2>2 DEF Unmatched, Waiting
  <2>5. Unfit(k) => Doomed(k, b1)
    BY <1>9, <2>2 DEF Unfit, DecodeReg, Steady
  <2>6. Moved(h, k)
    BY <1>9, <2>2 DEF Moved, OrgMoved
  <2> QED
    BY <2>1, <2>3, <2>4, <2>5, <2>6 DEF Settles
<1> HIDE DEF r
<1> QED
  BY <1>1, <1>2, <1>3, <1>4, <1>5, <1>6, <1>7, <1>8, <1>9

\* A state of the answering station that settles nothing, with a rate word,
\* if any, that it has all the rates of.
LEMMA AnsNothing ==
  ASSUME NEW h, NEW k, NEW b, h.mode = "ans", k.mode = "ans", k.own = h.own,
         k.state \in AnsStates \ {"X2", "Y", "Z", "END", "ERROR"},
         h.state \notin {"Y", "Z", "END"}, k.status \in Posts(h),
         k.gen.kind = "R" => k.gen.seq \subseteq V32_RATE_SEQ[h.own],
         k.gen.kind # "E"
  PROVE  Settles(h, k, b)
<1>1. Coded(k)
  BY DEF Coded, AnsCoded, AnsStates
<1>2. Unmatched(k) /\ ~Unfit(k)
  BY DEF Unmatched, Waiting, Unfit, AnsStates
<1>3. Moved(h, k)
  BY DEF Moved, AnsMoved, AnsStates
<1> QED
  BY <1>1, <1>2, <1>3 DEF Settles

\* The arms of the answering station's rates.
LEMMA AnsRatesSettle ==
  ASSUME NEW h, NEW b, NEW b1, Ready(h, b, b1), h.mode = "ans", Steady(h),
         h.state \in {"T", "U", "V", "W", "X", "X2", "Y", "Z", "END"}
  PROVE  Settles(h, AnsRates(h), b1)
<1> DEFINE r == DecodeReg(h, 4)
<1>r. r = common_rate(h.own, h.regs[4])
  BY DEF DecodeReg
<1>p. h.data = FALSE \/ h.state = "END"
  BY DEF Ready, Placed, Ctx, Counted
<1>q. 23 \in ErrorCodes
  BY DEF ErrorCodes
<1>c. AnsCoded(h)
  BY DEF Steady, Coded
<1>b. b1 \in Nat /\ b1 <= Sym /\ h.left \in Int
  BY Times DEF Ready, Ctx, Counted
<1>o. h.own \in Rates
  BY DEF Ready, Ctx, Rated
<1>g. h.regs \in [1 .. 4 -> SUBSET Bits]
  BY DEF Ready, Ctx, Rated
<1>s. /\ h.gen.kind = "R" => h.gen.seq \subseteq V32_RATE_SEQ[h.own]
      /\ h.gen.kind = "E" => h.state = "Z"
  BY <1>c DEF AnsCoded
<1>1. CASE h.state = "T"
  <2> DEFINE k ==
       LET j == InitGen(SetTxMode(To(h, "U", Scaled(256)), 0), Gen("S"))
       IN [j EXCEPT
             !.tx = "CarrierState", !.rx = "Data", !.regs[2] = h.match,
             !.status = IF common_rate(h.own, h.match) = NONE
                        THEN 23 ELSE @]
  <2>1. AnsRates(h) = k
    BY <1>1 DEF AnsRates
  <2>2. /\ k.mode = "ans" /\ k.own = h.own
        /\ k.status \in Posts(h)
        /\ k.state = "U" /\ k.gen.kind \notin {"R", "E"}
    BY <1>1, <1>g DEF To, Txs, Rxs, InitGen, InitDet, SetTxMode, SetRxMode,
       Gen, Word, Ready, Ctx, Fields, Posts, NONE
  <2> HIDE DEF k
  <2>3. Settles(h, k, b1)
    BY <1>1, <1>s, <2>2, AnsNothing DEF AnsStates
  <2> QED
    BY <2>1, <2>3
<1>2. CASE h.state = "U"
  <2> DEFINE k ==
       InitGen(Txs(To(h, "V", Scaled(16)), "CarrierState"), Gen("Sbar"))
  <2>1. AnsRates(h) = k
    BY <1>2 DEF AnsRates
  <2>2. /\ k.mode = "ans" /\ k.own = h.own
        /\ k.status \in Posts(h)
        /\ k.state = "V" /\ k.gen.kind \notin {"R", "E"}
    BY <1>2, <1>g DEF To, Txs, Rxs, InitGen, InitDet, SetTxMode, SetRxMode,
       Gen, Word, Ready, Ctx, Fields, Posts
  <2> HIDE DEF k
  <2>3. Settles(h, k, b1)
    BY <1>2, <1>s, <2>2, AnsNothing DEF AnsStates
  <2> QED
    BY <2>1, <2>3
<1>3. CASE h.state = "V"
  <2> DEFINE k ==
       InitGen(Txs(To(h, "W", Scaled(256)), "TRN"), Gen("TRN"))
  <2>1. AnsRates(h) = k
    BY <1>3 DEF AnsRates
  <2>2. /\ k.mode = "ans" /\ k.own = h.own
        /\ k.status \in Posts(h)
        /\ k.state = "W" /\ k.gen.kind \notin {"R", "E"}
    BY <1>3, <1>g DEF To, Txs, Rxs, InitGen, InitDet, SetTxMode, SetRxMode,
       Gen, Word, Ready, Ctx, Fields, Posts
  <2> HIDE DEF k
  <2>3. Settles(h, k, b1)
    BY <1>3, <1>s, <2>2, AnsNothing DEF AnsStates
  <2> QED
    BY <2>1, <2>3
<1>4. CASE h.state = "W"
  <2> DEFINE k ==
       Txs(To(h, "X", Scaled(7100)), "ScrSequence")
  <2>1. AnsRates(h) = k
    BY <1>4 DEF AnsRates
  <2>2. /\ k.mode = "ans" /\ k.own = h.own
        /\ k.status \in Posts(h)
        /\ k.state = "X" /\ k.gen = h.gen
    BY <1>4, <1>g DEF To, Txs, Rxs, InitGen, InitDet, SetTxMode, SetRxMode,
       Gen, Word, Ready, Ctx, Fields, Posts
  <2> HIDE DEF k
  <2>3. Settles(h, k, b1)
    BY <1>4, <1>s, <2>2, AnsNothing DEF AnsStates
  <2> QED
    BY <2>1, <2>3
<1>5. CASE h.state = "X"
  <2> DEFINE k ==
       [InitDet(InitGen(SetTxMode(To(h, "X2", Limit), 0),
                        Word("R", CodeFinalRateSeq(h.own, h.regs[2]))), "E")
          EXCEPT !.tx = "ScrSequence", !.rx = "Sequence"]
  <2>1. AnsRates(h) = k
    BY <1>5 DEF AnsRates
  <2>2. /\ k.mode = "ans" /\ k.own = h.own
        /\ k.status \in Posts(h)
        /\ k.state = "X2" /\ k.det = "E" /\ k.match = {} /\ k.tx = "ScrSequence"
        /\ k.gen = Word("R", CodeFinalRateSeq(h.own, h.regs[2]))
    BY <1>5, <1>g DEF To, Txs, Rxs, InitGen, InitDet, SetTxMode, SetRxMode,
       Gen, Word, Ready, Ctx, Fields, Posts
  <2> HIDE DEF k
  <2>c. AnsCoded(k)
    BY <1>o, <2>2, CodeOwn DEF AnsCoded, Word
  <2>3. Coded(k)
    BY <2>2, <2>c DEF Coded
  <2>4. Unmatched(k)
    BY <2>2 DEF Unmatched
  <2>5. Unfit(k) => Doomed(k, b1)
    BY <2>2 DEF Unfit
  <2>6. Moved(h, k)
    BY <1>5, <2>2 DEF Moved, AnsMoved
  <2> QED
    BY <2>1, <2>3, <2>4, <2>5, <2>6 DEF Settles
<1>6. CASE h.state = "X2"
  <2> DEFINE k ==
       [h EXCEPT !.state = "Y", !.left = ToWordEnd(Limit - h.left),
                 !.regs[4] = h.match]
  <2>1. AnsRates(h) = k
    BY <1>6 DEF AnsRates
  <2>2. /\ k.mode = "ans" /\ k.own = h.own
        /\ k.status \in Posts(h)
        /\ k.state = "Y" /\ k.tx = h.tx /\ k.gen = h.gen
        /\ k.left = ToWordEnd(Limit - h.left) /\ k.regs[4] = h.match
    BY <1>6, <1>g DEF To, Txs, Rxs, InitGen, InitDet, SetTxMode, SetRxMode,
       Gen, Word, Ready, Ctx, Fields, Posts
  <2> HIDE DEF k
  <2>c. AnsCoded(k)
    BY <1>6, <1>b, <1>c, <1>s, <2>2, WordEnd, Times DEF AnsCoded
  <2>3. Coded(k)
    BY <2>2, <2>c DEF Coded
  <2>4. Unmatched(k)
    BY <2>2 DEF Unmatched, Waiting
  <2>5. Unfit(k) => Doomed(k, b1)
    BY <2>2 DEF Unfit
  <2>6. Moved(h, k)
    BY <1>6, <2>2 DEF Moved, AnsMoved
  <2> QED
    BY <2>1, <2>3, <2>4, <2>5, <2>6 DEF Settles
<1>7. CASE h.state = "Y"
  <2> DEFINE k ==
       [InitGen(SetRxMode(h, DecodeReg(h, 4)),
                Word("E", CodeESeq(h.own, h.regs[4]))) EXCEPT
          !.state = "Z", !.left = Scaled(8), !.tx = "ScrSequence",
          !.rx = "Data"]
  <2>1. AnsRates(h) = k
    BY <1>7 DEF AnsRates
  <2>2. /\ k.mode = "ans" /\ k.own = h.own
        /\ k.status \in Posts(h)
        /\ k.state = "Z" /\ k.tx = "ScrSequence" /\ k.regs = h.regs
        /\ k.rx = "Data"
        /\ k.data = h.data /\ k.gen = Word("E", CodeESeq(h.own, h.regs[4]))
        /\ r = NONE => k.status = 23
        /\ r # NONE => k.rxr = Reported(r)
    BY <1>7, <1>g DEF To, Txs, Rxs, InitGen, InitDet, SetTxMode, SetRxMode,
       Gen, Word, Ready, Ctx, Fields, Posts
  <2> HIDE DEF k
  <2>c. AnsCoded(k)
    BY <1>r, <2>2 DEF AnsCoded, Word, DecodeReg
  <2>3. Coded(k)
    BY <2>2, <2>c DEF Coded
  <2>4. Unmatched(k)
    BY <2>2 DEF Unmatched, Waiting
  <2>5. Unfit(k) => Doomed(k, b1)
    BY <1>7, <1>r, <1>p, <1>q, <2>2 DEF Unfit, Doomed, Failing, DecodeReg
  <2>6. Moved(h, k)
    BY <1>7, <2>2 DEF Moved, AnsMoved
  <2> QED
    BY <2>1, <2>3, <2>4, <2>5, <2>6 DEF Settles
<1>8. CASE h.state = "Z"
  <2> DEFINE k ==
       [SetTxMode(InitGen(To(h, "END", Scaled(128)), Gen("B1")),
                  DecodeReg(h, 4)) EXCEPT !.tx = "ScrSequence", !.rx = "Data"]
  <2>1. AnsRates(h) = k
    BY <1>8 DEF AnsRates
  <2>2. /\ k.mode = "ans" /\ k.own = h.own
        /\ k.status \in Posts(h)
        /\ k.state = "END" /\ k.rx = "Data" /\ k.regs = h.regs
        /\ k.data = h.data /\ k.gen = Gen("B1") /\ k.left = Scaled(128)
        /\ k.rxr = h.rxr /\ k.tx = "ScrSequence"
        /\ r = NONE => k.status = 23
        /\ r # NONE => k.txr = Reported(r)
    BY <1>8, <1>g DEF To, Txs, Rxs, InitGen, InitDet, SetTxMode, SetRxMode,
       Gen, Word, Ready, Ctx, Fields, Posts
  <2> HIDE DEF k
  <2>c. AnsCoded(k)
    BY <1>8, <1>r, <1>c, <2>2 DEF AnsCoded, Gen, DecodeReg
  <2>3. Coded(k)
    BY <2>2, <2>c DEF Coded
  <2>4. Unmatched(k)
    BY <2>2 DEF Unmatched, Waiting
  <2>5. Unfit(k) => Doomed(k, b1)
    BY <1>8, <1>b, <1>r, <1>p, <1>q, <2>2, Blocks DEF Unfit, Doomed, Failing,
       DecodeReg
  <2>6. Moved(h, k)
    BY <1>8, <2>2 DEF Moved, AnsMoved
  <2> QED
    BY <2>1, <2>3, <2>4, <2>5, <2>6 DEF Settles
<1>9. CASE h.state = "END"
  <2> DEFINE k ==
       [To(h, "END", Limit) EXCEPT
          !.data = TRUE, !.status = V32_CONNECT[DecodeReg(h, 4)]]
  <2>1. AnsRates(h) = k
    BY <1>9 DEF AnsRates
  <2>2. /\ k.mode = "ans" /\ k.own = h.own
        /\ k.data = TRUE
        /\ k.state = "END" /\ k.rx = h.rx /\ k.regs = h.regs /\ k.gen = h.gen
        /\ k.txr = h.txr /\ k.rxr = h.rxr /\ k.tx = h.tx
    BY <1>9, <1>g DEF To, Txs, Rxs, InitGen, InitDet, SetTxMode, SetRxMode,
       Gen, Word, Ready, Ctx, Fields, Posts
  <2> HIDE DEF k
  <2>c. AnsCoded(k)
    BY <1>9, <1>c, <2>2 DEF AnsCoded, DecodeReg
  <2>3. Coded(k)
    BY <2>2, <2>c DEF Coded
  <2>4. Unmatched(k)
    BY <2>2 DEF Unmatched, Waiting
  <2>5. Unfit(k) => Doomed(k, b1)
    BY <1>9, <2>2 DEF Unfit, DecodeReg, Steady
  <2>6. Moved(h, k)
    BY <1>9, <2>2 DEF Moved, AnsMoved
  <2> QED
    BY <2>1, <2>3, <2>4, <2>5, <2>6 DEF Settles
<1> HIDE DEF r
<1> QED
  BY <1>1, <1>2, <1>3, <1>4, <1>5, <1>6, <1>7, <1>8, <1>9

\* A step of the machine, whoever makes it.
LEMMA NextStateSettles ==
  ASSUME NEW h, NEW b, NEW b1, Ready(h, b, b1), Steady(h)
  PROVE  Settles(h, NextState(h), b1)
<1> DEFINE k == NextState(h)
<1>0. \/ h.mode = "org" /\ h.state \in OrgStates
      \/ h.mode = "ans" /\ h.state \in AnsStates
  BY DEF Ready, Placed
<1>1. k.mode = h.mode
  BY NextStateGood
<1>2. h.own \in Rates /\ h.data \in BOOLEAN
  BY DEF Ready, Ctx, Rated, Counted
<1>3. CASE h.state = "ERROR"
  <2> DEFINE e == [h EXCEPT !.left = Limit]
  <2>1. k = e
    BY <1>0, <1>3 DEF NextState, OrgNextState, AnsNextState
  <2>2. /\ e.mode = h.mode /\ e.own = h.own /\ e.state = "ERROR"
        /\ e.gen = h.gen /\ e.status = h.status /\ e.data = h.data
        /\ e.txr = h.txr /\ e.status \in Posts(h)
    BY <1>3 DEF Ready, Ctx, Fields, Posts
  <2> HIDE DEF e, k
  <2>3. Coded(e)
    BY <1>0, <1>3, <2>2 DEF Steady, Coded, OrgCoded, AnsCoded
  <2>4. Unmatched(e) /\ (Unfit(e) => Doomed(e, b1))
    BY <1>3, <2>2 DEF Steady, Unfit, Failing, Doomed, Unmatched, Waiting
  <2>5. Moved(h, e)
    BY <1>0, <1>3, <2>2 DEF Moved, OrgMoved, AnsMoved
  <2> QED
    BY <2>1, <2>3, <2>4, <2>5 DEF Settles, k
<1>4. ASSUME h.mode = "org", OrgPassed(h, k), h.state \in OrgEarly
      PROVE  Settles(h, k, b1)
  <2> HIDE DEF k
  <2>1. OrgEarly \subseteq OrgStates \ {"R", "S", "T", "U", "V", "ERROR"}
    BY DEF OrgEarly, OrgStates
  <2>2. h.state \notin {"T", "U", "V", "ERROR"}
    BY <1>4, <2>1
  <2> QED
    BY <1>1, <1>4, <2>1, <2>2, OrgNothing DEF OrgPassed
<1>5. ASSUME h.mode = "ans", AnsPassed(h, k), h.state \in AnsEarly
      PROVE  Settles(h, k, b1)
  <2> HIDE DEF k
  <2>1. /\ AnsEarly \subseteq AnsStates \ {"X2", "Y", "Z", "END", "ERROR"}
        /\ h.state \notin {"X2", "Y", "Z", "END", "ERROR"}
    BY <1>5 DEF AnsEarly, AnsStates
  <2>2. /\ k.gen.kind = "R" => k.gen.seq \subseteq V32_RATE_SEQ[h.own]
        /\ k.gen.kind # "E"
    <3>1. AnsCoded(h)
      BY <1>5 DEF Steady, Coded
    <3>2. CASE k.gen = h.gen
      BY <1>5, <2>1, <3>1, <3>2 DEF AnsCoded
    <3>3. CASE k.gen.kind \notin {"R", "E"}
      BY <3>3
    <3>4. CASE k.gen.kind = "R" /\ k.gen.seq = CodeRateSeq(h.own, V32_RATE_SEQ[h.named])
      BY <1>2, <3>4, CodeOwn
    <3> QED
      BY <1>5, <3>2, <3>3, <3>4 DEF AnsPassed
  <2>3. CASE k.state \in AnsEarly
    BY <1>1, <1>5, <2>1, <2>2, <2>3, AnsNothing DEF AnsPassed
  <2>4. CASE k.state = "ERROR" /\ k.status = 22 /\ k.data = h.data
    <3>1. h.data = FALSE
      BY <1>2, <1>5, <2>1 DEF Ready, Placed
    <3>2. 22 \in ErrorCodes
      BY DEF ErrorCodes
    <3>3. Coded(k)
      BY <1>1, <1>5, <2>2, <2>4 DEF Coded, AnsCoded, AnsPassed
    <3>4. Unmatched(k) /\ Doomed(k, b1)
      BY <1>1, <1>5, <2>4, <3>1, <3>2 DEF Unmatched, Waiting, Doomed, Failing
    <3>5. Moved(h, k)
      BY <1>5, <2>1, <2>4 DEF Moved, AnsMoved, AnsPassed
    <3> QED
      BY <3>3, <3>4, <3>5 DEF Settles
  <2> QED
    BY <1>5, <2>3, <2>4 DEF AnsPassed
<1>6. CASE h.mode = "org" /\ h.state \in {"A", "B", "B2", "C", "D", "D2"}
  <2>1. k = OrgRanging(h) /\ h.state \in OrgEarly
    BY <1>6 DEF NextState, OrgNextState, OrgEarly
  <2>2. Good(OrgRanging(h), b1) /\ OrgPassed(h, OrgRanging(h))
    BY <1>6, OrgRangingGood
  <2> HIDE DEF k
  <2> QED
    BY <1>4, <1>6, <2>1, <2>2 DEF k
<1>7. CASE /\ h.mode = "org"
           /\ h.state \in {"E", "F", "G", "H", "I", "J", "K", "L", "M"}
  <2>1. k = OrgTraining(h) /\ h.state \in OrgEarly
    BY <1>7 DEF NextState, OrgNextState, OrgEarly
  <2>2. Good(OrgTraining(h), b1) /\ OrgPassed(h, OrgTraining(h))
    BY <1>7, OrgTrainingGood
  <2> HIDE DEF k
  <2> QED
    BY <1>4, <1>7, <2>1, <2>2 DEF k
<1>8. CASE /\ h.mode = "org"
           /\ h.state \in {"N", "O", "P", "Q", "R", "S", "T", "U", "V"}
  BY <1>8, OrgRatesSettle DEF NextState, OrgNextState
<1>9. CASE /\ h.mode = "ans"
           /\ h.state \in {"A", "B", "B2", "C", "D", "E", "F", "F2"}
  <2>1. k = AnsRanging(h) /\ h.state \in AnsEarly
    BY <1>9 DEF NextState, AnsNextState, AnsEarly
  <2>2. Good(AnsRanging(h), b1) /\ AnsPassed(h, AnsRanging(h))
    BY <1>9, AnsRangingGood
  <2> HIDE DEF k
  <2> QED
    BY <1>5, <1>9, <2>1, <2>2 DEF k
<1>10. CASE /\ h.mode = "ans"
            /\ h.state \in {"G", "H", "I", "J", "K", "L", "M", "N", "O", "P", "Q"}
  <2>1. k = AnsTraining(h) /\ h.state \in AnsEarly
    BY <1>10 DEF NextState, AnsNextState, AnsEarly
  <2>2. Good(AnsTraining(h), b1) /\ AnsPassed(h, AnsTraining(h))
    BY <1>10, AnsTrainingGood
  <2> HIDE DEF k
  <2> QED
    BY <1>5, <1>10, <2>1, <2>2 DEF k
<1>11. CASE /\ h.mode = "ans"
            /\ h.state \in {"T", "U", "V", "W", "X", "X2", "Y", "Z", "END"}
  BY <1>11, AnsRatesSettle DEF NextState, AnsNextState
<1> QED
  BY <1>0, <1>3, <1>6, <1>7, <1>8, <1>9, <1>10, <1>11 DEF OrgStates, AnsStates

-----------------------------------------------------------------------------

\* What a station settles is in these fields, and in the word it has heard.
Same(g, h) ==
  /\ h.mode = g.mode /\ h.own = g.own /\ h.state = g.state /\ h.tx = g.tx
  /\ h.rx = g.rx /\ h.gen = g.gen /\ h.det = g.det /\ h.regs = g.regs
  /\ h.txr = g.txr /\ h.rxr = g.rxr /\ h.left = g.left

\* It keeps what it has settled with them.
LEMMA SameCoded ==
  ASSUME NEW g, NEW h, Same(g, h)
  PROVE  /\ Coded(g) => Coded(h)
         /\ Unfit(h) <=> Unfit(g)
         /\ Waiting(h) <=> Waiting(g)
<1>1. DecodeReg(h, 3) = DecodeReg(g, 3) /\ DecodeReg(h, 4) = DecodeReg(g, 4)
  BY DEF Same, DecodeReg
<1>2. Coded(g) => Coded(h)
  BY <1>1 DEF Same, Coded, OrgCoded, AnsCoded
<1>3. (Unfit(h) <=> Unfit(g)) /\ (Waiting(h) <=> Waiting(g))
  BY <1>1 DEF Same, Unfit, Waiting
<1> QED
  BY <1>2, <1>3

\* A word that is heard is a piece of what the other has sent.
LEMMA WordsOn ==
  ASSUME NEW s, NEW kind, NEW w \in WordsHeard(s, kind)
  PROVE  \E g \in On(Peer(s)) : g.kind = kind /\ g.seq = w
BY DEF WordsHeard, Heard, On

\* What the receive routine of a station leads to, from the words it hears.
OrgHeard(g, h) ==
  /\ h.state = "S" =>
       \/ g.state = "S" /\ h.regs[3] = g.regs[3]
       \/ g.state = "R" /\ h.regs[3] = {}
       \/ g.state = "R" /\ h.regs[3] \in WordsHeard("org", "R")
  /\ h.state = "T" => g.state \in {"S", "T"} /\ h.regs[3] = g.regs[3]
  /\ h.state = "U" => g.state \in {"T", "U"} /\ h.regs[3] = g.regs[3]
  /\ h.state = "V" => g.state \in {"U", "V"} /\ h.regs[3] = g.regs[3]
  /\ g.state = "U" => h.state \in {"U", "V", "ERROR"}
  /\ g.state = "V" => h.state = "V" /\ h.left = g.left /\ h.regs[4] = g.regs[4]
  /\ g.state = "U" /\ h.state = "V" =>
       /\ h.left = Scaled(128)
       /\ h.regs[4] = {} \/ h.regs[4] \in WordsHeard("org", "E")
  /\ g.state = "ERROR" => h.state = "ERROR"
  /\ g.state \in {"U", "V", "ERROR"} => h.txr = g.txr
AnsHeard(g, h) ==
  /\ h.state = "Y" =>
       \/ g.state = "Y" /\ h.regs[4] = g.regs[4]
       \/ g.state = "X2" /\ h.regs[4] = {}
       \/ g.state = "X2" /\ h.regs[4] \in WordsHeard("ans", "E")
  /\ h.state = "Z" => g.state \in {"Y", "Z"} /\ h.regs[4] = g.regs[4]
  /\ h.state = "END" =>
       g.state = "END" /\ h.regs[4] = g.regs[4] /\ h.left = g.left
  /\ g.state = "END" => h.state = "END"
Listened(s, h) ==
  /\ h.mode = s /\ h.own = m[s].own /\ Coded(h) /\ Unmatched(h)
  /\ h.data = FALSE /\ (h.status \in ConnectCodes => h.status = m[s].status)
  /\ Unfit(h) => Doomed(h, Sym)
  /\ IF s = "org" THEN OrgHeard(m[s], h) ELSE AnsHeard(m[s], h)

\* A station whose receive routine is called has not failed.
LEMMA ReceivingFit ==
  ASSUME RatesIInv, NEW s \in Sides, NEW rx, Receiving(s, rx)
  PROVE  /\ Good(m[s], 0) /\ m[s].mode = s /\ m[s].rx = rx
         /\ Coded(m[s]) /\ Unmatched(m[s]) /\ ~Unfit(m[s])
<1>1. Good(m[s], 0) /\ m[s].mode = s /\ m[s].rx = rx
  BY ReceivingGood DEF RatesIInv
<1> QED
  BY <1>1 DEF RatesIInv, RatesInv, SideRates, InBlock, Receiving, Alive

\* Nothing detected.
LEMMA StayedListened ==
  ASSUME RatesIInv, NEW s \in Sides, NEW rx, Receiving(s, rx),
         NEW h, Same(m[s], h), h.match = m[s].match, h.data = FALSE,
         h.status = m[s].status
  PROVE  Listened(s, h) /\ ~Unfit(h)
<1>1. /\ m[s].mode = s /\ Coded(m[s]) /\ Unmatched(m[s]) /\ ~Unfit(m[s])
  BY ReceivingFit
<1>2. Coded(h) /\ Unmatched(h) /\ ~Unfit(h)
  BY <1>1, SameCoded DEF Unmatched
<1>3. OrgHeard(m[s], h) /\ AnsHeard(m[s], h)
  BY DEF OrgHeard, AnsHeard, Same
<1> QED
  BY <1>1, <1>2, <1>3 DEF Listened, Same

\* A state that waits for a word finds none before one is heard, and E is
\* what the other has sent for its own rate.
LEMMA HeardHeeded ==
  ASSUME RatesIInv, NEW s \in Sides, NEW rx, Receiving(s, rx),
         NEW h, Same(m[s], h),
         h.match = m[s].match \/ h.match \in WordsHeard(s, m[s].det)
  PROVE  Heeded(h)
<1> DEFINE o == m["org"]
           a == m["ans"]
           r == DecodeReg(o, 3)
           e == DecodeReg(a, 4)
<1>1. SUFFICES ASSUME h.mode = "org", h.state \in {"T", "U"}, r # NONE
               PROVE  /\ h.state = "T" => h.match = {}
                      /\ h.state = "U" => \/ common_rate(h.own, h.match) = NONE
                                          \/ common_rate(h.own, h.match) = r
  <2>1. h.mode = "org" => s = "org" /\ ~Unfit(m[s]) /\ m[s].mode = "org"
    BY ReceivingFit DEF Same
  <2>2. h.mode = "org" => DecodeReg(h, 3) = r
    BY <2>1 DEF Same, DecodeReg
  <2>3. h.mode = "org" /\ h.state \in {"T", "U"} => r # NONE
    BY <2>1 DEF Unfit, Same
  <2> HIDE DEF r
  <2> QED
    BY <2>2, <2>3, Zenon DEF Heeded
<1>2. s = "org" /\ Coded(o) /\ Unmatched(o) /\ o.mode = "org"
  <2>1. m[s].mode = s /\ Coded(m[s]) /\ Unmatched(m[s])
    BY ReceivingFit
  <2>2. s = "org"
    BY <1>1, <2>1 DEF Same
  <2> QED
    BY <2>1, <2>2
<1>3. h.own = o.own /\ h.state = o.state /\ o.det = "E"
  BY <1>1, <1>2 DEF Same, Coded, OrgCoded
<1>4. o.own \in Rates /\ a.own \in Rates
  BY DEF Sides, RatesIInv, StationIInv, SideInv, Ctx, Rated
<1>5. common_rate(o.own, {}) = NONE
  BY <1>4, CommonNone
<1>6. CASE h.match = {}
  BY <1>3, <1>5, <1>6
<1>7. CASE h.match # {}
  <2>1. h.match \in WordsHeard("org", "E")
    BY <1>1, <1>2, <1>3, <1>7 DEF Unmatched, Waiting
  <2>2. PICK g \in On("ans") : g.kind = "E" /\ g.seq = h.match
    BY <2>1, WordsOn DEF Peer
  <2>3. /\ a.mode = "data" \/ a.state = "END"
        /\ h.match = CodeESeq(a.own, a.regs[4])
    BY <2>2 DEF RatesIInv, RatesInv, AnsLine
  <2>4. e # NONE
    BY <1>4, <1>7, <2>3, CommonNone DEF DecodeReg
  <2>5. Final(a)
    BY <2>3, <2>4 DEF Final
  <2>6. h.match = V32_FINAL_RATE_SEQ[e]
    BY <1>4, <2>3, <2>4, CommonKept DEF DecodeReg
  <2>7. h.state # "T"
    BY <1>1, <1>2, <1>3, <2>5 DEF RatesIInv, RatesInv, PairRates, Settling
  <2>8. e = r
    BY <1>1, <1>3, <2>5, <2>7 DEF RatesIInv, RatesInv, PairRates, Settled
  <2>9. common_rate(o.own, V32_FINAL_RATE_SEQ[r]) = r
    BY <1>1, <1>4, CommonKept DEF DecodeReg
  <2> QED
    BY <1>3, <2>6, <2>7, <2>8, <2>9
<1> QED
  BY <1>6, <1>7

\* A detection, in a routine that may step.
LEMMA SteppedListened ==
  ASSUME RatesIInv, NEW s \in Sides, NEW rx, Receiving(s, rx), rx # "Data",
         NEW h, Good(h, Sym), Same(m[s], h),
         h.match = m[s].match \/ h.match \in WordsHeard(s, m[s].det),
         h.status = m[s].status
  PROVE  Listened(s, NextState(h)) /\ NextState(h).data = FALSE
<1> DEFINE k == NextState(h)
<1>1. /\ m[s].mode = s /\ m[s].rx = rx /\ Coded(m[s]) /\ Unmatched(m[s])
      /\ ~Unfit(m[s])
  BY ReceivingFit
<1>2. Coded(h) /\ ~Unfit(h) /\ Heeded(h) /\ h.mode = s
  BY <1>1, SameCoded, HeardHeeded DEF Same
<1>3. Steady(h)
  BY <1>2 DEF Steady
<1>4. Ready(h, Sym, Sym)
  BY Times DEF Good, Ready
<1>5. Settles(h, k, Sym)
  BY <1>3, <1>4, NextStateSettles
<1>6. Good(k, Sym) /\ k.mode = s
  BY <1>2, <1>4, NextStateGood
<1>7. h.own = m[s].own /\ h.state = m[s].state /\ h.regs = m[s].regs
  BY DEF Same
<1> HIDE DEF k
<1>8. k.own = m[s].own
  BY <1>5, <1>7 DEF Settles, Moved, OrgMoved, AnsMoved
<1>p. k.data = FALSE => (k.status \in ConnectCodes => k.status = m[s].status)
  <2>1. k.data = TRUE \/ k.status \in {m[s].status, 15, 22, 23}
    BY <1>5 DEF Settles, Moved, Posts
  <2>2. 15 \notin ConnectCodes /\ 22 \notin ConnectCodes /\ 23 \notin ConnectCodes
    BY DEF ConnectCodes
  <2> QED
    BY <2>1, <2>2
<1>9. CASE s = "org"
  <2>1. OrgMoved(h, k)
    BY <1>2, <1>5, <1>9 DEF Settles, Moved
  <2>2. /\ h.state = "R" => h.match = {} \/ h.match \in WordsHeard("org", "R")
        /\ h.state = "U" => h.match = {} \/ h.match \in WordsHeard("org", "E")
    BY <1>1, <1>7, <1>9 DEF Unmatched, Waiting, Coded, OrgCoded
  <2>v. h.state \notin {"V", "ERROR"} /\ h.txr = m[s].txr
    BY <1>1, <1>7, <1>9 DEF Coded, OrgCoded, Unfit, Same
  <2>3. OrgHeard(m[s], k)
    BY <1>7, <2>1, <2>2, <2>v DEF OrgHeard, OrgMoved
  <2>4. k.data = FALSE
    <3>1. h.state # "V"
      BY <2>v
    <3>2. k.data \in BOOLEAN /\ (k.data = TRUE => k.state \in {"V", "ERROR"})
      BY <1>6, <1>9 DEF Good, Ctx, Counted, Placed
    <3>3. k.state = "ERROR" => k.data = FALSE
      BY <1>5 DEF Settles, Unfit, Doomed, Failing
    <3>4. k.state = "V" => k.data = h.data /\ h.state = "U"
      BY <2>1, <3>1 DEF OrgMoved
    <3>5. h.state = "U" => h.data = FALSE
      BY <1>9, <1>2 DEF Good, Ctx, Counted, Placed
    <3> QED
      BY <3>2, <3>3, <3>4, <3>5
  <2>5. k.status \in ConnectCodes => k.status = m[s].status
    BY <1>p, <2>4
  <2> QED
    BY <1>5, <1>6, <1>8, <1>9, <2>3, <2>4, <2>5 DEF Listened, Settles, k
<1>10. CASE s = "ans"
  <2>1. AnsMoved(h, k)
    BY <1>2, <1>5, <1>10 DEF Settles, Moved
  <2>2. h.state = "X2" => h.match = {} \/ h.match \in WordsHeard("ans", "E")
    BY <1>1, <1>7, <1>10 DEF Unmatched, Waiting, Coded, AnsCoded
  <2>3. h.state \notin {"Z", "END"}
    BY <1>1, <1>7, <1>10 DEF Coded, AnsCoded
  <2>4. AnsHeard(m[s], k)
    BY <1>7, <2>1, <2>2, <2>3 DEF AnsHeard, AnsMoved
  <2>5. k.data = FALSE
    <3>2. k.data \in BOOLEAN /\ (k.data = TRUE => k.state \in {"END", "ERROR"})
      BY <1>6, <1>10 DEF Good, Ctx, Counted, Placed
    <3>3. k.state = "ERROR" => k.data = FALSE
      BY <1>5 DEF Settles, Unfit, Doomed, Failing
    <3>4. k.state # "END"
      BY <2>1, <2>3 DEF AnsMoved
    <3> QED
      BY <3>2, <3>3, <3>4
  <2>6. k.status \in ConnectCodes => k.status = m[s].status
    BY <1>p, <2>5
  <2> QED
    BY <1>5, <1>6, <1>8, <1>10, <2>4, <2>5, <2>6 DEF Listened, Settles, k
<1> QED
  BY <1>9, <1>10 DEF Sides

\* A wait that has lasted too long ends in the state of error.
LEMMA TimedListened ==
  ASSUME RatesIInv, NEW s \in Sides, NEW rx, Receiving(s, rx), rx # "Data",
         NEW h, Ctx(h), Listened(s, h), h.data = FALSE, NEW st \in ErrorCodes
  PROVE  Listened(s, Timed(h, st))
<1> DEFINE k == Fail(h, st)
<1>1. /\ k.mode = h.mode /\ k.own = h.own /\ k.gen = h.gen /\ k.state = "ERROR"
      /\ k.status = st /\ k.data = h.data /\ k.txr = h.txr
  BY DEF Fail, Ctx, Fields
<1> HIDE DEF k
<1>2. Coded(k)
  BY <1>1 DEF Listened, Coded, OrgCoded, AnsCoded
<1>3. Unmatched(k) /\ Doomed(k, Sym)
  BY <1>1 DEF Unmatched, Waiting, Doomed, Failing, ErrorCodes
<1>4. m[s].state # IF s = "ans" THEN "END" ELSE "V"
  BY ReceivingFit DEF Coded, AnsCoded, OrgCoded, Sides
<1>5. IF s = "org" THEN OrgHeard(m[s], k) ELSE AnsHeard(m[s], k)
  BY <1>1, <1>4 DEF Sides, OrgHeard, AnsHeard, Listened
<1>6. st \notin ConnectCodes
  BY DEF ErrorCodes, ConnectCodes
<1>7. Listened(s, k)
  BY <1>1, <1>2, <1>3, <1>5, <1>6 DEF Listened
<1> QED
  BY <1>7 DEF Timed, k

-----------------------------------------------------------------------------

\* What a station decodes follows its rates and its registers.
LEMMA DecodedSame ==
  ASSUME NEW g, NEW h, NEW i, h.own = g.own, h.regs[i] = g.regs[i]
  PROVE  DecodeReg(h, i) = DecodeReg(g, i)
BY DEF DecodeReg

\* The station whose block it is not keeps what it has settled.
LEMMA OtherRates ==
  ASSUME RatesInv, NEW s \in Sides, NEW t \in Sides, t # s, turn = s, turn' = s,
         m'[t] = m[t], dp'[t] = dp[t]
  PROVE  SideRates(t)'
<1>1. SideRates(t) /\ ~InBlock(t) /\ ~InBlock(t)'
  BY DEF RatesInv, InBlock
<1> QED
  BY <1>1 DEF SideRates

\* The end of a receive routine of the calling station,
LEMMA OrgRxEndRates ==
  ASSUME RatesIInv, NEW rx, Receiving("org", rx), NEW h, Listened("org", h),
         RxEnd("org", h)
  PROVE  RatesInv'
<1> DEFINE o == m["org"]
           a == m["ans"]
<1>1. /\ m'["org"] = h /\ m'["ans"] = a
      /\ turn = "org" /\ turn' = "org" /\ pc = "rx" /\ pc' = "tx"
      /\ budget' = Sym /\ line' = line /\ dp' = dp /\ dp["org"] # "ERROR"
      /\ o.mode = "org" /\ Sym \in Nat
  BY Blocks, ReceivingFit
     DEF RatesIInv, StationIInv, CallInv, Sides, RxEnd, Receiving, Alive
<1>2. /\ h.mode = "org" /\ h.own = o.own /\ Coded(h) /\ Unmatched(h)
      /\ (Unfit(h) => Doomed(h, Sym)) /\ OrgHeard(o, h)
  BY DEF Listened
<1>3. OrgLine /\ AnsLine /\ PairRates /\ o.own \in Rates /\ a.own \in Rates
  BY DEF RatesIInv, RatesInv, Sides, StationIInv, SideInv, Ctx, Rated
<1>4. On("org")' = On("org") /\ On("ans")' = On("ans")
  BY <1>1 DEF On
<1>5. SideRates("org")'
  <2>1. InBlock("org")' /\ Owed("org")' = Sym
    BY <1>1 DEF InBlock, Owed
  <2> QED
    BY <1>1, <1>2, <2>1 DEF SideRates
<1>6. SideRates("ans")'
  BY <1>1, OtherRates DEF Sides, RatesIInv
<1>7. OrgLine'
  <2>1. \A g \in On("org") : g.kind = "E" =>
          o.state = "U" /\ g.seq = CodeESeq(o.own, o.regs[3])
    BY <1>1, <1>3 DEF OrgLine
  <2>2. o.state = "U" => h.state \in {"U", "V", "ERROR"}
    BY <1>2 DEF OrgHeard
  <2>3. o.state = "U" /\ h.state = "U" => h.regs[3] = o.regs[3]
    BY <1>2 DEF OrgHeard
  <2> QED
    BY <1>1, <1>2, <1>4, <2>1, <2>2, <2>3 DEF OrgLine
<1>8. AnsLine'
  BY <1>1, <1>3, <1>4 DEF AnsLine
<1>9. (Shared <=> Shared') \/ h.regs[3] # o.regs[3]
  BY <1>1, <1>2 DEF Shared, DecodeReg
<1>10. ASSUME h.state = "S", DecodeReg(h, 3) # NONE
       PROVE  ~Final(a) /\ Shared'
  <2>1. CASE o.state = "S" /\ h.regs[3] = o.regs[3]
    <3>1. Settling(o)
      BY <1>1, <1>2, <1>10, <2>1, DecodedSame DEF Settling
    <3> QED
      BY <1>3, <1>9, <2>1, <3>1 DEF PairRates
  <2>2. CASE o.state = "R" /\ h.regs[3] = {}
    BY <1>2, <1>3, <1>10, <2>2, CommonNone DEF DecodeReg
  <2>3. CASE o.state = "R" /\ h.regs[3] \in WordsHeard("org", "R")
    <3>1. PICK g \in On("ans") : g.kind = "R" /\ g.seq = h.regs[3]
      BY <2>3, WordsOn DEF Peer
    <3>2. h.regs[3] \subseteq V32_RATE_SEQ[a.own]
      BY <1>3, <3>1 DEF AnsLine
    <3>3. Shared'
      BY <1>1, <1>2, <1>3, <1>10, <3>2, CommonShared DEF Shared, DecodeReg
    <3>4. Fresh("ans") /\ Carries("ans", "R")
      BY <1>1, <3>1 DEF Fresh, Carries, Peer
    <3>5. ~Carries("org", "E")
      BY <1>1, <1>3, <2>3 DEF Carries, OrgLine
    <3> QED
      BY <1>3, <3>3, <3>4, <3>5 DEF PairRates
  <2> QED
    BY <1>2, <1>10, <2>1, <2>2, <2>3 DEF OrgHeard
<1>11. ASSUME h.state = "T", DecodeReg(h, 3) # NONE
       PROVE  ~Final(a) /\ Shared'
  <2>1. o.state \in {"S", "T"} /\ h.regs[3] = o.regs[3]
    BY <1>2, <1>11 DEF OrgHeard
  <2>2. Settling(o)
    BY <1>1, <1>2, <1>11, <2>1, DecodedSame DEF Settling
  <2> QED
    BY <1>3, <1>9, <2>1, <2>2 DEF PairRates
<1>12. ASSUME h.state \in {"U", "V"}, DecodeReg(h, 3) # NONE, Final(a)
       PROVE  DecodeReg(a, 4) = DecodeReg(h, 3)
  <2>1. o.state \in {"T", "U", "V"} /\ h.regs[3] = o.regs[3]
    BY <1>2, <1>12 DEF OrgHeard
  <2>2. DecodeReg(h, 3) = DecodeReg(o, 3)
    BY <1>2, <2>1, DecodedSame
  <2>3. o.state # "T"
    BY <1>1, <1>3, <1>12, <2>2 DEF PairRates, Settling
  <2>4. Settled(o)
    BY <1>12, <2>1, <2>2, <2>3 DEF Settled
  <2> QED
    BY <1>3, <1>12, <2>2, <2>4 DEF PairRates
<1>13. PairRates'
  <2>1. Settling(h) => ~Final(a) /\ Shared'
    BY <1>10, <1>11 DEF Settling
  <2>2. Settled(h) /\ Final(a) => DecodeReg(a, 4) = DecodeReg(h, 3)
    BY <1>2, <1>12 DEF Settled
  <2>3. ~Fresh("org")' /\ ~Fresh("ans")'
    BY <1>1 DEF Fresh, Peer
  <2>4. ~(Final(a) /\ a.state = "Y")
    BY <1>1, <1>3 DEF PairRates
  <2> QED
    BY <1>1, <2>1, <2>2, <2>3, <2>4 DEF PairRates
<1> QED
  BY <1>5, <1>6, <1>7, <1>8, <1>13 DEF RatesInv, Sides

\* The rate that the answering station has settled after a receive routine:
\* it had it before, or it is the rate of the E that it hears.
LEMMA FinalHeard ==
  ASSUME RatesIInv, NEW rx, Receiving("ans", rx), NEW h, Listened("ans", h),
         Final(h)
  PROVE  LET o == m["org"]
             a == m["ans"]
         IN \/ Final(a) /\ DecodeReg(h, 4) = DecodeReg(a, 4) /\ h.state # "Y"
            \/ /\ Carries("org", "E") /\ o.mode = "org" /\ o.state = "U"
               /\ DecodeReg(o, 3) # NONE /\ DecodeReg(h, 4) = DecodeReg(o, 3)
<1> DEFINE o == m["org"]
           a == m["ans"]
<1>1. turn = "ans" /\ pc = "rx"
  BY DEF Receiving
<1>2. h.mode = "ans" /\ h.own = a.own /\ AnsHeard(a, h)
  BY DEF Listened
<1>3. OrgLine /\ PairRates /\ o.own \in Rates /\ a.own \in Rates
  BY DEF RatesIInv, RatesInv, Sides, StationIInv, SideInv, Ctx, Rated
<1>4. h.state \in {"Y", "Z", "END"} /\ DecodeReg(h, 4) # NONE
  BY <1>2 DEF Final
<1>5. CASE h.regs[4] = a.regs[4] /\ a.state \in {"Y", "Z", "END"}
  <2>1. DecodeReg(h, 4) = DecodeReg(a, 4)
    BY <1>2, <1>5, DecodedSame
  <2>2. Final(a)
    BY <1>4, <1>5, <2>1 DEF Final
  <2>3. a.state # "Y"
    BY <1>1, <1>3, <2>2 DEF PairRates
  <2>4. h.state # "Y"
    BY <1>2, <1>5, <2>3 DEF AnsHeard
  <2> QED
    BY <2>1, <2>2, <2>4
<1>6. CASE h.regs[4] = {}
  BY <1>2, <1>3, <1>4, <1>6, CommonNone DEF DecodeReg
<1>7. CASE h.regs[4] \in WordsHeard("ans", "E")
  <2>1. PICK g \in On("org") : g.kind = "E" /\ g.seq = h.regs[4]
    BY <1>7, WordsOn DEF Peer
  <2>2. o.mode = "org" /\ o.state = "U" /\ h.regs[4] = CodeESeq(o.own, o.regs[3])
    BY <1>1, <1>3, <2>1 DEF OrgLine
  <2>3. Fresh("org") /\ Carries("org", "E")
    BY <1>1, <2>1 DEF Fresh, Carries, Peer
  <2>4. DecodeReg(o, 3) # NONE
    BY <1>2, <1>3, <1>4, <2>2, CommonNone DEF DecodeReg
  <2>5. Shared
    BY <1>3, <2>3, <2>4 DEF PairRates
  <2>6. h.regs[4] = V32_FINAL_RATE_SEQ[DecodeReg(o, 3)]
    BY <1>3, <2>2, <2>4, CommonKept DEF DecodeReg
  <2>7. DecodeReg(h, 4) = common_rate(a.own, h.regs[4])
    BY <1>2 DEF DecodeReg
  <2>8. DecodeReg(h, 4) = DecodeReg(o, 3)
    BY <2>5, <2>6, <2>7 DEF Shared
  <2> QED
    BY <2>2, <2>3, <2>4, <2>8
<1> QED
  BY <1>2, <1>4, <1>5, <1>6, <1>7 DEF AnsHeard

\* and of the answering station.
LEMMA AnsRxEndRates ==
  ASSUME RatesIInv, NEW rx, Receiving("ans", rx), NEW h, Listened("ans", h),
         RxEnd("ans", h)
  PROVE  RatesInv'
<1> DEFINE o == m["org"]
           a == m["ans"]
<1>1. /\ m'["ans"] = h /\ m'["org"] = o
      /\ turn = "ans" /\ turn' = "ans" /\ pc = "rx" /\ pc' = "tx"
      /\ budget' = Sym /\ line' = line /\ dp' = dp /\ dp["ans"] # "ERROR"
      /\ a.mode = "ans" /\ Sym \in Nat
  BY Blocks, ReceivingFit
     DEF RatesIInv, StationIInv, CallInv, Sides, RxEnd, Receiving, Alive
<1>2. /\ h.mode = "ans" /\ h.own = a.own /\ Coded(h) /\ Unmatched(h)
      /\ (Unfit(h) => Doomed(h, Sym)) /\ AnsHeard(a, h)
  BY DEF Listened
<1>3. OrgLine /\ AnsLine /\ PairRates /\ o.own \in Rates /\ a.own \in Rates
  BY DEF RatesIInv, RatesInv, Sides, StationIInv, SideInv, Ctx, Rated
<1>4. On("org")' = On("org") /\ On("ans")' = On("ans")
  BY <1>1 DEF On
<1>5. SideRates("ans")'
  <2>1. InBlock("ans")' /\ Owed("ans")' = Sym
    BY <1>1 DEF InBlock, Owed
  <2> QED
    BY <1>1, <1>2, <2>1 DEF SideRates
<1>6. SideRates("org")'
  BY <1>1, OtherRates DEF Sides, RatesIInv
<1>7. OrgLine'
  BY <1>1, <1>3, <1>4 DEF OrgLine, InBlock
<1>8. AnsLine'
  <2>1. a.state = "END" => h.state = "END" /\ h.regs[4] = a.regs[4]
    BY <1>2 DEF AnsHeard
  <2> QED
    BY <1>1, <1>2, <1>3, <1>4, <2>1 DEF AnsLine
<1>9. Shared <=> Shared'
  BY <1>1, <1>2 DEF Shared
<1>10. ASSUME Final(h)
       PROVE  \/ Final(a) /\ DecodeReg(h, 4) = DecodeReg(a, 4) /\ h.state # "Y"
              \/ /\ Carries("org", "E") /\ o.state = "U"
                 /\ DecodeReg(h, 4) = DecodeReg(o, 3)
  BY <1>10, FinalHeard
<1>11. PairRates'
  <2>1. Settling(o) => ~Final(h) /\ Shared'
    BY <1>3, <1>9, <1>10 DEF PairRates, Settling
  <2>2. Settled(o) /\ Final(h) => DecodeReg(h, 4) = DecodeReg(o, 3)
    BY <1>3, <1>10 DEF PairRates, Settled
  <2>3. ~Fresh("org")' /\ ~Fresh("ans")'
    BY <1>1 DEF Fresh, Peer
  <2>4. Final(h) /\ h.state = "Y" => Carries("org", "E")
    BY <1>10
  <2>5. Carries("org", "E") <=> Carries("org", "E")'
    BY <1>4 DEF Carries
  <2> QED
    BY <1>1, <2>1, <2>2, <2>3, <2>4, <2>5 DEF PairRates
<1> QED
  BY <1>5, <1>6, <1>7, <1>8, <1>11 DEF RatesInv, Sides

-----------------------------------------------------------------------------

\* A receive routine, with what it leads to.
Received(s) ==
  \E rx, h : Receiving(s, rx) /\ Listened(s, h) /\ RxEnd(s, h)
\* It is one when it ends with what it has heard.
LEMMA RxEndHeard ==
  ASSUME NEW s, NEW rx, Receiving(s, rx), NEW h, Listened(s, h), RxEnd(s, h)
  PROVE  Received(s)
BY DEF Received

\* Fields that settle nothing may change.
LEMMA SameListened ==
  ASSUME NEW s \in Sides, NEW k, Listened(s, k), NEW j, Same(k, j),
         j.match = k.match, j.status = k.status, j.data = k.data
  PROVE  Listened(s, j)
<1>1. Coded(j) /\ (Unfit(j) <=> Unfit(k)) /\ (Waiting(j) <=> Waiting(k))
  BY SameCoded DEF Listened
<1>2. Unmatched(j) /\ (Unfit(j) => Doomed(j, Sym))
  BY <1>1 DEF Listened, Unmatched, Doomed, Failing, Same
<1>3. IF s = "org" THEN OrgHeard(m[s], j) ELSE AnsHeard(m[s], j)
  BY DEF Listened, OrgHeard, AnsHeard, Same
<1> QED
  BY <1>1, <1>2, <1>3 DEF Listened, Same

\* Every receive routine.
LEMMA ReceiveHeard ==
  ASSUME RatesIInv, NEW s \in Sides, Receive(s)
  PROVE  Received(s)
<1>0. Sym \in 0 .. Sym /\ Tad \in Nat /\ Ctx(m[s])
  BY Times, CallAssumption DEF RatesIInv, StationIInv, SideInv
<1>e. /\ 16 \in ErrorCodes /\ 17 \in ErrorCodes /\ 18 \in ErrorCodes
      /\ 19 \in ErrorCodes /\ 20 \in ErrorCodes /\ 21 \in ErrorCodes
  BY DEF ErrorCodes
<1>r. /\ Same(m[s], RxStart(s)) /\ RxStart(s).match = m[s].match
      /\ RxStart(s).data = FALSE /\ RxStart(s).status = m[s].status
  BY <1>0 DEF RxStart, Same, Ctx, Fields
<1>s. ASSUME NEW rx, Receiving(s, rx), rx \notin {"NoSignal", "PhsReversal"}
      PROVE  Good(RxStart(s), Sym)
  BY <1>s, ReceivingGood, StartedGood DEF RxStart, RatesIInv
<1>t. ASSUME NEW rx, Receiving(s, rx), rx # "Data",
             NEW h, Good(h, Sym), Same(m[s], h), h.match = m[s].match,
             h.data = FALSE, h.status = m[s].status, NEW st \in ErrorCodes
      PROVE  /\ Listened(s, Timed(h, st)) /\ Listened(s, Timed(NextState(h), st))
             /\ Listened(s, h)
  <2>1. Listened(s, h) /\ Ctx(h)
    BY <1>t, StayedListened DEF Good
  <2>2. Listened(s, NextState(h)) /\ NextState(h).data = FALSE
    BY <1>t, SteppedListened
  <2>3. Ctx(NextState(h))
    BY <1>0, <1>t, DetectedGood DEF Good
  <2> DEFINE k == NextState(h)
  <2> HIDE DEF k
  <2>4. Listened(s, Timed(k, st))
    BY <1>t, <2>2, <2>3, TimedListened DEF k
  <2>5. Listened(s, Timed(h, st))
    BY <1>t, <2>1, TimedListened
  <2> QED
    BY <2>1, <2>4, <2>5 DEF k
<1>1. CASE RxHdxTone(s)
  BY <1>1, <1>r, <1>s, <1>e, <1>t, RxEndHeard DEF RxHdxTone
<1>2. CASE RxHdxNoSignal(s)
  <2>1. PICK gone \in Possible(ToneGone(s)) :
          LET h == [RxStart(s) EXCEPT !.aa = SatAdd(@, Scaled(95))]
          IN RxEnd(s, Timed(IF gone /\ h.timer > Scaled(60)
                            THEN NextState(h) ELSE h, 17))
    BY <1>2 DEF RxHdxNoSignal
  <2> DEFINE h == [RxStart(s) EXCEPT !.aa = SatAdd(@, Scaled(95))]
             r == Timed(IF gone /\ h.timer > Scaled(60)
                        THEN NextState(h) ELSE h, 17)
  <2>2. Receiving(s, "NoSignal")
    BY <1>2 DEF RxHdxNoSignal
  <2>3. Good(h, Sym)
    BY <2>2, ReceivingGood, StartedNoSignal DEF RxStart, RatesIInv
  <2>4. /\ Same(m[s], h) /\ h.match = m[s].match /\ h.data = FALSE
        /\ h.status = m[s].status
    BY <1>0 DEF RxStart, Same, Ctx, Fields
  <2>5. Listened(s, r)
    <3> HIDE DEF h
    <3> QED
      BY <2>2, <2>3, <2>4, <1>e, <1>t
  <2> HIDE DEF r
  <2> QED
    BY <2>1, <2>2, <2>5, RxEndHeard DEF r
<1>3. CASE RxHdxPhsReversal(s)
  <2> DEFINE h == [RxStart(s) EXCEPT !.a8 = SatAdd(@, Scaled(72))]
             g == [h EXCEPT !.timer = Tad]
             k(rev) == IF h.i90 /\ rev THEN NextState(g) ELSE h
             ac(rev, tone) == IF tone THEN k(rev).ac + 1 ELSE 0
             j(rev, tone) ==
               CASE k(rev).i90 -> k(rev)
                 [] ~k(rev).i90 /\ ac(rev, tone) > 3 ->
                      [k(rev) EXCEPT !.i90 = TRUE, !.ac = 0]
                 [] OTHER -> [k(rev) EXCEPT !.ac = ac(rev, tone)]
  <2>1. PICK rev \in Possible(ReversalHeard(s)), tone \in Possible(ToneHeard(s)) :
          RxEnd(s, Timed(j(rev, tone), 18))
    BY <1>3, Zenon DEF RxHdxPhsReversal
  <2>2. Receiving(s, "PhsReversal")
    BY <1>3 DEF RxHdxPhsReversal
  <2>3. Good(h, Sym)
    BY <2>2, ReceivingGood, StartedPhsReversal DEF RxStart, RatesIInv
  <2>4. /\ Same(m[s], h) /\ h.match = m[s].match /\ h.data = FALSE
        /\ h.status = m[s].status
    BY <1>0 DEF RxStart, Same, Ctx, Fields
  <2>5. /\ Good(g, Sym) /\ Same(m[s], g) /\ g.match = m[s].match
        /\ g.status = m[s].status
    <3> HIDE DEF h
    <3>1. Good(g, Sym)
      BY <2>3, <1>0, TimerGood
    <3> QED
      BY <2>3, <2>4, <3>1 DEF Same, Good, Ctx, Fields
  <2> HIDE DEF h, g
  <2>6. Listened(s, k(rev)) /\ k(rev).data = FALSE /\ Ctx(k(rev))
    <3>1. Listened(s, NextState(g)) /\ NextState(g).data = FALSE
      BY <2>2, <2>5, SteppedListened
    <3>2. Ctx(NextState(g))
      BY <2>5, <1>0, DetectedGood DEF Good
    <3>3. Listened(s, h) /\ Ctx(h)
      BY <2>2, <2>3, <2>4, StayedListened DEF Good
    <3> QED
      BY <2>4, <3>1, <3>2, <3>3
  <2> HIDE DEF k
  <2> DEFINE x(y, z) == [k(rev) EXCEPT !.i90 = y, !.ac = z]
             w(z) == [k(rev) EXCEPT !.ac = z]
  <2>7. ASSUME NEW y, NEW z \in 0 .. 3
        PROVE  /\ Listened(s, x(y, z)) /\ Ctx(x(y, z)) /\ x(y, z).data = FALSE
               /\ Listened(s, w(z)) /\ Ctx(w(z)) /\ w(z).data = FALSE
    <3>1. /\ Same(k(rev), x(y, z)) /\ x(y, z).match = k(rev).match
          /\ x(y, z).status = k(rev).status /\ x(y, z).data = k(rev).data
      BY <2>6 DEF Same, Ctx, Fields
    <3>2. /\ Same(k(rev), w(z)) /\ w(z).match = k(rev).match
          /\ w(z).status = k(rev).status /\ w(z).data = k(rev).data
      BY <2>6 DEF Same, Ctx, Fields
    <3>3. Ctx(x(y, z)) /\ Ctx(w(z))
      BY <2>6 DEF Ctx, Fields, Rated, Counted, Worded
    <3> HIDE DEF x, w
    <3> QED
      BY <2>6, <3>1, <3>2, <3>3, SameListened
  <2>8. /\ Listened(s, j(rev, tone)) /\ Ctx(j(rev, tone))
        /\ j(rev, tone).data = FALSE
    <3>0. k(rev).ac \in 0 .. 3
      BY <2>6 DEF Ctx, Counted
    <3>1. CASE k(rev).i90
      BY <3>1, <2>6
    <3>2. CASE ~k(rev).i90 /\ ac(rev, tone) > 3
      <4>1. j(rev, tone) = x(TRUE, 0)
        BY <3>2
      <4>2. 0 \in 0 .. 3
        OBVIOUS
      <4>3. Listened(s, x(TRUE, 0)) /\ Ctx(x(TRUE, 0)) /\ x(TRUE, 0).data = FALSE
        BY <4>2, <2>7
      <4> HIDE DEF x, j
      <4> QED
        BY <4>1, <4>3
    <3>3. CASE ~k(rev).i90 /\ ~(ac(rev, tone) > 3)
      <4>1. ac(rev, tone) \in 0 .. 3
        BY <3>0, <3>3
      <4>2. j(rev, tone) = w(ac(rev, tone))
        BY <3>3
      <4> HIDE DEF ac, w, j
      <4> QED
        BY <4>1, <4>2, <2>7
    <3> QED
      BY <3>1, <3>2, <3>3
  <2> HIDE DEF j
  <2>9. Listened(s, Timed(j(rev, tone), 18))
    BY <2>2, <2>8, <1>e, TimedListened
  <2> QED
    BY <2>1, <2>2, <2>9, RxEndHeard
<1>w. ASSUME NEW rx, Receiving(s, rx), rx \in {"RateSequence", "Sequence"},
             NEW seq \in WordsHeard(s, m[s].det)
      PROVE  Listened(s, Timed(RxStep(s, RxStart(s), TRUE, seq), 19))
  <2>1. seq \in SUBSET Bits
    BY HeardPieces DEF RatesIInv
  <2> DEFINE k == RxStart(s)
             h == [k EXCEPT !.match = seq]
  <2>2. Good(k, Sym)
    BY <1>w, <1>s
  <2>3. Same(m[s], k) /\ k.status = m[s].status
    BY <1>r
  <2> HIDE DEF k
  <2>4. Good(h, Sym)
    BY <2>1, <2>2, MatchGood
  <2>5. Same(m[s], h) /\ h.match = seq /\ h.status = m[s].status
    BY <2>2, <2>3 DEF Same, Good, Ctx, Fields
  <2>6. RxStep(s, k, TRUE, seq) = NextState(h)
    BY Zenon DEF RxStep
  <2> HIDE DEF h
  <2>7. Listened(s, NextState(h)) /\ NextState(h).data = FALSE
    BY <1>w, <2>4, <2>5, SteppedListened
  <2>8. Ctx(NextState(h))
    BY <1>0, <2>4, DetectedGood DEF Good
  <2> DEFINE n == NextState(h)
  <2> HIDE DEF n
  <2>9. Listened(s, Timed(n, 19))
    BY <1>w, <2>7, <2>8, <1>e, TimedListened DEF n
  <2> QED
    BY <2>6, <2>9 DEF k, n
<1>4. CASE RxHdxRateSequence(s)
  <2>1. Receiving(s, "RateSequence")
    BY <1>4 DEF RxHdxRateSequence
  <2>2. CASE RxEnd(s, Timed(RxStart(s), 19))
    BY <2>1, <2>2, <1>r, <1>s, <1>e, <1>t, RxEndHeard
  <2>3. ASSUME NEW seq \in WordsHeard(s, m[s].det),
               RxEnd(s, Timed(RxStep(s, RxStart(s), TRUE, seq), 19))
        PROVE  Received(s)
    BY <2>1, <2>3, <1>w, RxEndHeard
  <2> QED
    BY <1>4, <2>2, <2>3 DEF RxHdxRateSequence
<1>5. CASE RxHdxSequence(s)
  <2>1. Receiving(s, "Sequence")
    BY <1>5 DEF RxHdxSequence
  <2>2. CASE RxEnd(s, Timed(RxStart(s), 19))
    BY <2>1, <2>2, <1>r, <1>s, <1>e, <1>t, RxEndHeard
  <2>3. ASSUME NEW seq \in WordsHeard(s, m[s].det),
               RxEnd(s, Timed(RxStep(s, RxStart(s), TRUE, seq), 19))
        PROVE  Received(s)
    BY <2>1, <2>3, <1>w, RxEndHeard
  <2> QED
    BY <1>5, <2>2, <2>3 DEF RxHdxSequence
<1>6. CASE RxHdxData(s)
  <2>1. Receiving(s, "Data") /\ RxEnd(s, RxStart(s))
    BY <1>6 DEF RxHdxData
  <2>2. Listened(s, RxStart(s))
    BY <1>r, <2>1, StayedListened
  <2> QED
    BY <2>1, <2>2, RxEndHeard
<1>7. CASE RxHdxNull(s)
  BY <1>7, <1>r, <1>s, <1>e, <1>t, RxEndHeard DEF RxHdxNull
<1>8. CASE RxHdxSTone(s)
  BY <1>8, <1>r, <1>s, <1>e, <1>t, RxEndHeard DEF RxHdxSTone
<1>9. CASE RxHdxEpoch(s)
  BY <1>9, <1>r, <1>s, <1>e, <1>t, RxEndHeard DEF RxHdxEpoch
<1> QED
  BY <1>1, <1>2, <1>3, <1>4, <1>5, <1>6, <1>7, <1>8, <1>9 DEF Receive

\* The end of a receive routine.
LEMMA RxEndRates ==
  ASSUME RatesIInv, NEW s \in Sides, NEW rx, Receiving(s, rx),
         NEW h, Listened(s, h), RxEnd(s, h)
  PROVE  RatesInv'
<1>1. CASE s = "org"
  BY <1>1, OrgRxEndRates
<1>2. CASE s = "ans"
  BY <1>2, AnsRxEndRates
<1> QED
  BY <1>1, <1>2 DEF Sides

\* So every receive routine keeps the rates.
LEMMA ReceiveRates ==
  ASSUME RatesIInv, NEW s \in Sides, Receive(s)
  PROVE  RatesInv'
BY ReceiveHeard, RxEndRates DEF Received

-----------------------------------------------------------------------------

\* The pieces on the line after a transmit routine: those of the block so far
\* and what it has just sent.
LEMMA TxEndOn ==
  ASSUME StationIInv, NEW s \in Sides, NEW sig, NEW h,
         NEW n \in Nat, TxEnd(s, h, sig, n)
  PROVE  /\ \A g \in On(s)' :
              \/ g = sig /\ n > 0
              \/ g \in On(s) /\ (n = 0 \/ budget # Sym)
         /\ \A t \in Sides : t # s => On(t)' = On(t)
<1> DEFINE old == IF budget = Sym THEN << >> ELSE line[s]
           new == IF n = 0 THEN line[s]
                  ELSE IF old # << >> /\ old[Len(old)] = sig THEN old
                  ELSE Append(old, sig)
<1>1. line[s] \in Seq(Pieces) /\ DOMAIN line = Sides
  BY DEF StationIInv, CallInv, SideInv
<1>2. line' = [line EXCEPT ![s] = new]
  BY DEF TxEnd
<1>3. ASSUME NEW i \in 1 .. Len(new)
      PROVE  \/ new[i] = sig /\ n > 0
             \/ new[i] \in On(s) /\ (n = 0 \/ budget # Sym)
  <2>1. CASE n = 0
    BY <1>3, <2>1 DEF On
  <2>2. CASE n > 0 /\ old # << >> /\ old[Len(old)] = sig
    <3>1. budget # Sym
      BY <2>2
    <3> QED
      BY <1>3, <2>2, <3>1 DEF On
  <2>3. CASE n > 0 /\ ~(old # << >> /\ old[Len(old)] = sig)
    <3>1. new = Append(old, sig)
      BY <2>3
    <3>2. old \in Seq(Pieces)
      BY <1>1
    <3> DEFINE app == Append(old, sig)
    <3>3. Len(app) = Len(old) + 1 /\ Len(old) \in Nat
          /\ \A j \in 1 .. Len(app) :
               app[j] = IF j <= Len(old) THEN old[j] ELSE sig
      <4> HIDE DEF old
      <4> QED
        BY <3>2
    <3>4. CASE i <= Len(old)
      <4>1. budget # Sym
        <5>1. ASSUME budget = Sym PROVE FALSE
          <6>1. old = << >>
            BY <5>1
          <6>2. Len(old) = 0
            BY <6>1
          <6> HIDE DEF old, new, app
          <6> QED
            BY <1>3, <3>4, <6>2
        <5> QED
          BY <5>1
      <4>2. new[i] = line[s][i] /\ i \in 1 .. Len(line[s])
        <5>1. old = line[s]
          BY <4>1
        <5> HIDE DEF old, new
        <5> QED
          BY <1>3, <3>1, <3>3, <3>4, <5>1
      <4> QED
        BY <4>1, <4>2 DEF On
    <3>5. CASE ~(i <= Len(old))
      <4> HIDE DEF old, new
      <4> QED
        BY <1>3, <2>3, <3>1, <3>3, <3>5
    <3> QED
      BY <3>4, <3>5
  <2> QED
    BY <2>1, <2>2, <2>3
<1> HIDE DEF new
<1>4. line'[s] = new /\ \A t \in Sides : t # s => line'[t] = line[t]
  BY <1>1, <1>2
<1>5. \A x \in On(s)' : \E i \in 1 .. Len(new) : x = new[i]
  BY <1>4 DEF On
<1>6. \A t \in Sides : t # s => On(t)' = On(t)
  BY <1>4 DEF On
<1> QED
  BY <1>3, <1>5, <1>6

\* A transmit routine has charged the block, and sent n symbols of it; it has
\* not stepped yet.
Kept(g, k) ==
  /\ k.mode = g.mode /\ k.own = g.own /\ k.state = g.state /\ k.tx = g.tx
  /\ k.rx = g.rx /\ k.gen = g.gen /\ k.det = g.det /\ k.regs = g.regs
  /\ k.txr = g.txr /\ k.rxr = g.rxr /\ k.match = g.match
  /\ k.status = g.status /\ k.data = g.data
Charged(g, k, n) ==
  /\ Kept(g, k)
  /\ IF g.tx \in {"Tone", "Null"} THEN n = budget /\ k.left <= g.left
                                  ELSE k.left = g.left - budget
  /\ k.left > 0 => n = budget
\* What can be heard as a word is sent by the routine of words, and E only as
\* the countdown ends.
Sounds(g, sig, n) ==
  sig.kind \in {"R", "E"} =>
    sig = g.gen /\ (sig.kind = "E" => g.tx = "ScrSequence" /\ g.left <= n)

\* A countdown of B1 goes on, or ends with this block and the station with it.
RunDown(g, h) ==
  IF g.left > budget THEN h.left = g.left - budget /\ h.data = g.data
                     ELSE h.data = TRUE

\* Where that leaves the station, the step of its countdown included: no word
\* has been heard meanwhile.
OrgSent(g, h) ==
  /\ h.state = "S" =>
       h.regs[3] = {} \/ (g.state = "S" /\ h.regs[3] = g.regs[3])
  /\ h.state = "T" => g.state \in {"S", "T"} /\ h.regs[3] = g.regs[3]
  /\ h.state = "U" => g.state \in {"T", "U"} /\ h.regs[3] = g.regs[3]
  /\ h.state = "V" => g.state \in {"U", "V"} /\ h.regs[3] = g.regs[3]
  /\ g.state \in {"V", "ERROR"} => h.state = g.state
  /\ g.state = "U" => h.state \in {"U", "V"}
  /\ g.state = "U" /\ g.left > budget =>
       h.state = "U" /\ h.regs[3] = g.regs[3]
  /\ g.state = "U" /\ h.state = "U" => h.left > 0 /\ g.left > budget
  /\ g.state = "T" /\ g.tx = "ScrSequence" /\ g.left <= budget =>
       h.state = "U" /\ h.regs[3] = g.regs[3] /\ h.left = Limit
  /\ g.state = "V" => h.regs[4] = g.regs[4] /\ RunDown(g, h)
  /\ g.state = "U" /\ h.state = "V" => h.regs[4] = {} /\ h.left = Scaled(128)
  /\ g.state \in {"U", "V", "ERROR"} => h.txr = g.txr
AnsSent(g, h) ==
  /\ h.state = "Y" =>
       \/ h.regs[4] = {}
       \/ g.state = "Y" /\ h.regs[4] = g.regs[4] /\ g.left > budget
  /\ h.state = "Z" => g.state \in {"Y", "Z"} /\ h.regs[4] = g.regs[4]
  /\ h.state = "END" => g.state \in {"Z", "END"} /\ h.regs[4] = g.regs[4]
  /\ g.state = "END" => h.state = "END"
  /\ g.state = "Z" /\ g.tx = "ScrSequence" /\ g.left <= budget =>
       h.state = "END" /\ h.regs[4] = g.regs[4]
  /\ g.state = "END" => RunDown(g, h)
  /\ g.state = "Z" /\ h.state = "END" => h.left = Scaled(128)
SentOn(s, h, n) ==
  /\ h.mode = s /\ h.own = m[s].own /\ Coded(h) /\ Unmatched(h)
  /\ Unfit(h) => Doomed(h, budget - n)
  /\ h.status \in ConnectCodes => h.data = TRUE \/ h.status = m[s].status
  /\ h.data = TRUE => m[s].state = IF s = "org" THEN "V" ELSE "END"
  /\ IF s = "org" THEN OrgSent(m[s], h) ELSE AnsSent(m[s], h)

\* Charging a block leaves what a station has settled.
LEMMA KeptCoded ==
  ASSUME NEW g, NEW k, Kept(g, k), g.left \in Int, k.left \in Int,
         k.left <= g.left, Scaled(8) \in Nat
  PROVE  /\ Coded(g) => Coded(k)
         /\ Unfit(k) <=> Unfit(g)
         /\ Unmatched(g) => Unmatched(k)
         /\ DecodeReg(k, 3) = DecodeReg(g, 3) /\ DecodeReg(k, 4) = DecodeReg(g, 4)
<1>1. DecodeReg(k, 3) = DecodeReg(g, 3) /\ DecodeReg(k, 4) = DecodeReg(g, 4)
  BY DEF Kept, DecodeReg
<1>2. OrgCoded(g) => OrgCoded(k)
  BY <1>1 DEF Kept, OrgCoded
<1>3. AnsCoded(g) => AnsCoded(k)
  <2>1. g.state = "Y" /\ g.left <= Scaled(8) => k.left <= Scaled(8)
    OBVIOUS
  <2> QED
    BY <1>1, <2>1 DEF Kept, AnsCoded
<1>4. Coded(g) => Coded(k)
  BY <1>2, <1>3 DEF Kept, Coded
<1>5. (Unfit(k) <=> Unfit(g)) /\ (Unmatched(g) => Unmatched(k))
  BY <1>1 DEF Kept, Unfit, Unmatched, Waiting
<1> QED
  BY <1>1, <1>4, <1>5

\* A station whose transmit routine is called.
LEMMA SendingRates ==
  ASSUME RatesIInv, NEW s \in Sides, turn = s, pc = "tx"
  PROVE  /\ Good(m[s], budget) /\ m[s].mode = s /\ budget \in Nat /\ budget <= Sym
         /\ Sym \in Nat /\ m[s].left \in Int
         /\ Coded(m[s]) /\ Unmatched(m[s])
         /\ Unfit(m[s]) => Doomed(m[s], budget)
<1>1. Good(m[s], budget) /\ m[s].mode = s /\ budget \in 0 .. Sym
  BY SendingGood DEF RatesIInv
<1>2. Sym \in Nat /\ budget \in Nat /\ budget <= Sym
  BY <1>1, Times
<1>3. m[s].left \in Int
  BY <1>1 DEF Good, Ctx, Counted
<1>4. InBlock(s) /\ Owed(s) = budget /\ SideRates(s)
  BY DEF InBlock, Owed, RatesIInv, RatesInv
<1>5. /\ Coded(m[s]) /\ Unmatched(m[s])
      /\ Unfit(m[s]) => Doomed(m[s], budget)
  BY <1>1, <1>4 DEF SideRates
<1> QED
  BY <1>1, <1>2, <1>3, <1>5

-----------------------------------------------------------------------------

\* The step of a countdown.
LEMMA ChargedSent ==
  ASSUME RatesIInv, NEW s \in Sides, turn = s, pc = "tx", NEW n \in Nat,
         n <= budget, NEW k, Ctx(k), Placed(k), Dwelt(k, 0), Charged(m[s], k, n)
  PROVE  SentOn(s, Stepped(k), n)
<1> DEFINE g == m[s]
<1>1. /\ Good(g, budget) /\ g.mode = s /\ budget \in Nat /\ budget <= Sym
      /\ Sym \in Nat /\ g.left \in Int
      /\ Coded(g) /\ Unmatched(g) /\ (Unfit(g) => Doomed(g, budget))
  BY SendingRates
<1>2. k.left \in Int /\ k.left <= g.left /\ Scaled(8) \in Nat
  BY <1>1, Times DEF Ctx, Counted, Charged
<1>3. Kept(g, k)
  BY DEF Charged
<1>4. /\ Coded(k) /\ Unmatched(k) /\ (Unfit(k) <=> Unfit(g))
      /\ DecodeReg(k, 3) = DecodeReg(g, 3) /\ DecodeReg(k, 4) = DecodeReg(g, 4)
  BY <1>1, <1>2, <1>3, KeptCoded
<1>5. /\ g.tx = "ScrSequence" => k.left = g.left - budget
      /\ s = "org" /\ g.state \in {"T", "U", "V"} => g.tx = "ScrSequence"
      /\ s = "ans" /\ g.state \in {"X2", "Y", "Z", "END"} => g.tx = "ScrSequence"
  BY <1>1 DEF Charged, Coded, OrgCoded, AnsCoded
<1>6. /\ k.mode = s /\ k.own = g.own /\ k.state = g.state /\ k.regs = g.regs
      /\ k.txr = g.txr /\ k.status = g.status /\ k.data = g.data
  BY <1>1, <1>3 DEF Kept
<1>d. g.data = TRUE => g.state = IF s = "org" THEN "V" ELSE "END"
  <2>1. g.data = TRUE => g.state \in {IF s = "org" THEN "V" ELSE "END", "ERROR"}
    BY <1>1 DEF Good, Placed
  <2>2. g.state = "ERROR" => g.data = FALSE
    BY <1>1 DEF Unfit, Doomed, Failing
  <2> QED
    BY <2>1, <2>2
<1>7. CASE k.left > 0
  <2>1. Stepped(k) = k /\ n = budget /\ budget - n = 0
    BY <1>1, <1>2, <1>7 DEF Stepped, Charged
  <2>2. Unfit(k) => Doomed(k, 0)
    BY <1>1, <1>3, <1>4, <1>7 DEF Doomed, Failing, Kept
  <2>3. g.tx = "ScrSequence" => g.left > budget
    BY <1>1, <1>5, <1>7
  <2>4. s = "org" => OrgSent(g, k)
    BY <1>5, <1>6, <1>7, <2>3, <1>1 DEF OrgSent, RunDown
  <2>5. s = "ans" => AnsSent(g, k)
    BY <1>5, <1>6, <2>3, <1>1 DEF AnsSent, RunDown
  <2> QED
    BY <1>4, <1>6, <1>d, <2>1, <2>2, <2>4, <2>5 DEF SentOn, Sides
<1>8. CASE k.left <= 0
  <2> DEFINE h == NextState(k)
             b == budget - n
  <2>1. Stepped(k) = h /\ b \in 0 .. Sym /\ 0 \in 0 .. Sym
    BY <1>1, <1>8 DEF Stepped
  <2>2. Ready(k, 0, b)
    BY <1>8, <2>1 DEF Ready
  <2>3. g.tx = "ScrSequence" => g.left <= budget
    BY <1>1, <1>5, <1>8
  <2>4. Heeded(k)
    <3>1. k.mode = "org" /\ k.state \in {"T", "U"} => k.match = {}
      BY <1>4 DEF Unmatched, Waiting
    <3>2. common_rate(k.own, {}) = NONE
      BY CommonNone DEF Ctx, Rated
    <3> QED
      BY <3>1, <3>2 DEF Heeded
  <2>5. Unfit(k) => Failing(k)
    BY <1>1, <1>3, <1>4 DEF Doomed, Failing, Kept
  <2>6. k.state \in {"V", "END"} => ~Unfit(k)
    <3>1. ASSUME k.state \in {"V", "END"}, Unfit(k) PROVE FALSE
      <4>1. g.left > budget
        BY <1>1, <1>4, <1>6, <3>1 DEF Doomed
      <4>2. g.tx = "ScrSequence"
        BY <1>5, <1>6, <3>1 DEF Placed, OrgStates, AnsStates, Unfit, Sides
      <4> QED
        BY <1>1, <2>3, <4>1, <4>2
    <3> QED
      BY <3>1
  <2>7. Steady(k)
    BY <1>4, <2>4, <2>5, <2>6 DEF Steady
  <2>8. Settles(k, h, b) /\ h.mode = s /\ Good(h, b)
    BY <1>6, <2>2, <2>7, NextStateSettles, NextStateGood
  <2> HIDE DEF h, b
  <2>12. h.status \in ConnectCodes => h.data = TRUE \/ h.status = g.status
    <3>1. h.data = TRUE \/ h.status \in {g.status, 15, 22, 23}
      BY <1>6, <2>8 DEF Settles, Moved, Posts
    <3>2. /\ 15 \notin ConnectCodes /\ 22 \notin ConnectCodes
          /\ 23 \notin ConnectCodes
      BY DEF ConnectCodes
    <3> QED
      BY <3>1, <3>2
  <2>9. h.own = g.own
    BY <1>6, <2>8 DEF Settles, Moved, OrgMoved, AnsMoved
  <2>10. s = "org" => OrgSent(g, h)
    <3>1. SUFFICES ASSUME s = "org" PROVE OrgSent(g, h)
      OBVIOUS
    <3>2. OrgMoved(k, h)
      BY <1>6, <2>8, <3>1 DEF Settles, Moved
    <3>3. k.state = "R" => k.match = {}
      BY <1>4, <1>6, <3>1 DEF Unmatched, Waiting
    <3>4. g.state = "V" => RunDown(g, h)
      BY <1>1, <1>5, <1>6, <2>3, <3>1, <3>2 DEF RunDown, OrgMoved
    <3>5. k.state = "U" => k.match = {}
      BY <1>4, <1>6, <3>1 DEF Unmatched, Waiting
    <3>6. g.state = "U" /\ h.state = "V" => h.regs[4] = {} /\ h.left = Scaled(128)
      BY <1>6, <3>2, <3>5 DEF OrgMoved
    <3> QED
      BY <1>1, <1>5, <1>6, <2>3, <3>1, <3>2, <3>3, <3>4, <3>6
         DEF OrgSent, OrgMoved
  <2>11. s = "ans" => AnsSent(g, h)
    <3>1. SUFFICES ASSUME s = "ans" PROVE AnsSent(g, h)
      OBVIOUS
    <3>2. AnsMoved(k, h)
      BY <1>6, <2>8, <3>1 DEF Settles, Moved
    <3>3. k.state = "X2" => k.match = {}
      BY <1>4, <1>6, <3>1 DEF Unmatched, Waiting
    <3>4. g.state = "END" => RunDown(g, h)
      BY <1>1, <1>5, <1>6, <2>3, <3>1, <3>2 DEF RunDown, AnsMoved
    <3> QED
      BY <1>1, <1>5, <1>6, <2>3, <3>1, <3>2, <3>3, <3>4 DEF AnsSent, AnsMoved
  <2>13. h.data = TRUE => g.state = IF s = "org" THEN "V" ELSE "END"
    <3>1. h.data = TRUE => h.state \in {IF s = "org" THEN "V" ELSE "END", "ERROR"}
      BY <2>8 DEF Good, Placed
    <3>2. h.state = "ERROR" => h.data = FALSE
      BY <2>8 DEF Settles, Unfit, Doomed, Failing
    <3>3. CASE s = "org"
      <4>1. OrgMoved(k, h)
        BY <1>6, <2>8, <3>3 DEF Settles, Moved
      <4> QED
        BY <1>6, <1>d, <3>1, <3>2, <3>3, <4>1 DEF OrgMoved
    <3>4. CASE s = "ans"
      <4>1. AnsMoved(k, h)
        BY <1>6, <2>8, <3>4 DEF Settles, Moved
      <4> QED
        BY <1>6, <1>d, <3>1, <3>2, <3>4, <4>1 DEF AnsMoved
    <3> QED
      BY <3>3, <3>4 DEF Sides
  <2>14. h.own = g.own /\ Coded(h) /\ Unmatched(h) /\ (Unfit(h) => Doomed(h, b))
    BY <2>8, <2>9 DEF Settles
  <2> QED
    BY <2>1, <2>8, <2>10, <2>11, <2>12, <2>13, <2>14 DEF SentOn, Sides, h, b
<1> QED
  BY <1>2, <1>7, <1>8

\* The end of a transmit routine of the calling station,
LEMMA OrgTxEndRates ==
  ASSUME RatesIInv, turn = "org", pc = "tx", NEW n \in Nat, n <= budget,
         NEW sig, Sounds(m["org"], sig, n), NEW h, SentOn("org", h, n),
         m["org"].left > budget => n = budget,
         TxEnd("org", h, sig, n)
  PROVE  RatesInv'
<1> DEFINE g == m["org"]
           a == m["ans"]
<1>0. "org" \in Sides /\ "ans" \in Sides
  BY DEF Sides
<1>1. /\ m'["org"] = h /\ m'["ans"] = a /\ turn' = "org" /\ dp' = dp
      /\ budget' = budget - n /\ pc' = IF budget' = 0 THEN "end" ELSE "tx"
  BY <1>0 DEF RatesIInv, StationIInv, CallInv, TxEnd
<1>2. /\ Good(g, budget) /\ g.mode = "org" /\ budget \in Nat /\ budget <= Sym
      /\ Sym \in Nat \ {0} /\ g.left \in Int /\ Coded(g)
  BY <1>0, SendingRates, Times
<1>3. /\ h.mode = "org" /\ h.own = g.own /\ Coded(h) /\ Unmatched(h)
      /\ (Unfit(h) => Doomed(h, budget - n)) /\ OrgSent(g, h)
  BY DEF SentOn
<1>4. OrgLine /\ AnsLine /\ PairRates /\ g.own \in Rates
  BY <1>0 DEF RatesIInv, RatesInv, StationIInv, SideInv, Ctx, Rated
<1>5. /\ \A x \in On("org")' : \/ x = sig /\ n > 0
                               \/ x \in On("org") /\ (n = 0 \/ budget # Sym)
      /\ On("ans")' = On("ans")
  BY <1>0, TxEndOn DEF RatesIInv
<1>6. budget' \in Nat /\ budget' <= Sym
  BY <1>1, <1>2
<1>7. Owed("org")' = budget - n
  BY <1>1, <1>6 DEF Owed
<1>8. SideRates("org")'
  <2>1. InBlock("org")' /\ dp["org"] # "ERROR"
    BY <1>1, <1>0 DEF InBlock, RatesIInv, RatesInv, SideRates
  <2> QED
    BY <1>1, <1>3, <1>7, <2>1 DEF SideRates
<1>9. SideRates("ans")'
  BY <1>0, <1>1, OtherRates DEF RatesIInv
  \* A piece of E is the one that ends T, or one of the block before.
<1>10. ASSUME NEW x \in On("org")', x.kind = "E"
       PROVE  \/ /\ g.state = "T" /\ h.state = "U" /\ h.regs[3] = g.regs[3]
                 /\ h.left = Limit /\ x.seq = CodeESeq(g.own, g.regs[3])
              \/ /\ x \in On("org") /\ g.state = "U" /\ budget < Sym
                 /\ g.left > budget /\ x.seq = CodeESeq(g.own, g.regs[3])
              \/ /\ x \in On("org") /\ n = 0 /\ budget = Sym
                 /\ g.state \in {"U", "V", "ERROR"}
                 /\ g.state = "U" => x.seq = CodeESeq(g.own, g.regs[3])
  <2>1. CASE x = sig /\ n > 0
    <3>1. x = g.gen /\ g.tx = "ScrSequence" /\ g.left <= budget
      BY <1>2, <1>10, <2>1 DEF Sounds
    <3>2. g.state = "T"
      BY <1>2, <1>10, <3>1 DEF Good, Placed, OrgStates
    <3>3. x.seq = CodeESeq(g.own, g.regs[3])
      BY <1>2, <3>1, <3>2 DEF Coded, OrgCoded, Word
    <3> QED
      BY <1>3, <3>1, <3>2, <3>3 DEF OrgSent
  <2>2. CASE x \in On("org") /\ (n = 0 \/ budget # Sym)
    <3>1. InBlock("org") /\ Owed("org") = budget
      BY DEF InBlock, Owed
    <3>2. \/ /\ g.state = "U" /\ (budget < Sym => g.left > budget)
             /\ x.seq = CodeESeq(g.own, g.regs[3])
          \/ budget = Sym /\ g.state \in {"V", "ERROR"}
      BY <1>4, <1>10, <2>2, <3>1 DEF OrgLine
    <3> QED
      BY <1>2, <2>2, <3>2
  <2> QED
    BY <1>5, <1>10, <2>1, <2>2
<1>11. OrgLine'
  <2>1. ASSUME NEW x \in On("org")', x.kind = "E"
        PROVE  \/ /\ h.state = "U" /\ h.left > budget - n
                  /\ x.seq = CodeESeq(h.own, h.regs[3])
               \/ budget - n = Sym /\ h.state \in {"U", "V", "ERROR"}
                  /\ (h.state = "U" => x.seq = CodeESeq(h.own, h.regs[3]))
    <3>1. CASE /\ g.state = "T" /\ h.state = "U" /\ h.regs[3] = g.regs[3]
               /\ h.left = Limit /\ x.seq = CodeESeq(g.own, g.regs[3])
      BY <1>2, <1>3, <3>1, Blocks
    <3>2. CASE /\ x \in On("org") /\ g.state = "U" /\ budget < Sym
               /\ g.left > budget /\ x.seq = CodeESeq(g.own, g.regs[3])
      <4>1. h.state = "U" /\ h.regs[3] = g.regs[3] /\ h.left > 0
        BY <1>3, <3>2 DEF OrgSent
      <4>2. n = budget
        BY <3>2
      <4> QED
        BY <1>2, <1>3, <3>2, <4>1, <4>2
    <3>3. CASE /\ x \in On("org") /\ n = 0 /\ budget = Sym
               /\ g.state \in {"U", "V", "ERROR"}
               /\ g.state = "U" => x.seq = CodeESeq(g.own, g.regs[3])
      <4>1. h.state \in {"U", "V", "ERROR"} /\ (h.state = "U" => g.state = "U")
            /\ (h.state = "U" => h.regs[3] = g.regs[3])
        BY <1>3, <3>3 DEF OrgSent
      <4> QED
        BY <1>2, <1>3, <3>3, <4>1
    <3> QED
      BY <1>10, <2>1, <3>1, <3>2, <3>3
  <2>2. budget - n = Sym => pc' = "tx"
    BY <1>1, <1>2
  <2>3. budget' < Sym \/ budget' = Sym
    BY <1>6, <1>2
  <2> QED
    BY <1>1, <1>2, <1>3, <1>7, <2>1, <2>2, <2>3 DEF OrgLine
<1>12. AnsLine'
  BY <1>1, <1>4, <1>5 DEF AnsLine
<1>13. (Shared <=> Shared') \/ h.regs[3] # g.regs[3]
  BY <1>1, <1>3 DEF Shared, DecodeReg
<1>14. ASSUME Settling(h) PROVE ~Final(a) /\ Shared'
  <2>1. h.regs[3] # {}
    BY <1>3, <1>4, <1>14, CommonNone DEF Settling, DecodeReg
  <2>2. g.state \in {"S", "T"} /\ h.regs[3] = g.regs[3]
    BY <1>3, <1>14, <2>1 DEF Settling, OrgSent
  <2>3. Settling(g)
    BY <1>2, <1>3, <1>14, <2>2, DecodedSame DEF Settling
  <2> QED
    BY <1>4, <1>13, <2>2, <2>3 DEF PairRates
<1>15. ASSUME Settled(h), Final(a) PROVE DecodeReg(a, 4) = DecodeReg(h, 3)
  <2>1. g.state \in {"T", "U", "V"} /\ h.regs[3] = g.regs[3]
    BY <1>3, <1>15 DEF Settled, OrgSent
  <2>2. DecodeReg(h, 3) = DecodeReg(g, 3)
    BY <1>3, <2>1, DecodedSame
  <2>3. g.state # "T"
    BY <1>2, <1>4, <1>15, <2>2 DEF PairRates, Settling, Settled
  <2>4. Settled(g)
    BY <1>15, <2>1, <2>2, <2>3 DEF Settled
  <2> QED
    BY <1>4, <1>15, <2>2, <2>4 DEF PairRates
<1>16. ASSUME Fresh("org")', Carries("org", "E")', DecodeReg(h, 3) # NONE
       PROVE  ~Final(a) /\ Shared'
  <2>1. PICK x \in On("org")' : x.kind = "E"
    BY <1>16 DEF Carries
  <2>2. ~(budget - n = Sym)
    BY <1>1, <1>2, <1>16 DEF Fresh, Peer
  <2>3. CASE g.state = "T" /\ h.regs[3] = g.regs[3]
    <3>1. Settling(g)
      BY <1>2, <1>3, <1>16, <2>3, DecodedSame DEF Settling
    <3> QED
      BY <1>4, <1>13, <2>3, <3>1 DEF PairRates
  <2>4. CASE x \in On("org") /\ g.state = "U" /\ budget < Sym /\ g.left > budget
    <3>1. h.regs[3] = g.regs[3]
      BY <1>3, <2>4 DEF OrgSent
    <3>2. Fresh("org") /\ Carries("org", "E") /\ DecodeReg(g, 3) # NONE
      BY <1>3, <1>16, <2>1, <2>4, <3>1, DecodedSame DEF Fresh, Carries
    <3> QED
      BY <1>4, <1>13, <3>1, <3>2 DEF PairRates
  <2> QED
    BY <1>2, <1>10, <2>1, <2>2, <2>3, <2>4
<1>17. PairRates'
  <2>1. ~Fresh("ans")'
    BY <1>1 DEF Fresh, Peer
  <2>2. ~(Final(a) /\ a.state = "Y")
    BY <1>4 DEF PairRates
  <2> QED
    BY <1>1, <1>14, <1>15, <1>16, <2>1, <2>2 DEF PairRates
<1> QED
  BY <1>8, <1>9, <1>11, <1>12, <1>17 DEF RatesInv, Sides

-----------------------------------------------------------------------------

\* The rate that the answering station has after a transmit routine is the
\* one it had before.
LEMMA FinalSent ==
  ASSUME RatesIInv, turn = "ans", pc = "tx", NEW n, NEW h, SentOn("ans", h, n),
         Final(h)
  PROVE  LET g == m["ans"]
         IN Final(g) /\ DecodeReg(h, 4) = DecodeReg(g, 4) /\ h.state # "Y"
<1> DEFINE g == m["ans"]
<1>1. "ans" \in Sides
  BY DEF Sides
<1>2. /\ Coded(g) /\ g.mode = "ans" /\ budget \in Nat /\ Sym \in Nat
      /\ g.left \in Int /\ Scaled(8) \in Nat /\ Scaled(8) <= Sym
  BY <1>1, SendingRates, Times
<1>3. h.mode = "ans" /\ h.own = g.own /\ AnsSent(g, h)
  BY DEF SentOn
<1>4. PairRates /\ g.own \in Rates
  BY <1>1 DEF RatesIInv, RatesInv, StationIInv, SideInv, Ctx, Rated
<1>5. h.state \in {"Y", "Z", "END"} /\ DecodeReg(h, 4) # NONE
  BY <1>3 DEF Final
<1>6. h.regs[4] # {}
  BY <1>3, <1>4, <1>5, CommonNone DEF DecodeReg
<1>7. g.state \in {"Y", "Z", "END"} /\ h.regs[4] = g.regs[4]
      /\ (h.state = "Y" => g.state = "Y" /\ g.left > budget)
  BY <1>3, <1>5, <1>6 DEF AnsSent
<1>8. DecodeReg(h, 4) = DecodeReg(g, 4)
  BY <1>3, <1>7, DecodedSame
<1>9. Final(g)
  BY <1>5, <1>7, <1>8 DEF Final
<1>10. h.state # "Y"
  <2>1. g.state = "Y" => budget = Sym
    BY <1>4, <1>9 DEF PairRates
  <2>2. g.state = "Y" => g.left <= Scaled(8)
    BY <1>2 DEF Coded, AnsCoded
  <2> QED
    BY <1>2, <1>7, <2>1, <2>2
<1> QED
  BY <1>8, <1>9, <1>10

\* and of the answering station.
LEMMA AnsTxEndRates ==
  ASSUME RatesIInv, turn = "ans", pc = "tx", NEW n \in Nat, n <= budget,
         NEW sig, Sounds(m["ans"], sig, n), NEW h, SentOn("ans", h, n),
         TxEnd("ans", h, sig, n)
  PROVE  RatesInv'
<1> DEFINE g == m["ans"]
           o == m["org"]
<1>0. "org" \in Sides /\ "ans" \in Sides
  BY DEF Sides
<1>1. /\ m'["ans"] = h /\ m'["org"] = o /\ turn' = "ans" /\ dp' = dp
      /\ budget' = budget - n /\ pc' = IF budget' = 0 THEN "end" ELSE "tx"
  BY <1>0 DEF RatesIInv, StationIInv, CallInv, TxEnd
<1>2. /\ Good(g, budget) /\ g.mode = "ans" /\ budget \in Nat /\ budget <= Sym
      /\ Sym \in Nat \ {0} /\ g.left \in Int /\ Coded(g)
  BY <1>0, SendingRates, Times
<1>3. /\ h.mode = "ans" /\ h.own = g.own /\ Coded(h) /\ Unmatched(h)
      /\ (Unfit(h) => Doomed(h, budget - n)) /\ AnsSent(g, h)
  BY DEF SentOn
<1>4. OrgLine /\ AnsLine /\ PairRates /\ g.own \in Rates
  BY <1>0 DEF RatesIInv, RatesInv, StationIInv, SideInv, Ctx, Rated
<1>5. /\ \A x \in On("ans")' : \/ x = sig /\ n > 0
                               \/ x \in On("ans") /\ (n = 0 \/ budget # Sym)
      /\ On("org")' = On("org")
  BY <1>0, TxEndOn DEF RatesIInv
<1>6. budget' \in Nat /\ budget' <= Sym
  BY <1>1, <1>2
<1>7. Owed("ans")' = budget - n
  BY <1>1, <1>6 DEF Owed
<1>8. SideRates("ans")'
  <2>1. InBlock("ans")' /\ dp["ans"] # "ERROR"
    BY <1>1, <1>0 DEF InBlock, RatesIInv, RatesInv, SideRates
  <2> QED
    BY <1>1, <1>3, <1>7, <2>1 DEF SideRates
<1>9. SideRates("org")'
  BY <1>0, <1>1, OtherRates DEF RatesIInv
<1>10. OrgLine'
  BY <1>1, <1>4, <1>5 DEF OrgLine, InBlock
<1>11. ASSUME NEW x \in On("ans")'
       PROVE  /\ x.kind = "E" =>
                   /\ h.state = "END"
                   /\ x.seq = CodeESeq(h.own, h.regs[4])
              /\ x.kind = "R" => x.seq \subseteq V32_RATE_SEQ[h.own]
  <2>1. CASE x = sig /\ n > 0
    <3>1. ASSUME x.kind = "E"
          PROVE  h.state = "END" /\ x.seq = CodeESeq(h.own, h.regs[4])
      <4>1. x = g.gen /\ g.tx = "ScrSequence" /\ g.left <= budget
        BY <1>2, <2>1, <3>1 DEF Sounds
      <4>2. g.state = "Z"
        BY <1>2, <3>1, <4>1 DEF Coded, AnsCoded, Good, Placed
      <4>3. x.seq = CodeESeq(g.own, g.regs[4])
        BY <1>2, <4>1, <4>2 DEF Coded, AnsCoded, Word
      <4> QED
        BY <1>3, <4>1, <4>2, <4>3 DEF AnsSent
    <3>2. ASSUME x.kind = "R" PROVE x.seq \subseteq V32_RATE_SEQ[h.own]
      <4>1. x = g.gen
        BY <2>1, <3>2 DEF Sounds
      <4> QED
        BY <1>2, <1>3, <3>2, <4>1 DEF Coded, AnsCoded
    <3> QED
      BY <3>1, <3>2
  <2>2. CASE x \in On("ans")
    <3>1. /\ x.kind = "E" =>
               g.state = "END" /\ x.seq = CodeESeq(g.own, g.regs[4])
          /\ x.kind = "R" => x.seq \subseteq V32_RATE_SEQ[g.own]
      BY <1>2, <1>4, <2>2 DEF AnsLine
    <3>2. g.state = "END" => h.state = "END" /\ h.regs[4] = g.regs[4]
      BY <1>3 DEF AnsSent
    <3> QED
      BY <1>3, <3>1, <3>2
  <2> QED
    BY <1>5, <1>11, <2>1, <2>2
<1>12. AnsLine'
  BY <1>1, <1>11 DEF AnsLine
<1>13. Shared <=> Shared'
  BY <1>1, <1>3 DEF Shared
<1>14. ASSUME Final(h)
       PROVE  /\ Final(g) /\ DecodeReg(h, 4) = DecodeReg(g, 4)
              /\ h.state # "Y"
  BY <1>14, FinalSent
<1>15. ASSUME Fresh("ans")', Carries("ans", "R")', Final(h)
       PROVE  Carries("org", "E")
  <2>1. PICK x \in On("ans")' : x.kind = "R"
    BY <1>15 DEF Carries
  <2>2. CASE x = sig /\ n > 0
    <3>1. g.gen.kind = "R"
      BY <2>1, <2>2 DEF Sounds
    <3>2. g.state \in {"Y", "Z", "END"}
      BY <1>2, <1>14, <1>15 DEF Final
    <3>3. g.state = "Y"
      BY <1>2, <3>1, <3>2 DEF Coded, AnsCoded, Word
    <3> QED
      BY <1>4, <1>14, <1>15, <3>3 DEF PairRates
  <2>3. CASE x \in On("ans") /\ (n = 0 \/ budget # Sym)
    <3>1. ~(budget - n = Sym)
      BY <1>1, <1>2, <1>15 DEF Fresh, Peer
    <3>2. budget < Sym
      BY <1>2, <2>3, <3>1
    <3>3. Fresh("ans") /\ Carries("ans", "R")
      BY <2>1, <2>3, <3>2 DEF Fresh, Carries
    <3> QED
      BY <1>4, <1>14, <1>15, <3>3 DEF PairRates
  <2> QED
    BY <1>5, <2>1, <2>2, <2>3
<1>16. PairRates'
  <2>1. ~Fresh("org")'
    BY <1>1 DEF Fresh, Peer
  <2>2. Settling(o) => ~Final(h) /\ Shared'
    BY <1>4, <1>13, <1>14 DEF PairRates
  <2>3. Settled(o) /\ Final(h) => DecodeReg(h, 4) = DecodeReg(o, 3)
    BY <1>4, <1>14 DEF PairRates
  <2>4. Carries("org", "E") <=> Carries("org", "E")'
    BY <1>5 DEF Carries
  <2> QED
    BY <1>1, <1>14, <1>15, <2>1, <2>2, <2>3, <2>4 DEF PairRates
<1> QED
  BY <1>8, <1>9, <1>10, <1>12, <1>16 DEF RatesInv, Sides

\* A transmit routine that charges the block and steps.
Transmitted(s) ==
  /\ turn = s /\ pc = "tx"
  /\ \E n \in Nat : \E sig, h :
       /\ n <= budget /\ Sounds(m[s], sig, n) /\ SentOn(s, h, n)
       /\ m[s].left > budget => n = budget
       /\ TxEnd(s, h, sig, n)
\* It is one when it ends with what it has charged and sent.
LEMMA TxEndSent ==
  ASSUME RatesIInv, NEW s \in Sides, turn = s, pc = "tx", NEW n \in Nat,
         n <= budget, NEW sig, Sounds(m[s], sig, n),
         NEW k, Ctx(k), Placed(k), Dwelt(k, 0), Charged(m[s], k, n),
         TxEnd(s, Stepped(k), sig, n)
  PROVE  Transmitted(s)
<1> DEFINE h == Stepped(k)
<1>1. SentOn(s, h, n)
  BY ChargedSent
<1>2. m[s].left > budget => n = budget
  <2>1. budget \in Nat /\ m[s].left \in Int
    BY SendingRates
  <2> QED
    BY <2>1 DEF Charged
<1> HIDE DEF h
<1>3. TxEnd(s, h, sig, n)
  BY DEF h
<1> QED
  BY <1>1, <1>2, <1>3 DEF Transmitted

-----------------------------------------------------------------------------

\* TxHdxTone and TxHdxNull.
LEMMA WholeBlockSent ==
  ASSUME RatesIInv, NEW s \in Sides, turn = s, pc = "tx",
         m[s].tx \in {"Tone", "Null"}, NEW sig, sig.kind \notin {"R", "E"},
         WholeBlock(s, sig)
  PROVE  Transmitted(s)
<1> DEFINE k == [m[s] EXCEPT !.left = @ - m[s].charge]
<1>1. /\ Good(m[s], budget) /\ m[s].mode = s /\ budget \in Nat
      /\ m[s].left \in Int
  BY SendingRates
<1>2. Ctx(k)
  BY <1>1 DEF Good, Ctx, Fields, Rated, Counted, Worded
<1>3. Placed(k)
  BY <1>1 DEF Good, Ctx, Fields, Placed
<1>4. Dwelt(k, 0)
  BY <1>1 DEF Good, Ctx, Fields, Placed, Dwelt
<1>5. Charged(m[s], k, budget)
  BY <1>1 DEF Charged, Kept, Good, Ctx, Counted, Fields
<1>6. Sounds(m[s], sig, budget)
  BY DEF Sounds
<1> HIDE DEF k
<1>7. TxEnd(s, Stepped(k), sig, budget)
  BY DEF WholeBlock, k
<1> QED
  BY <1>1, <1>2, <1>3, <1>4, <1>5, <1>6, <1>7, TxEndSent

\* The routines that charge the symbols they were offered.
LEMMA SendSymbolsSent ==
  ASSUME RatesIInv, NEW s \in Sides, turn = s, pc = "tx",
         m[s].tx \notin {"Tone", "Null"},
         NEW h, Ctx(h), Placed(h), Dwelt(h, budget), Kept(m[s], h),
         h.left = m[s].left,
         NEW n \in Nat, n <= budget, m[s].left > budget => n = budget,
         NEW sig, Sounds(m[s], sig, n), SendSymbols(s, h, n, sig)
  PROVE  Transmitted(s)
<1> DEFINE k == [h EXCEPT !.left = @ - budget]
<1>1. budget \in Nat /\ m[s].left \in Int
  BY SendingRates
<1>2. Ctx(k)
  BY <1>1 DEF Ctx, Fields, Rated, Counted, Worded
<1>3. Placed(k)
  BY DEF Ctx, Fields, Placed
<1>4. Dwelt(k, 0)
  BY <1>1, Times DEF Ctx, Fields, Counted, Dwelt
<1>5. Kept(m[s], k) /\ k.left = m[s].left - budget
  BY DEF Kept, Ctx, Fields
<1> HIDE DEF k
<1>6. Charged(m[s], k, n)
  BY <1>1, <1>5 DEF Charged
<1>7. TxEnd(s, Stepped(k), sig, n)
  BY DEF SendSymbols, k
<1> QED
  BY <1>2, <1>3, <1>4, <1>6, <1>7, TxEndSent

\* TxHdxCarrierState, TxHdxTRN and TxHdxScrSequence.
LEMMA CountingSent ==
  ASSUME RatesIInv, NEW s \in Sides, turn = s, pc = "tx",
         m[s].tx \in Counting, Count(s) <= budget,
         \/ m[s].tx # "ScrSequence" /\ SendSymbols(s, m[s], Count(s), m[s].gen)
         \/ /\ m[s].tx = "ScrSequence"
            /\ SendSymbols(s, Sent(m[s], Count(s)), Count(s),
                           Audible(m[s], Count(s)))
  PROVE  Transmitted(s)
<1>1. /\ Good(m[s], budget) /\ m[s].mode = s /\ budget \in Nat
      /\ m[s].left \in Int /\ Coded(m[s])
  BY SendingRates
<1>2. Count(s) \in Nat /\ (m[s].left > budget => Count(s) = budget)
  BY CountKnown DEF RatesIInv
<1>3. m[s].gen.kind = "E" => m[s].state \in {"T", "Z"} /\ m[s].tx = "ScrSequence"
  <2>1. m[s].gen.kind = "E" => m[s].state \in {"T", "Z"}
    BY <1>1 DEF Good, Placed, Counting
  <2>2. CASE s = "org"
    BY <1>1, <2>1, <2>2 DEF Good, Placed, OrgStates, Coded, OrgCoded
  <2>3. CASE s = "ans"
    BY <1>1, <2>1, <2>3 DEF Coded, AnsCoded
  <2> QED
    BY <2>1, <2>2, <2>3 DEF Sides
<1>4. m[s].tx \notin {"Tone", "Null"}
  BY DEF Counting
<1>5. CASE m[s].tx # "ScrSequence" /\ SendSymbols(s, m[s], Count(s), m[s].gen)
  <2>1. Sounds(m[s], m[s].gen, Count(s))
    BY <1>3, <1>5 DEF Sounds
  <2>2. Kept(m[s], m[s])
    BY DEF Kept
  <2> QED
    BY <1>1, <1>2, <1>4, <1>5, <2>1, <2>2, SendSymbolsSent DEF Good
<1>6. CASE /\ m[s].tx = "ScrSequence"
           /\ SendSymbols(s, Sent(m[s], Count(s)), Count(s),
                          Audible(m[s], Count(s)))
  <2> DEFINE n == Count(s)
             h == Sent(m[s], n)
             sig == Audible(m[s], n)
  <2>0. n \in Nat /\ n <= budget /\ (m[s].left > budget => n = budget)
    BY <1>2
  <2> HIDE DEF n
  <2>1. ASSUME sig.kind \in {"R", "E"}
        PROVE  sig = m[s].gen /\ (sig.kind = "E" => m[s].left <= n)
    <3>1. sig = m[s].gen
      BY <2>1 DEF Audible, Gen
    <3>2. ASSUME sig.kind = "E" PROVE m[s].left <= n
      <4>1. m[s].esent + n = Scaled(8)
        BY <3>1, <3>2 DEF Audible, Gen
      <4>2. m[s].esent + m[s].left <= Scaled(8)
        BY <1>1, <1>3, <3>1, <3>2 DEF Good, Unsent
      <4>3. m[s].esent \in Nat /\ Scaled(8) \in Nat
        BY <1>1, Times DEF Good, Ctx, Worded
      <4> HIDE DEF sig
      <4> QED
        BY <1>1, <2>0, <4>1, <4>2, <4>3
    <3> QED
      BY <3>1, <3>2
  <2> HIDE DEF sig
  <2>2. Sounds(m[s], sig, n)
    BY <1>6, <2>1 DEF Sounds
  <2>3. Kept(m[s], h) /\ h.left = m[s].left
    BY <1>1 DEF Sent, Kept, Good, Ctx, Fields
  <2>4. Ctx(h)
    <3>1. (m[s].rmod + n) % Scaled(8) \in 0 .. Scaled(8) - 1
      BY <1>1, <2>0, Times DEF Good, Ctx, Worded
    <3>2. m[s].gen.kind = "E" => m[s].esent + n \in 0 .. Scaled(8)
      <4>1. ASSUME m[s].gen.kind = "E" PROVE n <= m[s].left
        <5>1. m[s].left >= 0
          BY <1>1, <1>3, <4>1 DEF Good, Rested, Counting
        <5> QED
          BY <1>1, <2>0, <5>1, CountKnown DEF n, RatesIInv
      <4>2. m[s].gen.kind = "E" => m[s].esent + m[s].left <= Scaled(8)
        BY <1>1, <1>3 DEF Good, Unsent
      <4> QED
        BY <1>1, <2>0, <4>1, <4>2, Times DEF Good, Ctx, Worded
    <3> QED
      BY <1>1, <3>1, <3>2 DEF Sent, Good, Ctx, Fields, Rated, Counted, Worded
  <2>5. Placed(h)
    BY <1>1 DEF Sent, Good, Ctx, Fields, Placed
  <2>6. Dwelt(h, budget)
    BY <1>1 DEF Sent, Good, Ctx, Fields, Dwelt
  <2>7. SendSymbols(s, h, n, sig)
    BY <1>6 DEF n, sig
  <2> HIDE DEF h
  <2> QED
    BY <1>4, <2>0, <2>2, <2>3, <2>4, <2>5, <2>6, <2>7, SendSymbolsSent
<1> QED
  BY <1>5, <1>6

\* A routine asked for too many symbols: in a state that settles nothing.
LEMMA OverrunRates ==
  ASSUME RatesIInv, NEW s \in Sides, TxHdxOverrun(s)
  PROVE  RatesInv'
<1>1. /\ turn = s /\ pc = "tx" /\ pc' = "end" /\ budget' = 0
      /\ UNCHANGED << m, dp, line, turn >>
      /\ overrun'[s] = TRUE
  BY DEF TxHdxOverrun, RatesIInv, StationIInv, CallInv
<1>2. m[s].mode = s
  BY <1>1, SendingRates
<1>3. m[s].state = IF s = "ans" THEN "C" ELSE "P"
  <2>1. SideInv(s)'
    BY OverrunKeeps DEF RatesIInv, StationIInv
  <2> QED
    BY <1>1, <2>1 DEF SideInv
<1>4. On("org")' = On("org") /\ On("ans")' = On("ans")
  BY <1>1 DEF On
<1>5. OrgLine /\ AnsLine /\ PairRates
  BY DEF RatesIInv, RatesInv
<1>6. ASSUME NEW t \in Sides PROVE SideRates(t)'
  <2>1. CASE t = s
    <3>1. ~Unfit(m[s])
      BY <1>2, <1>3, <2>1 DEF Unfit, Sides
    <3>2. InBlock(s) /\ InBlock(s)'
      BY <1>1 DEF InBlock
    <3> QED
      BY <1>1, <2>1, <3>1, <3>2 DEF RatesIInv, RatesInv, SideRates
  <2>2. CASE t # s
    BY <1>1, <2>2, OtherRates DEF RatesIInv
  <2> QED
    BY <2>1, <2>2
<1>7. OrgLine'
  BY <1>1, <1>3, <1>4, <1>5 DEF OrgLine, InBlock, Sides
<1>8. AnsLine'
  BY <1>1, <1>4, <1>5 DEF AnsLine
<1>9. PairRates'
  <2>1. s = "org" => ~Carries("org", "E")
    BY <1>3, <1>5 DEF Carries, OrgLine
  <2>2. s = "ans" => ~Final(m["ans"])
    BY <1>2, <1>3 DEF Final
  <2>3. (Carries("org", "E") <=> Carries("org", "E")') /\ (Shared <=> Shared')
    BY <1>1, <1>4 DEF Carries, Shared
  <2>4. (s = "org" => ~Fresh("ans")') /\ (s = "ans" => ~Fresh("org")')
    BY <1>1 DEF Fresh, Peer
  <2>5. Final(m["ans"]) => m["ans"].state # "Y"
    BY <1>1, <1>3, <1>5, <2>2 DEF PairRates, Sides
  <2>6. m' = m
    BY <1>1
  <2> QED
    BY <1>5, <2>1, <2>2, <2>3, <2>4, <2>5, <2>6 DEF PairRates, Sides
<1> QED
  BY <1>6, <1>7, <1>8, <1>9 DEF RatesInv

\* Every transmit routine.
LEMMA TransmitSent ==
  ASSUME RatesIInv, NEW s \in Sides, Transmit(s)
  PROVE  Transmitted(s) \/ TxHdxOverrun(s)
<1>0. /\ Gen("silence").kind \notin {"R", "E"} /\ Gen("ANS").kind \notin {"R", "E"}
  BY DEF Gen
<1>1. CASE TxHdxTone(s)
  <2> DEFINE sig == IF m[s].tone = 2100 THEN Gen("ANS") ELSE Gen("silence")
  <2>1. sig.kind \notin {"R", "E"}
    BY <1>0
  <2>2. turn = s /\ pc = "tx" /\ m[s].tx = "Tone" /\ WholeBlock(s, sig)
    BY <1>1 DEF TxHdxTone, Sending
  <2> HIDE DEF sig
  <2> QED
    BY <2>1, <2>2, WholeBlockSent
<1>2. CASE TxHdxNull(s)
  BY <1>0, <1>2, WholeBlockSent DEF TxHdxNull, Sending
<1>3. CASE TxHdxCarrierState(s)
  BY <1>3, CountingSent DEF TxHdxCarrierState, Sending, Counting
<1>4. CASE TxHdxScrSequence(s)
  BY <1>4, CountingSent DEF TxHdxScrSequence, Sending, Counting
<1>5. CASE TxHdxTRN(s)
  BY <1>5, CountingSent DEF TxHdxTRN, Sending, Counting
<1>s. \A n : Sounds(m[s], Gen("silence"), n)
  BY <1>0 DEF Sounds
<1>u. ASSUME turn = s, pc = "tx"
      PROVE  /\ Ctx(m[s]) /\ Placed(m[s]) /\ Dwelt(m[s], budget)
             /\ Kept(m[s], m[s]) /\ budget \in Nat /\ budget <= budget
             /\ Count(s) \in Nat /\ m[s].left \in Int
             /\ m[s].left > budget => Count(s) = budget
             /\ m[s].left \in 0 .. budget => Count(s) <= budget
  <2>1. Good(m[s], budget) /\ budget \in Nat /\ m[s].left \in Int
    BY <1>u, SendingRates
  <2>2. Kept(m[s], m[s])
    BY DEF Kept
  <2> QED
    BY <1>u, <2>1, <2>2, CountKnown DEF Good, RatesIInv
<1>6. CASE TxHdxNoCarrier(s)
  <2> DEFINE n == IF m[s].left <= 0 THEN 0 ELSE Count(s)
  <2>1. turn = s /\ pc = "tx" /\ m[s].tx = "NoCarrier"
    BY <1>6 DEF TxHdxNoCarrier, Sending
  <2>2. n \in Nat /\ n <= budget /\ (m[s].left > budget => n = budget)
    BY <2>1, <1>u
  <2>3. SendSymbols(s, m[s], n, Gen("silence"))
    BY <1>6 DEF TxHdxNoCarrier
  <2> HIDE DEF n
  <2> QED
    BY <2>1, <2>2, <2>3, <1>s, <1>u, SendSymbolsSent
<1>7. CASE TxHdxFinishFrame(s)
  <2>1. turn = s /\ pc = "tx" /\ m[s].tx = "FinishFrame"
    BY <1>7 DEF TxHdxFinishFrame, Sending
  <2>2. SendSymbols(s, m[s], budget, Gen("silence"))
    BY <1>7 DEF TxHdxFinishFrame
  <2> QED
    BY <2>1, <2>2, <1>s, <1>u, SendSymbolsSent
<1> QED
  BY <1>1, <1>2, <1>3, <1>4, <1>5, <1>6, <1>7 DEF Transmit

\* So every transmit routine keeps the rates.
LEMMA TransmitRates ==
  ASSUME RatesIInv, NEW s \in Sides, Transmit(s)
  PROVE  RatesInv'
<1>1. CASE Transmitted(s)
  <2>1. turn = s /\ pc = "tx"
    BY <1>1 DEF Transmitted
  <2>2. PICK n \in Nat : \E sig, h :
          /\ n <= budget /\ Sounds(m[s], sig, n) /\ SentOn(s, h, n)
          /\ m[s].left > budget => n = budget
          /\ TxEnd(s, h, sig, n)
    BY <1>1 DEF Transmitted
  <2>3. PICK sig, h :
          /\ n <= budget /\ Sounds(m[s], sig, n) /\ SentOn(s, h, n)
          /\ m[s].left > budget => n = budget
          /\ TxEnd(s, h, sig, n)
    BY <2>2
  <2>4. CASE s = "org"
    BY <2>1, <2>3, <2>4, OrgTxEndRates
  <2>5. CASE s = "ans"
    BY <2>1, <2>3, <2>5, AnsTxEndRates
  <2> QED
    BY <2>4, <2>5 DEF Sides
<1>2. CASE TxHdxOverrun(s)
  BY <1>2, OverrunRates
<1> QED
  BY <1>1, <1>2, TransmitSent

-----------------------------------------------------------------------------

\* A retrain starts before the rates.
Restarted(s, k) ==
  /\ Ctx(k) /\ k.mode = s /\ k.state = "B2" /\ k.status = 11
  /\ k.gen.kind \notin {"R", "E", "B1"}
\* V32FP_control leaves it there.
LEMMA RetrainedFresh ==
  ASSUME NEW s \in Sides, NEW h, Ctx(h), NEW opt, NEW fallback
  PROVE  Restarted(s, Retrained(h, s, opt, fallback))
<1> DEFINE own == IF fallback THEN Fallback(h.own, h.rxr) ELSE h.own
           cfg == [own |-> own, named |-> IF own = h.own THEN h.named ELSE own]
           c == [Created(s, cfg, opt) EXCEPT
                   !.state = "B",
                   !.timer = IF s = "org" THEN Scaled(2400) ELSE 0]
           k == NextState(c)
           r == [k EXCEPT !.carrier = TRUE, !.status = 11]
<1>1. Retrained(h, s, opt, fallback) = r
  BY Zenon DEF Retrained, r, k, c, cfg, own
<1>2. Ctx(r) /\ r.mode = s
  <2> HIDE DEF r
  <2>1. Good(Retrained(h, s, opt, fallback), 0)
        /\ Retrained(h, s, opt, fallback).mode = s
    BY RetrainedGood
  <2> QED
    BY <1>1, <2>1 DEF Good
<1>3. DOMAIN c = Fields /\ c.mode = s /\ c.state = "B"
  BY DEF Created, Fields
<1>4. s = "org" => c.timer > Scaled(2399)
  <2>1. s = "org" => c.timer = Scaled(2400)
    BY DEF Created
  <2>2. Scaled(2400) > Scaled(2399)
    BY V32Assumption, Times DEF Durations
  <2> HIDE DEF c
  <2> QED
    BY <2>1, <2>2
<1>5. Scaled(2399) \in Nat /\ (s = "org" => c.timer \in Nat)
  <2>1. Scaled(2399) \in Nat /\ Scaled(2400) \in Nat
    BY Times DEF Durations
  <2>2. s = "org" => c.timer = Scaled(2400)
    BY DEF Created
  <2> HIDE DEF c
  <2> QED
    BY <2>1, <2>2
<1> HIDE DEF c
<1>6. /\ DOMAIN k = Fields /\ k.state = "B2"
      /\ k.gen.kind \notin {"R", "E", "B1"}
  <2>1. CASE s = "org"
    <3>1. k = OrgRanging(c)
      BY <1>3, <2>1 DEF NextState, OrgNextState
    <3>2. ~(c.timer <= Scaled(2399))
      BY <1>4, <1>5, <2>1
    <3> DEFINE j == [InitGen(To(c, "B2", Limit), Gen("AA")) EXCEPT
                       !.tone = 600, !.i90 = FALSE, !.tx = "CarrierState",
                       !.rx = "PhsReversal"]
    <3>3. k = j
      BY <1>3, <3>1, <3>2 DEF OrgRanging
    <3>4. /\ DOMAIN j = Fields /\ j.state = "B2"
          /\ j.gen.kind \notin {"R", "E", "B1"}
      BY <1>3 DEF InitGen, To, Gen, Fields
    <3> QED
      BY <3>3, <3>4
  <2>2. CASE s = "ans"
    <3>1. k = AnsRanging(c)
      BY <1>3, <2>2 DEF NextState, AnsNextState
    <3> DEFINE j ==
         [InitGen(To(c, "B2", IF c.opt THEN Scaled(2656) ELSE Scaled(256)),
                  Gen("AC")) EXCEPT !.tx = "CarrierState", !.tone = 1800]
    <3>2. k = j
      BY <1>3, <3>1 DEF AnsRanging
    <3>3. /\ DOMAIN j = Fields /\ j.state = "B2"
          /\ j.gen.kind \notin {"R", "E", "B1"}
      BY <1>3 DEF InitGen, To, Gen, Fields
    <3> QED
      BY <3>2, <3>3
  <2> QED
    BY <2>1, <2>2 DEF Sides
<1> HIDE DEF k
<1>7. r.state = "B2" /\ r.gen.kind \notin {"R", "E", "B1"} /\ r.status = 11
  BY <1>6 DEF Fields
<1> QED
  BY <1>1, <1>2, <1>7 DEF Restarted

\* What data mode leaves of a station: the rates of the connection, or a
\* retrain that has none yet.
Onward(s, g, h) ==
  /\ h.status \notin ConnectCodes
  /\ \/ /\ h.mode = "data" /\ h.own = g.own /\ h.regs = g.regs
        /\ h.txr = g.txr /\ h.rxr = g.rxr /\ h.state = g.state
     \/ h.mode = s /\ h.state = "B2" /\ h.gen.kind \notin {"R", "E", "B1"}
Carried(s) ==
  /\ DataBlock(s) /\ DataEnd(s)
  /\ \E h : Onward(s, m[s], h) /\ m' = [m EXCEPT ![s] = h]

\* The end of a block of data.
LEMMA DataEndRates ==
  ASSUME RatesIInv, NEW s \in Sides, DataBlock(s), DataEnd(s), NEW h,
         Onward(s, m[s], h), m' = [m EXCEPT ![s] = h]
  PROVE  RatesInv'
<1> DEFINE g == m[s]
<1>1. /\ m'[s] = h /\ \A t \in Sides : t # s => m'[t] = m[t]
      /\ turn = s /\ turn' = s /\ pc = "rx" /\ pc' = "end" /\ dp' = dp
      /\ g.mode = "data" /\ dp[s] # "ERROR" /\ g.mode # s
  BY DEF DataBlock, DataEnd, Alive, RatesIInv, StationIInv, CallInv, Sides
<1>2. /\ \A x \in On(s)' : x.kind = "data"
      /\ \A t \in Sides : t # s => On(t)' = On(t)
  <2>1. /\ line'[s] = << Gen("data") >>
        /\ \A t \in Sides : t # s => line'[t] = line[t]
    BY DEF DataEnd, RatesIInv, StationIInv, CallInv
  <2>2. \A i \in 1 .. Len(<< Gen("data") >>) : << Gen("data") >>[i].kind = "data"
    BY DEF Gen
  <2> QED
    BY <2>1, <2>2 DEF On
<1>3. OrgLine /\ AnsLine /\ PairRates /\ SideRates(s) /\ Linked(s, g)
  BY <1>1 DEF RatesIInv, RatesInv, SideRates
<1>4. ASSUME /\ h.mode = "data" /\ h.own = g.own /\ h.regs = g.regs
             /\ h.txr = g.txr /\ h.rxr = g.rxr /\ h.state = g.state
      PROVE  SideRates(s)' /\ PairRates'
  <2>1. DecodeReg(h, 3) = DecodeReg(g, 3) /\ DecodeReg(h, 4) = DecodeReg(g, 4)
    BY <1>4 DEF DecodeReg
  <2>2. Linked(s, h)
    BY <1>3, <1>4, <2>1 DEF Linked
  <2>3. SideRates(s)'
    BY <1>1, <1>4, <2>2 DEF SideRates, Sides
  <2>4. ASSUME s = "org" PROVE PairRates'
    <3>1. m'["ans"] = m["ans"] /\ m'["org"] = h
      BY <1>1, <2>4 DEF Sides
    <3>2. ~Carries("org", "E")' /\ ~Fresh("ans")'
      BY <1>1, <1>2, <2>4 DEF Carries, Fresh, Peer
    <3>3. ~Settling(h) /\ (Settled(h) => Settled(g))
      BY <1>1, <1>4, <2>1 DEF Settling, Settled
    <3>4. ~(Final(m["ans"]) /\ m["ans"].state = "Y")
      BY <1>1, <1>3, <2>4 DEF PairRates
    <3> QED
      BY <1>3, <2>1, <2>4, <3>1, <3>2, <3>3, <3>4 DEF PairRates
  <2>5. ASSUME s = "ans" PROVE PairRates'
    <3>1. m'["org"] = m["org"] /\ m'["ans"] = h
      BY <1>1, <2>5 DEF Sides
    <3>2. ~Carries("ans", "R")' /\ ~Fresh("org")'
      BY <1>1, <1>2, <2>5 DEF Carries, Fresh, Peer
    <3>3. Final(h) <=> Final(g)
      BY <1>1, <1>4, <2>1 DEF Final
    <3>4. ~(Final(g) /\ g.state = "Y")
      BY <1>1, <1>3, <2>5 DEF PairRates
    <3>5. Shared <=> Shared'
      BY <1>4, <2>5, <3>1 DEF Shared
    <3> QED
      BY <1>3, <1>4, <2>1, <2>5, <3>1, <3>2, <3>3, <3>4, <3>5 DEF PairRates
  <2> QED
    BY <2>3, <2>4, <2>5 DEF Sides
<1>5. ASSUME h.mode = s /\ h.state = "B2"
             /\ h.gen.kind \notin {"R", "E", "B1"}
      PROVE  SideRates(s)' /\ PairRates'
  <2>1. Coded(h) /\ Unmatched(h) /\ ~Unfit(h) /\ h.mode # "data"
    BY <1>5 DEF Coded, OrgCoded, AnsCoded, Unmatched, Waiting, Unfit, Sides
  <2>2. SideRates(s)'
    BY <1>1, <2>1 DEF SideRates
  <2>3. ASSUME s = "org" PROVE PairRates'
    <3>1. m'["ans"] = m["ans"] /\ m'["org"] = h
      BY <1>1, <2>3 DEF Sides
    <3>2. ~Carries("org", "E")' /\ ~Fresh("ans")'
      BY <1>1, <1>2, <2>3 DEF Carries, Fresh, Peer
    <3>3. ~Settling(h) /\ ~Settled(h)
      BY <1>5, <2>1 DEF Settling, Settled
    <3>4. ~(Final(m["ans"]) /\ m["ans"].state = "Y")
      BY <1>1, <1>3, <2>3 DEF PairRates
    <3> QED
      BY <3>1, <3>2, <3>3, <3>4 DEF PairRates
  <2>4. ASSUME s = "ans" PROVE PairRates'
    <3>1. m'["org"] = m["org"] /\ m'["ans"] = h
      BY <1>1, <2>4 DEF Sides
    <3>2. ~Carries("ans", "R")' /\ ~Fresh("org")'
      BY <1>1, <1>2, <2>4 DEF Carries, Fresh, Peer
    <3>3. ~Final(h)
      BY <1>5, <2>1 DEF Final
    <3>4. Final(g)
      BY <1>1, <1>3 DEF Final, Linked
    <3>5. ~Settling(m["org"])
      BY <1>3, <2>4, <3>4 DEF PairRates
    <3> QED
      BY <3>1, <3>2, <3>3, <3>5 DEF PairRates
  <2> QED
    BY <2>2, <2>3, <2>4 DEF Sides
<1>6. SideRates(s)' /\ PairRates'
  BY <1>4, <1>5 DEF Onward
<1>7. \A t \in Sides : SideRates(t)'
  <2>1. ASSUME NEW t \in Sides, t # s PROVE SideRates(t)'
    BY <1>1, <2>1, OtherRates DEF RatesIInv
  <2> QED
    BY <1>6, <2>1
<1>8. OrgLine'
  <2>1. CASE s = "org"
    BY <1>2, <2>1 DEF OrgLine
  <2>2. CASE s = "ans"
    <3>1. m'["org"] = m["org"] /\ On("org")' = On("org")
      BY <1>1, <1>2, <2>2 DEF Sides
    <3> QED
      BY <1>1, <1>3, <2>2, <3>1 DEF OrgLine, InBlock
  <2> QED
    BY <2>1, <2>2 DEF Sides
<1>9. AnsLine'
  <2>1. CASE s = "ans"
    BY <1>2, <2>1 DEF AnsLine
  <2>2. CASE s = "org"
    <3>1. m'["ans"] = m["ans"] /\ On("ans")' = On("ans")
      BY <1>1, <1>2, <2>2 DEF Sides
    <3> QED
      BY <1>3, <3>1 DEF AnsLine
  <2> QED
    BY <2>1, <2>2 DEF Sides
<1> QED
  BY <1>6, <1>7, <1>8, <1>9 DEF RatesInv

\* A block of data, and the loss of the carrier.
LEMMA DataCarried ==
  ASSUME RatesIInv, NEW s \in Sides, v32_data(s)
  PROVE  Carried(s)
<1> DEFINE h(drop) == IF drop THEN Retrained(m[s], s, TRUE, TRUE) ELSE m[s]
           carrier == KindsHeard(s) # {"silence"}
           loss(drop) == IF carrier THEN 0
                         ELSE IF h(drop).loss > LossLimit THEN h(drop).loss
                         ELSE h(drop).loss + 1
           lost(drop) == Lost(loss(drop))
           k(drop, req) ==
             [h(drop) EXCEPT !.carrier = carrier, !.data = @ /\ ~req,
                             !.loss = loss(drop),
                             !.status = IF lost(drop) THEN 12
                                        ELSE IF req THEN 9 ELSE 0]
<1>1. PICK drop \in BOOLEAN, req \in Possible(RetrainHeard(s)) :
        /\ m' = [m EXCEPT ![s] = k(drop, req)]
        /\ DataEnd(s)
  BY Zenon DEF v32_data
<1>2. DataBlock(s) /\ m[s].mode = "data" /\ Ctx(m[s])
  BY DEF v32_data, DataBlock, RatesIInv, StationIInv, SideInv
<1>3. \/ h(drop) = m[s]
      \/ Restarted(s, h(drop))
  <2> DEFINE j == Retrained(m[s], s, TRUE, TRUE)
  <2>1. Restarted(s, j)
    BY <1>2, RetrainedFresh
  <2> HIDE DEF j
  <2>2. h(drop) = IF drop THEN j ELSE m[s]
    BY DEF j
  <2> HIDE DEF h
  <2> QED
    BY <2>1, <2>2
<1> DEFINE g == h(drop)
           f == loss(drop)
           st == IF lost(drop) THEN 12 ELSE IF req THEN 9 ELSE 0
           d == g.data /\ ~req
           r == [g EXCEPT !.carrier = carrier, !.data = d, !.loss = f, !.status = st]
<1>4. k(drop, req) = r
  OBVIOUS
<1>5. DOMAIN g = Fields
  <2> HIDE DEF h
  <2> QED
    BY <1>2, <1>3 DEF Ctx, Restarted, g
<1>c. st \notin ConnectCodes
  BY DEF ConnectCodes
<1> HIDE DEF h, loss, lost, carrier, st, f, d, k, g
<1>6. /\ r.mode = g.mode /\ r.own = g.own /\ r.regs = g.regs /\ r.txr = g.txr
      /\ r.rxr = g.rxr /\ r.state = g.state /\ r.gen = g.gen /\ r.status = st
  BY <1>5 DEF Fields
<1> HIDE DEF r
<1>7. Onward(s, m[s], r)
  BY <1>2, <1>3, <1>6, <1>c DEF Onward, Restarted, g
<1>8. m' = [m EXCEPT ![s] = r]
  BY <1>1, <1>4
<1> QED
  BY <1>1, <1>2, <1>7, <1>8 DEF Carried

\* The deferred control of a retrain request.
LEMMA ControlCarried ==
  ASSUME RatesIInv, NEW s \in Sides, v32_data_control(s)
  PROVE  Carried(s)
<1>1. PICK opt \in BOOLEAN : m' = [m EXCEPT ![s] = Retrained(m[s], s, opt, FALSE)]
  BY DEF v32_data_control
<1>2. DataBlock(s) /\ DataEnd(s) /\ Ctx(m[s])
  BY DEF v32_data_control, RatesIInv, StationIInv, SideInv
<1> DEFINE j == Retrained(m[s], s, opt, FALSE)
<1>3. Restarted(s, j)
  BY <1>2, RetrainedFresh
<1>4. m' = [m EXCEPT ![s] = j]
  BY <1>1
<1> HIDE DEF j
<1>5. Onward(s, m[s], j)
  BY <1>3 DEF Onward, Restarted, ConnectCodes
<1> QED
  BY <1>2, <1>4, <1>5 DEF Carried

\* So both keep the rates.
LEMMA DataRates ==
  ASSUME RatesIInv, NEW s \in Sides, v32_data(s) \/ v32_data_control(s)
  PROVE  RatesInv'
<1>1. Carried(s)
  BY DataCarried, ControlCarried
<1> QED
  BY <1>1, DataEndRates DEF Carried

\* The end of a block: a station enters data mode with the rates it settled.
LEMMA ProcessRates ==
  ASSUME RatesIInv, NEW s \in Sides, v32_process(s)
  PROVE  RatesInv'
<1> DEFINE g == m[s]
           d == [m[s] EXCEPT !.mode = "data", !.state = "DONT_CARE"]
           h == IF m[s].data THEN d ELSE m[s]
<1>1. /\ m'[s] = h /\ \A t \in Sides : t # s => m'[t] = m[t] /\ dp'[t] = dp[t]
      /\ turn = s /\ pc = "end" /\ turn' = Peer(s) /\ pc' = "rx"
      /\ line' = line /\ dp'[s] = DpStatus(g.status)
  BY DEF v32_process, RatesIInv, StationIInv, CallInv
<1>2. /\ Ctx(g) /\ g.mode \in {s, "data"} /\ Owed(s) = 0 /\ g.data \in BOOLEAN
      /\ g.mode = s => Placed(g)
  BY <1>1 DEF RatesIInv, StationIInv, SideInv, Owed, Good, Ctx, Counted
<1>3. OrgLine /\ AnsLine /\ PairRates /\ SideRates(s) /\ InBlock(s)
  BY <1>1 DEF RatesIInv, RatesInv, InBlock
<1>4. dp[s] # "ERROR" /\ (g.mode = s /\ Unfit(g) => Failing(g))
  BY <1>2, <1>3 DEF SideRates, Doomed
<1>5. /\ h.own = g.own /\ h.regs = g.regs /\ h.txr = g.txr /\ h.rxr = g.rxr
      /\ g.data => h.mode = "data" /\ h.state = "DONT_CARE"
      /\ ~g.data => h = g
  BY <1>2 DEF Ctx, Fields
<1> HIDE DEF h, d
<1>6. DecodeReg(h, 3) = DecodeReg(g, 3) /\ DecodeReg(h, 4) = DecodeReg(g, 4)
  BY <1>5 DEF DecodeReg
<1>7. g.data /\ g.mode = s =>
        /\ ~Unfit(g) /\ g.state = IF s = "org" THEN "V" ELSE "END"
        /\ Linked(s, g)
  <2> SUFFICES ASSUME g.data, g.mode = s
               PROVE  /\ ~Unfit(g) /\ g.state = IF s = "org" THEN "V" ELSE "END"
                      /\ Linked(s, g)
    OBVIOUS
  <2>1. ~Unfit(g)
    BY <1>4 DEF Failing
  <2>2. g.state = IF s = "org" THEN "V" ELSE "END"
    BY <1>2, <2>1 DEF Placed, Unfit, Sides
  <2>3. Coded(g)
    BY <1>3 DEF SideRates
  <2>4. CASE s = "org"
    BY <2>1, <2>2, <2>3, <2>4 DEF Coded, OrgCoded, Unfit, Linked
  <2>5. CASE s = "ans"
    BY <2>1, <2>2, <2>3, <2>5 DEF Coded, AnsCoded, Unfit, Linked
  <2> QED
    BY <2>1, <2>2, <2>4, <2>5 DEF Sides
<1>8. h.mode = "data" => Linked(s, h)
  <2>1. h.mode = "data" => Linked(s, g)
    BY <1>2, <1>3, <1>5, <1>7 DEF SideRates
  <2> QED
    BY <1>5, <1>6, <2>1 DEF Linked
<1>9. s # "data"
  BY DEF Sides
<1>10. SideRates(s)'
  <2>1. h.mode = s => h = g /\ g.mode = s
    BY <1>2, <1>5, <1>9
  <2>2. Failing(g) => dp'[s] = "ERROR"
    <3>1. g.status \in ErrorCodes => g.status \notin ConnectCodes
      BY DEF ErrorCodes, ConnectCodes
    <3> QED
      BY <1>1, <3>1 DEF Failing, DpStatus
  <2>3. ~InBlock(s)'
    BY <1>1 DEF InBlock
  <2> QED
    BY <1>1, <1>3, <1>4, <1>8, <2>1, <2>2, <2>3 DEF SideRates
<1>11. ASSUME NEW t \in Sides, t # s PROVE SideRates(t)'
  <2>1. SideRates(t) /\ ~InBlock(t) /\ ~InBlock(t)'
    BY <1>1, <1>11 DEF RatesIInv, RatesInv, InBlock
  <2> QED
    BY <1>1, <1>11, <2>1 DEF SideRates
<1>12. \A t \in Sides : On(t)' = On(t)
  BY <1>1 DEF On
<1>13. OrgLine'
  <2>1. ASSUME NEW x \in On("org"), x.kind = "E"
        PROVE  /\ m["org"].mode = "org" /\ m["org"].state = "U"
               /\ x.seq = CodeESeq(m["org"].own, m["org"].regs[3])
    BY <1>1, <1>3, <2>1 DEF OrgLine
  <2>2. (\E x \in On("org") : x.kind = "E") => m'["org"] = m["org"]
    <3>1. CASE s = "org"
      <4>1. g.state = "U" /\ g.mode = s => ~g.data
        BY <1>7, <3>1
      <4> QED
        BY <1>1, <1>5, <2>1, <3>1, <4>1
    <3>2. CASE s = "ans"
      BY <1>1, <3>2 DEF Sides
    <3> QED
      BY <3>1, <3>2 DEF Sides
  <2>3. ~InBlock("org")'
    BY <1>1 DEF InBlock
  <2> QED
    BY <1>12, <2>1, <2>2, <2>3 DEF OrgLine, Sides
<1>14. AnsLine'
  <2>1. CASE s = "org"
    <3>1. m'["ans"] = m["ans"]
      BY <1>1, <2>1 DEF Sides
    <3> QED
      BY <1>3, <1>12, <3>1 DEF AnsLine, Sides
  <2>2. CASE s = "ans"
    <3>1. m'["ans"] = h
      BY <1>1, <2>2
    <3>2. g.mode = "data" \/ g.state = "END" =>
            h.mode = "data" \/ h.state = "END"
      BY <1>5
    <3> QED
      BY <1>3, <1>5, <1>12, <2>2, <3>1, <3>2 DEF AnsLine, Sides
  <2> QED
    BY <2>1, <2>2 DEF Sides
<1>15. /\ Carries("org", "E")' <=> Carries("org", "E")
       /\ Carries("ans", "R")' <=> Carries("ans", "R")
  BY <1>12 DEF Carries, Sides
<1>16. PairRates'
  <2>1. ASSUME s = "org" PROVE PairRates'
    <3>1. m'["ans"] = m["ans"] /\ m'["org"] = h
      BY <1>1, <2>1 DEF Sides
    <3>2. Fresh("org") /\ ~Fresh("ans")'
      BY <1>1, <2>1 DEF Fresh, Peer
    <3>3. (Settling(h) => Settling(g)) /\ (Settled(h) => Settled(g))
      BY <1>5, <1>6, <1>7, <1>2, <2>1 DEF Settling, Settled
    <3>4. Shared <=> Shared'
      BY <1>5, <1>6, <2>1, <3>1 DEF Shared
    <3>5. ~(Final(m["ans"]) /\ m["ans"].state = "Y")
      BY <1>1, <1>3, <2>1 DEF PairRates
    <3> QED
      BY <1>3, <1>6, <1>15, <2>1, <3>1, <3>2, <3>3, <3>4, <3>5 DEF PairRates
  <2>2. ASSUME s = "ans" PROVE PairRates'
    <3>1. m'["org"] = m["org"] /\ m'["ans"] = h
      BY <1>1, <2>2 DEF Sides
    <3>2. Fresh("ans") /\ ~Fresh("org")'
      BY <1>1, <2>2 DEF Fresh, Peer
    <3>3. (Final(h) => Final(g)) /\ (h.mode # "data" => h.state = g.state)
      BY <1>5, <1>6, <1>7, <1>2, <2>2 DEF Final
    <3>4. Shared <=> Shared'
      BY <1>5, <2>2, <3>1 DEF Shared
    <3>5. ~(Final(g) /\ g.state = "Y")
      BY <1>1, <1>3, <2>2 DEF PairRates
    <3>6. ~(Final(h) /\ h.state = "Y")
      BY <1>5, <3>3, <3>5
    <3> QED
      BY <1>3, <1>6, <1>15, <2>2, <3>1, <3>2, <3>3, <3>4, <3>6 DEF PairRates
  <2> QED
    BY <2>1, <2>2 DEF Sides
<1> QED
  BY <1>10, <1>11, <1>13, <1>14, <1>16 DEF RatesInv

\* A station that has failed only sends silence.
LEMMA ErrorRates ==
  ASSUME RatesIInv, NEW s \in Sides, v32_process_error(s)
  PROVE  RatesInv'
<1>1. /\ turn = s /\ pc = "rx" /\ turn' = Peer(s) /\ pc' = "rx"
      /\ m' = m /\ dp' = dp /\ budget' = budget
      /\ line'[s] = << Gen("silence") >>
      /\ \A t \in Sides : t # s => line'[t] = line[t]
  BY DEF v32_process_error, RatesIInv, StationIInv, CallInv
<1>2. OrgLine /\ AnsLine /\ PairRates /\ \A t \in Sides : SideRates(t)
  BY DEF RatesIInv, RatesInv
<1>3. \A t \in Sides : ~InBlock(t) /\ ~InBlock(t)'
  BY <1>1 DEF InBlock
<1>4. /\ \A x \in On(s)' : x.kind \notin {"R", "E"}
      /\ \A t \in Sides : t # s => On(t)' = On(t)
  <2>1. \A i \in 1 .. Len(<< Gen("silence") >>) :
          << Gen("silence") >>[i].kind \notin {"R", "E"}
    BY DEF Gen
  <2> QED
    BY <1>1, <2>1 DEF On
<1>5. \A t \in Sides : SideRates(t)'
  BY <1>1, <1>2, <1>3 DEF SideRates
<1>6. OrgLine'
  <2>1. CASE s = "org"
    BY <1>4, <2>1 DEF OrgLine
  <2>2. CASE s = "ans"
    BY <1>1, <1>2, <1>3, <1>4, <2>2 DEF OrgLine, Sides
  <2> QED
    BY <2>1, <2>2 DEF Sides
<1>7. AnsLine'
  <2>1. CASE s = "ans"
    BY <1>4, <2>1 DEF AnsLine
  <2>2. CASE s = "org"
    BY <1>1, <1>2, <1>4, <2>2 DEF AnsLine, Sides
  <2> QED
    BY <2>1, <2>2 DEF Sides
<1>8. PairRates'
  <2>1. /\ s = "org" => ~Carries("org", "E")' /\ ~Fresh("ans")'
        /\ s = "ans" => ~Fresh("org")' /\ ~Carries("ans", "R")'
    BY <1>1, <1>4 DEF Carries, Fresh, Peer
  <2>2. ~(Final(m["ans"]) /\ m["ans"].state = "Y")
    BY <1>1, <1>2 DEF PairRates
  <2>3. Shared <=> Shared'
    BY <1>1 DEF Shared
  <2> QED
    BY <1>1, <1>2, <2>1, <2>2, <2>3 DEF PairRates, Sides
<1> QED
  BY <1>5, <1>6, <1>7, <1>8 DEF RatesInv

\* Two stations as v32_create leaves them have no rates yet.
LEMMA InitRates ==
  ASSUME Init
  PROVE  RatesInv
<1>1. PICK cfg \in Calls : m = [s \in Sides |-> Created(s, cfg[s], TRUE)]
  BY DEF Init
<1>2. ASSUME NEW s \in Sides
      PROVE  /\ m[s].mode = s /\ m[s].state = "A" /\ m[s].gen = Gen("silence")
             /\ ~InBlock(s)
  <2>1. /\ Created(s, cfg[s], TRUE).mode = s /\ Created(s, cfg[s], TRUE).state = "A"
        /\ Created(s, cfg[s], TRUE).gen = Gen("silence")
    BY DEF Created
  <2>2. m[s] = Created(s, cfg[s], TRUE)
    BY <1>1
  <2>3. ~InBlock(s)
    BY DEF Init, InBlock
  <2> QED
    BY <2>1, <2>2, <2>3
<1>3. \A s \in Sides : m[s].gen.kind \notin {"R", "E", "B1"}
  BY <1>2 DEF Gen
<1>4. \A s \in Sides : s # "data"
  BY DEF Sides
<1>5. ASSUME NEW s \in Sides PROVE SideRates(s)
  <2>1. Coded(m[s]) /\ Unmatched(m[s]) /\ ~Unfit(m[s]) /\ m[s].mode # "data"
    BY <1>2, <1>3, <1>4 DEF Coded, OrgCoded, AnsCoded, Unmatched, Waiting, Unfit
  <2> QED
    BY <1>2, <2>1 DEF SideRates
<1>6. \A s \in Sides : \A x \in On(s) : x.kind \notin {"R", "E"}
  <2>1. \A i \in 1 .. Len(<< Gen("silence") >>) :
          << Gen("silence") >>[i].kind \notin {"R", "E"}
    BY DEF Gen
  <2>2. \A s \in Sides : line[s] = << Gen("silence") >>
    BY DEF Init
  <2> QED
    BY <2>1, <2>2 DEF On
<1>7. PairRates
  <2>1. ~Settling(m["org"]) /\ ~Settled(m["org"]) /\ ~Final(m["ans"])
    BY <1>2, <1>4 DEF Settling, Settled, Final, Sides
  <2>2. ~Carries("org", "E")
    BY <1>6 DEF Carries, Sides
  <2> QED
    BY <2>1, <2>2 DEF PairRates
<1> QED
  BY <1>5, <1>6, <1>7 DEF RatesInv, OrgLine, AnsLine, Sides

\* Every step keeps them.
LEMMA NextRates ==
  ASSUME RatesIInv, [Next]_vars
  PROVE  RatesIInv'
<1>1. StationIInv'
  BY NextKeeps DEF RatesIInv
<1>2. CASE UNCHANGED vars
  BY <1>1, <1>2 DEF vars, RatesIInv, RatesInv, SideRates, InBlock, Owed,
     OrgLine, AnsLine, PairRates, Fresh, On, Carries, Shared
<1>3. ASSUME NEW s \in Sides, Block(s)
      PROVE  RatesInv'
  BY <1>3, ReceiveRates, TransmitRates, DataRates, ProcessRates, ErrorRates
     DEF Block
<1> QED
  BY <1>1, <1>2, <1>3 DEF Next, RatesIInv

\* What it says of two stations in data mode.
LEMMA RatesIInvSafe ==
  ASSUME RatesIInv
  PROVE  RatesAgree
<1> SUFFICES ASSUME \A s \in Sides : m[s].mode = "data" /\ Alive(s)
             PROVE  \A s \in Sides :
                      /\ m[s].txr = m[Peer(s)].rxr
                      /\ \E r \in Rates :
                           /\ Reported(r) = m[s].txr
                           /\ V32_FINAL_RATE_SEQ[r] \ {"T"}
                                \subseteq V32_RATE_SEQ[m[s].own]
  BY DEF RatesAgree
<1> DEFINE r == DecodeReg(m["org"], 3)
<1>1. \A s \in Sides : Linked(s, m[s]) /\ m[s].own \in Rates
  BY DEF RatesIInv, RatesInv, SideRates, StationIInv, SideInv, Ctx, Rated
<1>2. r # NONE /\ DecodeReg(m["org"], 4) = r
  BY <1>1 DEF Linked, Sides
<1>3. DecodeReg(m["ans"], 4) = r
  <2>1. Settled(m["org"]) /\ Final(m["ans"])
    BY <1>1, <1>2 DEF Settled, Final, Linked, Sides
  <2> QED
    BY <2>1 DEF RatesIInv, RatesInv, PairRates
<1>4. ASSUME NEW s \in Sides
      PROVE  /\ DecodeReg(m[s], 4) = r /\ m[s].txr = Reported(r)
             /\ m[s].rxr = Reported(r)
  BY <1>1, <1>2, <1>3 DEF Linked, Sides
<1> HIDE DEF r
<1>5. ASSUME NEW s \in Sides
      PROVE  r \in Rates /\ V32_FINAL_RATE_SEQ[r] \ {"T"} \subseteq V32_RATE_SEQ[m[s].own]
  <2>1. common_rate(m[s].own, m[s].regs[4]) = r
    BY <1>4 DEF DecodeReg
  <2> QED
    BY <1>1, <1>2, <2>1, CommonKept
<1>6. \A s \in Sides : Peer(s) \in Sides
  BY DEF Sides, Peer
<1> QED
  BY <1>4, <1>5, <1>6

\* For every duration, delay and pair of rates, whatever the detectors miss
\* and however often the two retrain: two stations that are both in data mode
\* send and expect one and the same rate, which each of them has (V32org.c U
\* and V, V32ans.c Y, Z and END).
THEOREM RatesSettled == Spec => []RatesAgree
<1>1. Init => RatesIInv
  BY InitKeeps, InitRates DEF RatesIInv
<1>2. RatesIInv /\ [Next]_vars => RatesIInv'
  BY NextRates
<1>3. RatesIInv => RatesAgree
  BY RatesIInvSafe
<1> QED
  BY <1>1, <1>2, <1>3, PTL DEF Spec

-----------------------------------------------------------------------------
(***************************************************************************)
(* The report of a connection.                                             *)
(***************************************************************************)

\* A station in the last state of the handshake, and one that has left it:
\* in data mode, or about to be at the end of its block.
Closing(h) == h.state = IF h.mode = "org" THEN "V" ELSE "END"
Through(h) == h.mode = "data" \/ h.data = TRUE

\* A connection is posted in the block that ends the handshake and no other.
SidePace(s) ==
  /\ m[s].mode = s =>
       /\ m[s].status \in ConnectCodes => m[s].data = TRUE
       /\ m[s].data = TRUE => InBlock(s)
       /\ Closing(m[s]) /\ ~Through(m[s]) => m[s].left > 0
  /\ m[s].mode = "data" /\ InBlock(s) => m[s].status \notin ConnectCodes

\* What will be left of the countdown of s at the end of its block.
After(s) ==
  m[s].left - (IF turn # s THEN 0 ELSE IF pc = "rx" THEN Sym ELSE Owed(s))

\* The calling station sends B1 having heard an E that has a rate; so has the
\* answering station from Y on.
Joined(h) ==
  /\ h.mode = "org" /\ h.state = "V"
  /\ DecodeReg(h, 3) # NONE /\ DecodeReg(h, 4) # NONE
Bound(h) == h.mode = "ans" /\ Final(h)

\* Both send B1 then, the answering station since a block earlier at most: the
\* two countdowns end within a block of each other.
InStep ==
  IF Through(m["ans"])
  THEN IF turn = "org" THEN After("org") <= 0
                       ELSE pc # "rx" /\ m["org"].left <= Sym
  ELSE IF turn = "org"
       THEN After("org") <= m["ans"].left /\ m["ans"].left <= After("org") + Sym
       ELSE After("ans") <= m["org"].left /\ m["org"].left <= After("ans") + Sym
OrgPace ==
  Joined(m["org"]) /\ dp["org"] # "ERROR" =>
    /\ Final(m["ans"]) /\ (m["ans"].mode = "data" \/ m["ans"].state = "END")
    /\ dp["ans"] # "ERROR" /\ ~Through(m["org"]) => InStep

\* A calling station in data mode does not start again before the answering
\* one is there too.
Caught ==
  /\ m["ans"].state = "END"
  /\ IF turn = "org"
     THEN InBlock("org") /\ m["org"].mode = "org" /\ m["ans"].left <= Sym
     ELSE After("ans") <= 0
AnsPace ==
  Bound(m["ans"]) /\ dp["ans"] # "ERROR" =>
    /\ m["org"].mode = "data" \/ m["org"].state \in {"U", "V", "ERROR"}
    /\ m["org"].txr = Reported(DecodeReg(m["ans"], 4))
    /\ Through(m["org"]) /\ dp["org"] # "ERROR" /\ ~Through(m["ans"]) => Caught

\* The answering station's B1 has just begun when its E is heard.
EndPace ==
  Fresh("ans") /\ Carries("ans", "E") /\ Final(m["ans"]) /\ dp["ans"] # "ERROR" =>
    /\ m["ans"].mode = "ans" /\ m["ans"].state = "END" /\ ~Through(m["ans"])
    /\ Scaled(128) - Sym <= After("ans") /\ After("ans") <= Scaled(128)

PaceInv == (\A s \in Sides : SidePace(s)) /\ OrgPace /\ AnsPace /\ EndPace
PaceIInv == RatesIInv /\ PaceInv

-----------------------------------------------------------------------------

\* The numbers that the pace compares, and the fields it looks at.
LEMMA Paced ==
  ASSUME StationIInv
  PROVE  /\ Sym \in Nat /\ Scaled(128) \in Nat /\ Sym < Scaled(128) /\ Sym < Limit
         /\ Limit \in Nat /\ budget \in 0 .. Sym /\ "org" \in Sides /\ "ans" \in Sides
         /\ \A s \in Sides : /\ m[s].left \in Int /\ m[s].data \in BOOLEAN
                             /\ m[s].own \in Rates
<1>1. "org" \in Sides /\ "ans" \in Sides
  BY DEF Sides
<1>2. \A s \in Sides : m[s].left \in Int /\ m[s].data \in BOOLEAN /\ m[s].own \in Rates
  BY DEF StationIInv, SideInv, Ctx, Counted, Rated
<1> QED
  BY <1>1, <1>2, Blocks DEF StationIInv, CallInv

\* The station whose block it is not keeps its pace.
LEMMA OtherPace ==
  ASSUME PaceInv, NEW s \in Sides, NEW t \in Sides, t # s, turn = s, turn' = s,
         m'[t] = m[t]
  PROVE  SidePace(t)'
<1>1. SidePace(t) /\ ~InBlock(t) /\ ~InBlock(t)'
  BY DEF PaceInv, InBlock
<1> QED
  BY <1>1 DEF SidePace

\* The end of a receive routine of the calling station: B1 begins when E is
\* heard,
LEMMA OrgRxEndPace ==
  ASSUME PaceIInv, NEW rx, Receiving("org", rx), NEW h, Listened("org", h),
         RxEnd("org", h)
  PROVE  PaceInv'
<1> DEFINE o == m["org"]
           a == m["ans"]
<1>0. StationIInv /\ RatesIInv /\ PaceInv
  BY DEF PaceIInv, RatesIInv
<1>p. /\ Sym \in Nat /\ Scaled(128) \in Nat /\ Sym < Scaled(128)
      /\ "org" \in Sides /\ "ans" \in Sides
      /\ o.left \in Int /\ a.left \in Int /\ o.data \in BOOLEAN
      /\ o.own \in Rates /\ a.own \in Rates
  BY <1>0, Paced
<1>1. /\ m'["org"] = h /\ m'["ans"] = a
      /\ turn = "org" /\ turn' = "org" /\ pc = "rx" /\ pc' = "tx"
      /\ budget' = Sym /\ line' = line /\ dp' = dp /\ dp["org"] # "ERROR"
  BY <1>0 DEF StationIInv, CallInv, Sides, RxEnd, Receiving, Alive
<1>2. /\ h.mode = "org" /\ h.own = o.own /\ h.data = FALSE /\ OrgHeard(o, h)
      /\ h.status \in ConnectCodes => h.status = o.status
  BY DEF Listened
<1>3. /\ SidePace("org") /\ OrgPace /\ AnsPace /\ EndPace /\ AnsLine
  BY <1>0, <1>p DEF PaceInv, RatesIInv, RatesInv
<1>4. o.mode = "org" /\ o.data = FALSE /\ ~Through(o) /\ ~Through(h)
  <2>1. o.mode = "org"
    BY <1>0, <1>p, ReceivingFit
  <2>2. ~InBlock("org")
    BY <1>1 DEF InBlock
  <2> QED
    BY <1>2, <1>3, <1>p, <2>1, <2>2 DEF SidePace, Through
<1>5. SidePace("org")'
  <2>1. h.status \notin ConnectCodes
    BY <1>2, <1>3, <1>4 DEF SidePace
  <2>2. Closing(h) => h.left > 0
    <3>1. Closing(h) => o.state \in {"U", "V"}
      BY <1>2 DEF Closing, OrgHeard
    <3>2. CASE o.state = "V"
      BY <1>2, <1>3, <1>4, <3>2 DEF Closing, OrgHeard, SidePace
    <3>3. CASE o.state = "U"
      BY <1>2, <1>p, <3>3 DEF Closing, OrgHeard
    <3> QED
      BY <3>1, <3>2, <3>3
  <2> QED
    BY <1>1, <1>2, <2>1, <2>2 DEF SidePace
<1>6. SidePace("ans")'
  BY <1>0, <1>1, <1>p, OtherPace
<1>7. /\ After("org")' = h.left - Sym /\ After("ans")' = a.left
      /\ After("org") = o.left - Sym /\ After("ans") = a.left
  <2>1. Owed("org")' = Sym
    BY <1>1 DEF Owed
  <2>2. After("org")' = h.left - Sym /\ After("org") = o.left - Sym
    BY <1>1, <2>1 DEF After
  <2>3. After("ans")' = a.left /\ After("ans") = a.left
    BY <1>1, <1>p DEF After
  <2> QED
    BY <2>2, <2>3
<1>8. Fresh("ans") /\ ~Fresh("ans")'
  BY <1>1 DEF Fresh, Peer
<1>9. OrgPace'
  <2>1. SUFFICES ASSUME Joined(h)
                 PROVE  /\ Final(a) /\ (a.mode = "data" \/ a.state = "END")
                        /\ dp["ans"] # "ERROR" => InStep'
    BY <1>1 DEF OrgPace
  <2>2. CASE o.state = "V"
    <3>1. h.left = o.left /\ h.regs[3] = o.regs[3] /\ h.regs[4] = o.regs[4]
      BY <1>2, <2>1, <2>2 DEF OrgHeard, Joined
    <3>2. Joined(o)
      BY <1>2, <1>4, <2>1, <2>2, <3>1, DecodedSame DEF Joined
    <3>3. /\ Final(a) /\ (a.mode = "data" \/ a.state = "END")
          /\ dp["ans"] # "ERROR" => InStep
      BY <1>1, <1>3, <1>4, <3>2 DEF OrgPace
    <3>4. InStep => InStep'
      BY <1>1, <1>7, <3>1 DEF InStep
    <3> QED
      BY <3>3, <3>4
  <2>3. CASE o.state = "U"
    <3>1. h.left = Scaled(128) /\ (h.regs[4] = {} \/ h.regs[4] \in WordsHeard("org", "E"))
      BY <1>2, <2>1, <2>3 DEF OrgHeard, Joined
    <3>2. h.regs[4] # {}
      BY <1>2, <1>p, <2>1, CommonNone DEF Joined, DecodeReg
    <3>3. PICK g \in On("ans") : g.kind = "E" /\ g.seq = h.regs[4]
      BY <3>1, <3>2, WordsOn DEF Peer
    <3>4. (a.mode = "data" \/ a.state = "END") /\ h.regs[4] = CodeESeq(a.own, a.regs[4])
      BY <1>3, <3>3 DEF AnsLine
    <3>5. Final(a)
      BY <1>p, <3>2, <3>4, CommonNone DEF Final, DecodeReg
    <3>6. ASSUME dp["ans"] # "ERROR" PROVE InStep'
      <4>1. /\ ~Through(a) /\ Scaled(128) - Sym <= a.left /\ a.left <= Scaled(128)
        BY <1>3, <1>7, <1>8, <3>3, <3>5, <3>6 DEF EndPace, Carries
      <4> QED
        BY <1>1, <1>7, <1>p, <3>1, <4>1 DEF InStep
    <3> QED
      BY <3>4, <3>5, <3>6
  <2> QED
    BY <1>2, <2>1, <2>2, <2>3 DEF OrgHeard, Joined
<1>10. AnsPace'
  <2>1. SUFFICES ASSUME Bound(a), dp["ans"] # "ERROR"
                 PROVE  /\ h.state \in {"U", "V", "ERROR"}
                        /\ h.txr = Reported(DecodeReg(a, 4))
    BY <1>1, <1>4 DEF AnsPace
  <2>2. o.state \in {"U", "V", "ERROR"} /\ o.txr = Reported(DecodeReg(a, 4))
    BY <1>3, <1>4, <2>1 DEF AnsPace
  <2> QED
    BY <1>2, <2>2 DEF OrgHeard
<1>11. EndPace'
  BY <1>8 DEF EndPace
<1> QED
  BY <1>5, <1>6, <1>9, <1>10, <1>11 DEF PaceInv, Sides


\* and B1 of the other station goes on, while a station that has heard E finds
\* the one that sent it waiting.
LEMMA AnsRxEndPace ==
  ASSUME PaceIInv, NEW rx, Receiving("ans", rx), NEW h, Listened("ans", h),
         RxEnd("ans", h)
  PROVE  PaceInv'
<1> DEFINE o == m["org"]
           a == m["ans"]
<1>0. StationIInv /\ RatesIInv /\ PaceInv
  BY DEF PaceIInv, RatesIInv
<1>p. /\ Sym \in Nat /\ "org" \in Sides /\ "ans" \in Sides /\ "org" # "ans"
      /\ o.left \in Int /\ a.left \in Int /\ o.data \in BOOLEAN
      /\ a.data \in BOOLEAN
  BY <1>0, Paced
<1>1. /\ m'["ans"] = h /\ m'["org"] = o
      /\ turn = "ans" /\ turn' = "ans" /\ pc = "rx" /\ pc' = "tx"
      /\ budget' = Sym /\ line' = line /\ dp' = dp /\ dp["ans"] # "ERROR"
  BY <1>0 DEF StationIInv, CallInv, Sides, RxEnd, Receiving, Alive
<1>2. /\ h.mode = "ans" /\ h.own = a.own /\ h.data = FALSE /\ AnsHeard(a, h)
      /\ h.status \in ConnectCodes => h.status = a.status
  BY DEF Listened
<1>3. /\ SidePace("org") /\ SidePace("ans") /\ OrgPace /\ AnsPace
      /\ SideRates("org")
  BY <1>0, <1>p DEF PaceInv, RatesIInv, RatesInv
<1>4. a.mode = "ans" /\ a.data = FALSE /\ ~Through(a) /\ ~Through(h)
  <2>1. a.mode = "ans"
    BY <1>0, <1>p, ReceivingFit
  <2>2. ~InBlock("ans")
    BY <1>1 DEF InBlock
  <2> QED
    BY <1>2, <1>3, <1>p, <2>1, <2>2 DEF SidePace, Through
<1>5. SidePace("ans")'
  <2>1. h.status \notin ConnectCodes
    BY <1>2, <1>3, <1>4 DEF SidePace
  <2>2. Closing(h) => h.left > 0
    <3>1. Closing(h) => a.state = "END" /\ h.left = a.left
      BY <1>2, <1>p DEF Closing, AnsHeard
    <3>2. a.state = "END" => a.left > 0
      BY <1>3, <1>4, <1>p DEF Closing, SidePace
    <3> QED
      BY <3>1, <3>2
  <2> QED
    BY <1>1, <1>2, <2>1, <2>2 DEF SidePace
<1>6. SidePace("org")'
  BY <1>0, <1>1, <1>p, OtherPace
<1>7. /\ After("ans")' = h.left - Sym /\ After("org")' = o.left
      /\ After("ans") = a.left - Sym /\ After("org") = o.left
  <2>1. Owed("ans")' = Sym
    BY <1>1 DEF Owed
  <2>2. After("ans")' = h.left - Sym /\ After("ans") = a.left - Sym
    BY <1>1, <2>1 DEF After
  <2>3. After("org")' = o.left /\ After("org") = o.left
    BY <1>1, <1>p DEF After
  <2> QED
    BY <2>2, <2>3
<1>8. a.state = "END" =>
        /\ h.state = "END" /\ h.left = a.left /\ DecodeReg(h, 4) = DecodeReg(a, 4)
        /\ After("ans")' = After("ans")
  <2>1. a.state = "END" => h.state = "END" /\ h.regs[4] = a.regs[4] /\ h.left = a.left
    BY <1>2 DEF AnsHeard
  <2> QED
    BY <1>2, <1>7, <2>1, DecodedSame
<1>9. OrgPace'
  <2>1. SUFFICES ASSUME Joined(o), dp["org"] # "ERROR"
                 PROVE  /\ Final(h) /\ h.state = "END"
                        /\ ~Through(o) => InStep'
    BY <1>1, <1>2 DEF OrgPace
  <2>2. /\ Final(a) /\ a.state = "END"
        /\ ~Through(o) => InStep
    BY <1>1, <1>3, <1>4, <2>1 DEF OrgPace
  <2>3. Final(h)
    BY <1>8, <2>2 DEF Final
  <2>4. InStep => InStep'
    BY <1>1, <1>4, <1>7, <1>8, <2>2 DEF InStep
  <2> QED
    BY <1>8, <2>2, <2>3, <2>4
<1>10. AnsPace'
  <2>1. SUFFICES ASSUME Final(h)
                 PROVE  /\ o.mode = "data" \/ o.state \in {"U", "V", "ERROR"}
                        /\ o.txr = Reported(DecodeReg(h, 4))
                        /\ Through(o) /\ dp["org"] # "ERROR" => Caught'
    BY <1>1, <1>2 DEF AnsPace, Bound
  <2>2. CASE Final(a) /\ DecodeReg(h, 4) = DecodeReg(a, 4)
    <3>1. /\ o.mode = "data" \/ o.state \in {"U", "V", "ERROR"}
          /\ o.txr = Reported(DecodeReg(a, 4))
          /\ Through(o) /\ dp["org"] # "ERROR" => Caught
      BY <1>1, <1>3, <1>4, <2>2 DEF AnsPace, Bound
    <3>2. Caught => Caught'
      BY <1>1, <1>8 DEF Caught
    <3> QED
      BY <2>2, <3>1, <3>2
  <2>3. CASE /\ Carries("org", "E") /\ o.mode = "org" /\ o.state = "U"
             /\ DecodeReg(o, 3) # NONE /\ DecodeReg(h, 4) = DecodeReg(o, 3)
    <3>1. o.txr = Reported(DecodeReg(h, 4))
      BY <1>3, <2>3 DEF SideRates, Coded, OrgCoded
    <3>2. ~InBlock("org")
      BY <1>1 DEF InBlock
    <3>3. ~Through(o)
      BY <1>3, <1>p, <2>3, <3>2 DEF SidePace, Through
    <3> QED
      BY <2>3, <3>1, <3>3
  <2> QED
    BY <1>0, <2>1, <2>2, <2>3, FinalHeard
<1>11. EndPace'
  BY <1>1, <1>p DEF EndPace, Fresh, Peer
<1> QED
  BY <1>5, <1>6, <1>9, <1>10, <1>11 DEF PaceInv, Sides

-----------------------------------------------------------------------------

\* A station that goes through in a transmit routine has all its rates.
LEMMA SendingFit ==
  ASSUME RatesIInv, NEW s \in Sides, turn = s, pc = "tx"
  PROVE  /\ m[s].data = TRUE => ~Unfit(m[s]) /\ Closing(m[s])
         /\ Closing(m[s]) /\ m[s].left <= budget => ~Unfit(m[s])
<1>1. /\ Good(m[s], budget) /\ m[s].mode = s /\ budget \in Nat /\ m[s].left \in Int
      /\ Unfit(m[s]) => Doomed(m[s], budget)
  BY SendingRates
<1>2. m[s].data = TRUE => ~Unfit(m[s])
  BY <1>1 DEF Doomed, Failing
<1>3. m[s].data = TRUE => Closing(m[s])
  BY <1>1, <1>2 DEF Good, Placed, Unfit, Closing
<1>4. Closing(m[s]) => m[s].state \in {"V", "END"}
  BY DEF Closing
<1>5. Closing(m[s]) /\ m[s].left <= budget => ~Unfit(m[s])
  BY <1>1, <1>4 DEF Doomed
<1> QED
  BY <1>2, <1>3, <1>5

\* The step of a countdown keeps the pace: the calling station's,
LEMMA OrgTxEndPace ==
  ASSUME PaceIInv, turn = "org", pc = "tx", NEW n \in Nat, n <= budget,
         NEW sig, NEW h, SentOn("org", h, n),
         m["org"].left > budget => n = budget,
         TxEnd("org", h, sig, n)
  PROVE  PaceInv'
<1> DEFINE g == m["org"]
           a == m["ans"]
<1>0. StationIInv /\ RatesIInv /\ PaceInv
  BY DEF PaceIInv, RatesIInv
<1>p. /\ Sym \in Nat /\ Scaled(128) \in Nat /\ Sym < Scaled(128)
      /\ "org" \in Sides /\ "ans" \in Sides /\ "org" # "ans"
      /\ g.left \in Int /\ a.left \in Int /\ g.data \in BOOLEAN
      /\ g.own \in Rates /\ budget \in Nat
  BY <1>0, Paced
<1>1. /\ m'["org"] = h /\ m'["ans"] = a /\ turn' = "org" /\ dp' = dp
      /\ budget' = budget - n /\ pc' = IF budget' = 0 THEN "end" ELSE "tx"
  BY <1>0, <1>p DEF StationIInv, CallInv, TxEnd
<1>2. g.mode = "org"
  BY <1>0, <1>p, SendingRates
<1>3. /\ h.mode = "org" /\ h.own = g.own /\ OrgSent(g, h)
      /\ h.status \in ConnectCodes => h.data = TRUE \/ h.status = g.status
      /\ h.data = TRUE => g.state = "V"
  BY DEF SentOn
<1>4. /\ SidePace("org") /\ OrgPace /\ AnsPace
      /\ g.data = TRUE => ~Unfit(g) /\ g.state = "V"
      /\ g.state = "V" /\ g.left <= budget => ~Unfit(g)
  BY <1>0, <1>2, <1>p, SendingFit DEF PaceInv, Closing
<1>5. /\ After("org")' = h.left - (budget - n) /\ After("org") = g.left - budget
      /\ InBlock("org") /\ InBlock("org")' /\ pc' # "rx"
  <2>1. Owed("org")' = budget - n /\ Owed("org") = budget
    BY <1>1, <1>p DEF Owed
  <2>2. pc' # "rx" /\ InBlock("org") /\ InBlock("org")'
    BY <1>1 DEF InBlock
  <2> QED
    BY <1>1, <2>1, <2>2 DEF After
  \* B1 goes on, or ends in this block.
<1>6. g.state = "V" =>
        \/ /\ g.left > budget /\ h.data = g.data /\ h.left > 0
           /\ After("org")' = After("org")
        \/ g.left <= budget /\ h.data = TRUE
  BY <1>3, <1>5, <1>p DEF OrgSent, RunDown
<1>7. g.data = TRUE => h.data = TRUE
  BY <1>4, <1>6
<1>8. SidePace("org")'
  <2>1. h.status \in ConnectCodes => h.data = TRUE
    BY <1>2, <1>3, <1>4, <1>7 DEF SidePace
  <2>2. Closing(h) /\ ~Through(h) => h.left > 0
    <3>1. Closing(h) => g.state \in {"U", "V"}
      BY <1>3 DEF Closing, OrgSent
    <3>2. CASE g.state = "V"
      BY <1>6, <3>2 DEF Through
    <3>3. CASE g.state = "U"
      BY <1>3, <1>p, <3>3 DEF Closing, OrgSent
    <3> QED
      BY <3>1, <3>2, <3>3
  <2> QED
    BY <1>1, <1>3, <1>5, <2>1, <2>2 DEF SidePace
<1>9. SidePace("ans")'
  BY <1>0, <1>1, <1>p, OtherPace
<1>10. OrgPace'
  <2>1. SUFFICES ASSUME Joined(h)
                 PROVE  /\ Final(a) /\ (a.mode = "data" \/ a.state = "END")
                        /\ dp["ans"] # "ERROR" /\ ~Through(h) => InStep'
    BY <1>1 DEF OrgPace
  <2>2. dp["org"] # "ERROR"
    BY <1>0, <1>5, <1>p DEF RatesIInv, RatesInv, SideRates
  <2>3. h.regs[4] # {}
    BY <1>3, <1>p, <2>1, CommonNone DEF Joined, DecodeReg
  <2>4. g.state = "V" /\ h.regs[3] = g.regs[3] /\ h.regs[4] = g.regs[4]
    BY <1>3, <2>1, <2>3 DEF Joined, OrgSent
  <2>5. Joined(g)
    BY <1>2, <1>3, <2>1, <2>4, DecodedSame DEF Joined
  <2>6. /\ Final(a) /\ (a.mode = "data" \/ a.state = "END")
        /\ dp["ans"] # "ERROR" /\ ~Through(g) => InStep
    BY <1>4, <2>2, <2>5 DEF OrgPace
  <2>7. ASSUME dp["ans"] # "ERROR", ~Through(h) PROVE InStep'
    <3>1. After("org")' = After("org")
      BY <1>6, <2>4, <2>7 DEF Through
    <3>2. ~Through(g)
      BY <1>2, <1>7, <2>7 DEF Through
    <3>3. InStep
      BY <2>6, <2>7, <3>2
    <3> QED
      BY <1>1, <3>1, <3>3 DEF InStep
  <2> QED
    BY <2>6, <2>7
<1>11. AnsPace'
  <2>1. SUFFICES ASSUME Bound(a), dp["ans"] # "ERROR"
                 PROVE  /\ h.state \in {"U", "V", "ERROR"}
                        /\ h.txr = Reported(DecodeReg(a, 4))
                        /\ Through(h) /\ dp["org"] # "ERROR" /\ ~Through(a) => Caught'
    BY <1>1 DEF AnsPace
  <2>2. /\ g.state \in {"U", "V", "ERROR"} /\ g.txr = Reported(DecodeReg(a, 4))
        /\ Through(g) /\ dp["org"] # "ERROR" /\ ~Through(a) => Caught
    BY <1>2, <1>4, <2>1 DEF AnsPace
  <2>3. h.state \in {"U", "V", "ERROR"} /\ h.txr = Reported(DecodeReg(a, 4))
    BY <1>3, <2>2 DEF OrgSent
  <2>4. ASSUME Through(h), dp["org"] # "ERROR", ~Through(a) PROVE Caught'
    <3>1. SUFFICES a.state = "END" /\ a.left <= Sym
      BY <1>1, <1>3, <1>5 DEF Caught
    <3>2. CASE Through(g)
      BY <2>2, <2>4, <3>2 DEF Caught
    <3>3. CASE ~Through(g)
      <4>1. h.data = TRUE /\ g.state = "V" /\ g.left <= budget
        BY <1>2, <1>3, <1>6, <2>4, <3>3 DEF Through
      <4>2. Joined(g)
        BY <1>2, <1>4, <4>1 DEF Joined, Unfit
      <4>3. /\ a.mode = "data" \/ a.state = "END"
            /\ InStep
        BY <1>4, <2>1, <2>4, <3>3, <4>2 DEF OrgPace
      <4>4. After("org") <= 0 /\ a.left <= After("org") + Sym
        BY <1>5, <1>p, <2>4, <4>1, <4>3 DEF InStep
      <4>5. a.state = "END"
        BY <2>1, <4>3 DEF Bound
      <4> QED
        BY <1>5, <1>p, <4>4, <4>5
    <3> QED
      BY <3>2, <3>3
  <2> QED
    BY <2>3, <2>4
<1>12. EndPace'
  BY <1>1, <1>5, <1>p DEF EndPace, Fresh, Peer
<1> QED
  BY <1>8, <1>9, <1>10, <1>11, <1>12 DEF PaceInv, Sides

\* and the answering station's, whose B1 begins as it sends E.
LEMMA AnsTxEndPace ==
  ASSUME PaceIInv, turn = "ans", pc = "tx", NEW n \in Nat, n <= budget,
         NEW sig, Sounds(m["ans"], sig, n), NEW h, SentOn("ans", h, n),
         m["ans"].left > budget => n = budget,
         TxEnd("ans", h, sig, n)
  PROVE  PaceInv'
<1> DEFINE g == m["ans"]
           o == m["org"]
<1>0. StationIInv /\ RatesIInv /\ PaceInv
  BY DEF PaceIInv, RatesIInv
<1>p. /\ Sym \in Nat /\ Scaled(128) \in Nat /\ Sym < Scaled(128)
      /\ "org" \in Sides /\ "ans" \in Sides /\ "org" # "ans"
      /\ g.left \in Int /\ o.left \in Int /\ g.data \in BOOLEAN
      /\ g.own \in Rates /\ budget \in Nat /\ budget <= Sym
  BY <1>0, Paced
<1>1. /\ m'["ans"] = h /\ m'["org"] = o /\ turn' = "ans" /\ dp' = dp
      /\ budget' = budget - n /\ pc' = IF budget' = 0 THEN "end" ELSE "tx"
  BY <1>0, <1>p DEF StationIInv, CallInv, TxEnd
<1>2. g.mode = "ans" /\ Coded(g) /\ Placed(g)
  BY <1>0, <1>p, SendingRates DEF Good
<1>3. /\ h.mode = "ans" /\ h.own = g.own /\ AnsSent(g, h)
      /\ h.status \in ConnectCodes => h.data = TRUE \/ h.status = g.status
      /\ h.data = TRUE => g.state = "END"
  BY <1>p DEF SentOn
<1>4. /\ SidePace("ans") /\ OrgPace /\ AnsPace /\ EndPace
      /\ g.data = TRUE => g.state = "END"
  BY <1>0, <1>2, <1>p, SendingFit DEF PaceInv, Closing
<1>5. /\ After("ans")' = h.left - (budget - n) /\ After("ans") = g.left - budget
      /\ InBlock("ans") /\ InBlock("ans")' /\ pc' # "rx"
  <2>1. Owed("ans")' = budget - n /\ Owed("ans") = budget
    BY <1>1, <1>p DEF Owed
  <2>2. pc' # "rx" /\ InBlock("ans") /\ InBlock("ans")'
    BY <1>1 DEF InBlock
  <2> QED
    BY <1>1, <2>1, <2>2 DEF After
<1>6. g.state = "END" =>
        \/ /\ g.left > budget /\ h.data = g.data /\ h.left > 0
           /\ After("ans")' = After("ans")
        \/ g.left <= budget /\ h.data = TRUE
  BY <1>3, <1>5, <1>p DEF AnsSent, RunDown
<1>7. g.data = TRUE => h.data = TRUE
  BY <1>4, <1>6
<1>8. SidePace("ans")'
  <2>1. h.status \in ConnectCodes => h.data = TRUE
    BY <1>2, <1>3, <1>4, <1>7 DEF SidePace
  <2>2. Closing(h) /\ ~Through(h) => h.left > 0
    <3>1. Closing(h) => h.state = "END" /\ g.state \in {"Z", "END"}
      BY <1>3, <1>p DEF Closing, AnsSent
    <3>2. CASE g.state = "END"
      BY <1>6, <3>2 DEF Through
    <3>3. CASE g.state = "Z"
      BY <1>3, <1>p, <3>1, <3>3 DEF AnsSent
    <3> QED
      BY <3>1, <3>2, <3>3
  <2> QED
    BY <1>1, <1>3, <1>5, <2>1, <2>2 DEF SidePace
<1>9. SidePace("org")'
  BY <1>0, <1>1, <1>p, OtherPace
<1>10. g.state = "END" => h.state = "END" /\ DecodeReg(h, 4) = DecodeReg(g, 4)
  <2>1. g.state = "END" => h.state = "END" /\ h.regs[4] = g.regs[4]
    BY <1>3 DEF AnsSent
  <2> QED
    BY <1>3, <2>1, DecodedSame
<1>11. OrgPace'
  <2>1. SUFFICES ASSUME Joined(o), dp["org"] # "ERROR"
                 PROVE  /\ Final(h) /\ h.state = "END"
                        /\ dp["ans"] # "ERROR" /\ ~Through(o) => InStep'
    BY <1>1 DEF OrgPace
  <2>2. /\ Final(g) /\ g.state = "END"
        /\ dp["ans"] # "ERROR" /\ ~Through(o) => InStep
    BY <1>2, <1>4, <2>1 DEF OrgPace
  <2>3. Final(h) /\ h.state = "END"
    BY <1>10, <2>2 DEF Final
  <2>4. ASSUME InStep PROVE InStep'
    <3>1. CASE Through(g)
      <4>1. Through(h)
        BY <1>2, <1>7, <3>1 DEF Through
      <4>2. o.left <= Sym
        BY <2>4, <3>1 DEF InStep
      <4> QED
        BY <1>1, <1>5, <1>p, <4>1, <4>2 DEF InStep
    <3>2. CASE ~Through(g)
      <4>1. After("ans") <= o.left /\ o.left <= After("ans") + Sym
        BY <1>p, <2>4, <3>2 DEF InStep
      <4>2. CASE g.left > budget
        <5>1. h.data = g.data /\ After("ans")' = After("ans")
          BY <1>6, <1>p, <2>2, <4>2
        <5>2. ~Through(h)
          BY <1>3, <3>2, <5>1 DEF Through
        <5> QED
          BY <1>1, <1>p, <4>1, <5>1, <5>2 DEF InStep
      <4>3. CASE g.left <= budget
        <5>1. Through(h)
          BY <1>6, <1>p, <2>2, <4>3 DEF Through
        <5>2. o.left <= Sym
          BY <1>5, <1>p, <4>1, <4>3
        <5> QED
          BY <1>1, <1>5, <1>p, <5>1, <5>2 DEF InStep
      <4> QED
        BY <1>p, <4>2, <4>3
    <3> QED
      BY <3>1, <3>2
  <2> QED
    BY <2>2, <2>3, <2>4
<1>12. ASSUME Final(h)
       PROVE  Final(g) /\ DecodeReg(h, 4) = DecodeReg(g, 4)
  BY <1>0, <1>12, FinalSent
<1>13. AnsPace'
  <2>1. SUFFICES ASSUME Final(h), dp["ans"] # "ERROR"
                 PROVE  /\ o.mode = "data" \/ o.state \in {"U", "V", "ERROR"}
                        /\ o.txr = Reported(DecodeReg(h, 4))
                        /\ ~(Through(o) /\ dp["org"] # "ERROR" /\ ~Through(h))
    BY <1>1 DEF AnsPace, Bound
  <2>2. Bound(g) /\ DecodeReg(h, 4) = DecodeReg(g, 4)
    BY <1>2, <1>12, <2>1 DEF Bound
  <2>3. /\ o.mode = "data" \/ o.state \in {"U", "V", "ERROR"}
        /\ o.txr = Reported(DecodeReg(g, 4))
        /\ Through(o) /\ dp["org"] # "ERROR" /\ ~Through(g) => Caught
    BY <1>4, <2>1, <2>2 DEF AnsPace
  <2>4. ASSUME Through(o), dp["org"] # "ERROR", ~Through(h) PROVE FALSE
    <3>1. ~Through(g)
      BY <1>2, <1>7, <2>4 DEF Through
    <3>2. g.state = "END" /\ After("ans") <= 0
      BY <1>p, <2>3, <2>4, <3>1 DEF Caught
    <3>3. g.left <= budget
      BY <1>5, <1>p, <3>2
    <3> QED
      BY <1>6, <1>p, <2>4, <3>2, <3>3 DEF Through
  <2> QED
    BY <2>2, <2>3, <2>4
<1>14. EndPace'
  <2>1. SUFFICES ASSUME Fresh("ans")', Carries("ans", "E")', Final(h),
                        dp["ans"] # "ERROR"
                 PROVE  /\ h.state = "END" /\ ~Through(h)
                        /\ Scaled(128) - Sym <= After("ans")'
                        /\ After("ans")' <= Scaled(128)
    BY <1>1, <1>3 DEF EndPace
  <2>2. PICK x \in On("ans")' : x.kind = "E"
    BY <2>1 DEF Carries
  <2>3. \/ x = sig /\ n > 0
        \/ x \in On("ans") /\ (n = 0 \/ budget # Sym)
    BY <1>0, <1>p, TxEndOn
  <2>4. CASE x = sig /\ n > 0
    <3>1. g.gen.kind = "E" /\ g.tx = "ScrSequence" /\ g.left <= budget
      BY <1>p, <2>2, <2>4 DEF Sounds
    <3>2. g.state = "Z"
      BY <1>2, <1>p, <3>1 DEF Coded, AnsCoded, Placed
    <3>3. h.state = "END" /\ h.left = Scaled(128)
      BY <1>3, <3>1, <3>2 DEF AnsSent
    <3>4. ~Through(h)
      BY <1>3, <3>2 DEF Through
    <3> QED
      BY <1>5, <1>p, <3>3, <3>4
  <2>5. CASE x \in On("ans") /\ (n = 0 \/ budget # Sym)
    <3>1. budget < Sym
      BY <1>1, <1>p, <2>1, <2>5, Times DEF Fresh, Peer
    <3>2. Fresh("ans") /\ Carries("ans", "E")
      BY <2>2, <2>5, <3>1 DEF Fresh, Carries
    <3>3. /\ g.state = "END" /\ ~Through(g)
          /\ Scaled(128) - Sym <= After("ans") /\ After("ans") <= Scaled(128)
      BY <1>4, <1>12, <2>1, <3>2 DEF EndPace
    <3>4. g.left > budget
      BY <1>5, <1>p, <3>3
    <3>5. h.data = g.data /\ After("ans")' = After("ans")
      BY <1>6, <1>p, <3>3, <3>4
    <3>6. ~Through(h)
      BY <1>2, <1>3, <3>3, <3>5 DEF Through
    <3> QED
      BY <1>10, <3>3, <3>5, <3>6
  <2> QED
    BY <2>3, <2>4, <2>5
<1> QED
  BY <1>8, <1>9, <1>11, <1>13, <1>14 DEF PaceInv, Sides

\* So every receive routine keeps the pace.
LEMMA ReceivePace ==
  ASSUME PaceIInv, NEW s \in Sides, Receive(s)
  PROVE  PaceInv'
<1>1. PICK rx, h : Receiving(s, rx) /\ Listened(s, h) /\ RxEnd(s, h)
  BY ReceiveHeard DEF PaceIInv, Received
<1>2. CASE s = "org"
  BY <1>1, <1>2, OrgRxEndPace
<1>3. CASE s = "ans"
  BY <1>1, <1>3, AnsRxEndPace
<1> QED
  BY <1>2, <1>3 DEF Sides

\* A routine asked for too many symbols: in a state where no B1 is sent.
LEMMA OverrunPace ==
  ASSUME PaceIInv, NEW s \in Sides, TxHdxOverrun(s)
  PROVE  PaceInv'
<1>0. StationIInv /\ RatesIInv /\ PaceInv
  BY DEF PaceIInv, RatesIInv
<1>1. /\ turn = s /\ turn' = s /\ pc = "tx" /\ pc' = "end"
      /\ m' = m /\ dp' = dp /\ overrun'[s] = TRUE
  BY <1>0 DEF TxHdxOverrun, StationIInv, CallInv
<1>2. m[s].mode = s
  BY <1>0, <1>1, SendingRates
<1>3. m[s].state = IF s = "ans" THEN "C" ELSE "P"
  <2>1. SideInv(s)'
    BY <1>0, OverrunKeeps DEF StationIInv
  <2> QED
    BY <1>1, <2>1 DEF SideInv
<1>4. OrgPace /\ AnsPace /\ EndPace /\ \A t \in Sides : SidePace(t)
  BY <1>0 DEF PaceInv
<1>5. ASSUME NEW t \in Sides PROVE SidePace(t)'
  <2>1. InBlock(t)' <=> InBlock(t)
    BY <1>1 DEF InBlock
  <2> QED
    BY <1>1, <1>4, <2>1 DEF SidePace
<1>6. CASE s = "org"
  <2>1. ~Joined(m["org"])
    BY <1>3, <1>6 DEF Joined
  <2>2. ~(Bound(m["ans"]) /\ dp["ans"] # "ERROR")
    BY <1>2, <1>3, <1>4, <1>6 DEF AnsPace
  <2>3. OrgPace' /\ AnsPace'
    BY <1>1, <2>1, <2>2 DEF OrgPace, AnsPace
  <2>4. EndPace'
    BY <1>1, <1>6 DEF EndPace, Fresh, Peer
  <2> QED
    BY <1>5, <2>3, <2>4 DEF PaceInv
<1>7. CASE s = "ans"
  <2>1. ~Final(m["ans"])
    BY <1>2, <1>3, <1>7 DEF Final
  <2>2. ~(Joined(m["org"]) /\ dp["org"] # "ERROR")
    BY <1>4, <2>1 DEF OrgPace
  <2>3. OrgPace'
    BY <1>1, <2>2 DEF OrgPace
  <2>4. AnsPace'
    BY <1>1, <2>1 DEF AnsPace, Bound
  <2>5. EndPace'
    BY <1>1, <2>1 DEF EndPace
  <2> QED
    BY <1>5, <2>3, <2>4, <2>5 DEF PaceInv
<1> QED
  BY <1>6, <1>7 DEF Sides

\* Every transmit routine keeps the pace.
LEMMA TransmitPace ==
  ASSUME PaceIInv, NEW s \in Sides, Transmit(s)
  PROVE  PaceInv'
<1>1. CASE Transmitted(s)
  <2>1. turn = s /\ pc = "tx"
    BY <1>1 DEF Transmitted
  <2>2. PICK n \in Nat : \E sig, h :
          /\ n <= budget /\ Sounds(m[s], sig, n) /\ SentOn(s, h, n)
          /\ m[s].left > budget => n = budget
          /\ TxEnd(s, h, sig, n)
    BY <1>1 DEF Transmitted
  <2>3. PICK sig, h :
          /\ n <= budget /\ Sounds(m[s], sig, n) /\ SentOn(s, h, n)
          /\ m[s].left > budget => n = budget
          /\ TxEnd(s, h, sig, n)
    BY <2>2
  <2>4. CASE s = "org"
    BY <2>1, <2>3, <2>4, OrgTxEndPace
  <2>5. CASE s = "ans"
    BY <2>1, <2>3, <2>5, AnsTxEndPace
  <2> QED
    BY <2>4, <2>5 DEF Sides
<1>2. CASE TxHdxOverrun(s)
  BY <1>2, OverrunPace
<1> QED
  BY <1>1, <1>2, TransmitSent DEF PaceIInv

\* In data mode no station posts a connection, and none is in data mode while
\* the other still sends the B1 it waits for.
LEMMA DataPace ==
  ASSUME PaceIInv, NEW s \in Sides, v32_data(s) \/ v32_data_control(s)
  PROVE  PaceInv'
<1> DEFINE g == m[s]
<1>0. StationIInv /\ RatesIInv /\ PaceInv
  BY DEF PaceIInv, RatesIInv
<1>1. Carried(s)
  BY <1>0, DataCarried, ControlCarried
<1>2. PICK h : Onward(s, g, h) /\ m' = [m EXCEPT ![s] = h]
  BY <1>1 DEF Carried
<1>3. /\ m'[s] = h /\ \A t \in Sides : t # s => m'[t] = m[t]
      /\ turn = s /\ turn' = s /\ pc = "rx" /\ pc' = "end" /\ dp' = dp
      /\ g.mode = "data" /\ dp[s] # "ERROR" /\ DataEnd(s)
  BY <1>0, <1>1, <1>2
     DEF Carried, DataBlock, DataEnd, Alive, StationIInv, CallInv
<1>4. OrgPace /\ AnsPace /\ EndPace /\ \A t \in Sides : SidePace(t)
  BY <1>0 DEF PaceInv
<1>5. \A t \in Sides : ~InBlock(t)
  BY <1>3 DEF InBlock
<1>6. InBlock(s)'
  BY <1>3 DEF InBlock
<1>7. "org" \in Sides /\ "ans" \in Sides /\ "org" # "ans" /\ s # "data"
  BY DEF Sides
<1>8. h.mode = "data" \/ (h.mode = s /\ h.state = "B2")
  BY <1>2 DEF Onward
<1>9. SidePace(s)'
  <2>1. h.status \notin ConnectCodes
    BY <1>2 DEF Onward
  <2>2. h.mode = s => ~Closing(h)
    BY <1>7, <1>8 DEF Closing
  <2> QED
    BY <1>3, <1>6, <2>1, <2>2 DEF SidePace
<1>10. \A t \in Sides : SidePace(t)'
  <2>1. ASSUME NEW t \in Sides, t # s PROVE SidePace(t)'
    BY <1>0, <1>3, <2>1, OtherPace
  <2> QED
    BY <1>9, <2>1
<1>11. CASE s = "org"
  <2>1. m'["ans"] = m["ans"] /\ m'["org"] = h
    BY <1>3, <1>7, <1>11
  <2>2. ~Joined(h)
    BY <1>7, <1>8, <1>11 DEF Joined
  <2>3. ASSUME Bound(m["ans"]), dp["ans"] # "ERROR" PROVE FALSE
    <3>1. ~Caught
      BY <1>3, <1>5, <1>7, <1>11 DEF Caught
    <3>2. Through(m["ans"])
      BY <1>3, <1>4, <1>11, <2>3, <3>1 DEF AnsPace, Through
    <3>3. m["ans"].mode = "ans" /\ m["ans"].data = TRUE
      BY <2>3, <3>2 DEF Bound, Through
    <3> QED
      BY <1>4, <1>5, <1>7, <3>3 DEF SidePace
  <2>4. OrgPace'
    BY <2>1, <2>2 DEF OrgPace
  <2>5. AnsPace'
    BY <1>3, <2>1, <2>3 DEF AnsPace
  <2>6. EndPace'
    BY <1>3, <1>7, <1>11 DEF EndPace, Fresh, Peer
  <2> QED
    BY <1>10, <2>4, <2>5, <2>6 DEF PaceInv
<1>12. CASE s = "ans"
  <2>1. m'["org"] = m["org"] /\ m'["ans"] = h
    BY <1>3, <1>7, <1>12
  <2>2. ~Bound(h)
    BY <1>7, <1>8, <1>12 DEF Bound, Final
  <2>3. ASSUME Joined(m["org"]), dp["org"] # "ERROR" PROVE FALSE
    <3>1. ~InStep
      BY <1>3, <1>7, <1>12 DEF InStep, Through
    <3>2. Through(m["org"])
      BY <1>3, <1>4, <1>12, <2>3, <3>1 DEF OrgPace
    <3>3. m["org"].mode = "org" /\ m["org"].data = TRUE
      BY <2>3, <3>2 DEF Joined, Through
    <3> QED
      BY <1>4, <1>5, <1>7, <3>3 DEF SidePace
  <2>4. OrgPace'
    BY <1>3, <2>1, <2>3 DEF OrgPace
  <2>5. AnsPace'
    BY <2>1, <2>2 DEF AnsPace
  <2>6. ~Carries("ans", "E")'
    <3>1. line'["ans"] = << Gen("data") >>
      BY <1>0, <1>3, <1>12 DEF DataEnd, StationIInv, CallInv
    <3>2. \A i \in 1 .. Len(<< Gen("data") >>) : << Gen("data") >>[i].kind = "data"
      BY DEF Gen
    <3> QED
      BY <3>1, <3>2 DEF Carries, On
  <2>7. EndPace'
    BY <2>6 DEF EndPace
  <2> QED
    BY <1>10, <2>4, <2>5, <2>7 DEF PaceInv
<1> QED
  BY <1>11, <1>12 DEF Sides

\* A station that is through at the end of a block has all its rates.
LEMMA ThroughFit ==
  ASSUME RatesIInv, NEW s \in Sides, InBlock(s), m[s].mode = s, m[s].data = TRUE
  PROVE  ~Unfit(m[s]) /\ Closing(m[s])
<1>1. ~Unfit(m[s])
  BY DEF RatesIInv, RatesInv, SideRates, Doomed, Failing
<1>2. Placed(m[s])
  BY DEF RatesIInv, StationIInv, SideInv, Good
<1> QED
  BY <1>1, <1>2 DEF Placed, Unfit, Closing

\* The end of a block: the other's countdown is about to be charged its own.
LEMMA ProcessPace ==
  ASSUME PaceIInv, NEW s \in Sides, v32_process(s)
  PROVE  PaceInv'
<1> DEFINE g == m[s]
           d == [m[s] EXCEPT !.mode = "data", !.state = "DONT_CARE"]
           h == IF m[s].data THEN d ELSE m[s]
<1>0. StationIInv /\ RatesIInv /\ PaceInv
  BY DEF PaceIInv, RatesIInv
<1>1. /\ m'[s] = h /\ \A t \in Sides : t # s => m'[t] = m[t] /\ dp'[t] = dp[t]
      /\ turn = s /\ pc = "end" /\ turn' = Peer(s) /\ pc' = "rx"
      /\ line' = line
  BY <1>0 DEF v32_process, StationIInv, CallInv
<1>2. /\ g.data \in BOOLEAN /\ Ctx(g) /\ g.mode \in {s, "data"} /\ g.left \in Int
  BY <1>0 DEF StationIInv, SideInv, Ctx, Counted
<1>p. /\ "org" \in Sides /\ "ans" \in Sides /\ "org" # "ans" /\ s # "data"
      /\ Sym \in Nat /\ \A t \in Sides : m[t].left \in Int
  BY <1>0, Paced DEF Sides
<1>3. /\ OrgPace /\ AnsPace /\ EndPace /\ \A t \in Sides : SidePace(t)
  BY <1>0 DEF PaceInv
<1>4. InBlock(s) /\ dp[s] # "ERROR" /\ \A t \in Sides : ~InBlock(t)'
  <2>1. InBlock(s)
    BY <1>1 DEF InBlock
  <2> QED
    BY <1>0, <1>1, <2>1 DEF InBlock, RatesIInv, RatesInv, SideRates
<1>5. /\ h.own = g.own /\ h.regs = g.regs /\ h.txr = g.txr /\ h.left = g.left
      /\ g.data = TRUE => h.mode = "data"
      /\ g.data = FALSE => h = g
  BY <1>2 DEF Ctx, Fields
<1> HIDE DEF h, d
<1>6. DecodeReg(h, 4) = DecodeReg(g, 4)
  BY <1>5 DEF DecodeReg
<1>7. /\ h.mode = s => h = g /\ g.mode = s /\ ~Through(g)
      /\ Through(h) => Through(g)
      /\ Through(g) => Through(h)
  BY <1>2, <1>5, <1>p DEF Through
<1>8. g.mode = s /\ Closing(g) /\ ~Through(g) => g.left > 0
  BY <1>3 DEF SidePace
<1>9. SidePace(s)'
  <2>1. h.mode = s => h.status \notin ConnectCodes
    BY <1>3, <1>7 DEF SidePace, Through
  <2>2. h.mode = s => h.data # TRUE
    BY <1>7 DEF Through
  <2>3. h.mode = s /\ Closing(h) => h.left > 0
    BY <1>7, <1>8
  <2> QED
    BY <1>1, <1>4, <2>1, <2>2, <2>3 DEF SidePace
<1>10. \A t \in Sides : SidePace(t)'
  <2>1. ASSUME NEW t \in Sides, t # s PROVE SidePace(t)'
    <3>1. SidePace(t) /\ ~InBlock(t) /\ ~InBlock(t)'
      BY <1>1, <1>3, <1>4, <2>1 DEF InBlock
    <3> QED
      BY <1>1, <2>1, <3>1 DEF SidePace
  <2> QED
    BY <1>9, <2>1
<1>11. After(s) = g.left /\ After(s)' = h.left
  <2>1. Owed(s) = 0 /\ turn' # s
    BY <1>1 DEF Owed, Peer, Sides
  <2> QED
    BY <1>1, <1>2, <1>5, <2>1 DEF After
<1>12. ASSUME NEW t \in Sides, t # s
       PROVE  After(t) = m[t].left /\ After(t)' = m[t].left - Sym
  <2>1. turn' = t
    BY <1>1, <1>12 DEF Peer, Sides
  <2> QED
    BY <1>1, <1>12, <1>p, <2>1 DEF After
<1>13. CASE s = "org"
  <2> DEFINE a == m["ans"]
  <2>0. /\ m'["ans"] = a /\ m'["org"] = h /\ dp'["ans"] = dp["ans"]
        /\ turn' = "ans" /\ After("ans")' = a.left - Sym /\ a.left \in Int
    BY <1>1, <1>12, <1>13, <1>p DEF Peer
  <2>1. OrgPace'
    <3>1. SUFFICES ASSUME Joined(h)
                   PROVE  /\ Final(a) /\ (a.mode = "data" \/ a.state = "END")
                          /\ dp["ans"] # "ERROR" => InStep'
      BY <2>0 DEF OrgPace
    <3>2. h = g /\ Joined(g) /\ ~Through(g) /\ Closing(g)
      BY <1>7, <1>13, <3>1 DEF Joined, Closing
    <3>3. /\ Final(a) /\ (a.mode = "data" \/ a.state = "END")
          /\ dp["ans"] # "ERROR" => InStep
      BY <1>3, <1>4, <1>13, <3>2 DEF OrgPace
    <3>4. g.left > 0
      BY <1>8, <1>13, <3>2 DEF Joined
    <3>5. ASSUME InStep PROVE InStep'
      <4>1. ~Through(a) /\ g.left <= a.left /\ a.left <= g.left + Sym
        BY <1>1, <1>2, <1>11, <1>13, <3>4, <3>5 DEF InStep
      <4> QED
        BY <1>1, <1>2, <1>5, <1>13, <1>p, <2>0, <4>1 DEF InStep
    <3> QED
      BY <3>3, <3>5
  <2>2. AnsPace'
    <3>1. SUFFICES ASSUME Bound(a), dp["ans"] # "ERROR"
                   PROVE  /\ h.mode = "data" \/ h.state \in {"U", "V", "ERROR"}
                          /\ h.txr = Reported(DecodeReg(a, 4))
                          /\ Through(h) /\ ~Through(a) => Caught'
      BY <2>0 DEF AnsPace
    <3>2. /\ g.mode = "data" \/ g.state \in {"U", "V", "ERROR"}
          /\ g.txr = Reported(DecodeReg(a, 4))
          /\ Through(g) /\ ~Through(a) => Caught
      BY <1>3, <1>4, <1>13, <3>1 DEF AnsPace
    <3>3. h.mode = "data" \/ h.state \in {"U", "V", "ERROR"}
      BY <1>2, <1>5, <3>2
    <3>4. ASSUME Caught PROVE Caught'
      <4>1. a.state = "END" /\ a.left <= Sym
        BY <1>1, <1>13, <3>4 DEF Caught
      <4> QED
        BY <1>p, <2>0, <4>1 DEF Caught
    <3> QED
      BY <1>5, <1>7, <3>2, <3>3, <3>4
  <2>3. EndPace'
    BY <1>1, <1>13, <1>p, <2>0 DEF EndPace, Fresh, Peer
  <2> QED
    BY <1>10, <2>1, <2>2, <2>3 DEF PaceInv
<1>14. CASE s = "ans"
  <2> DEFINE o == m["org"]
  <2>0. /\ m'["org"] = o /\ m'["ans"] = h /\ dp'["org"] = dp["org"]
        /\ turn' = "org" /\ After("org")' = o.left - Sym /\ o.left \in Int
    BY <1>1, <1>12, <1>14, <1>p DEF Peer
  <2>1. OrgPace'
    <3>1. SUFFICES ASSUME Joined(o), dp["org"] # "ERROR"
                   PROVE  /\ Final(h) /\ (h.mode = "data" \/ h.state = "END")
                          /\ ~Through(o) => InStep'
      BY <2>0 DEF OrgPace
    <3>2. /\ Final(g) /\ (g.mode = "data" \/ g.state = "END")
          /\ ~Through(o) => InStep
      BY <1>3, <1>4, <1>14, <3>1 DEF OrgPace
    <3>3. h.mode = "data" \/ h = g
      BY <1>2, <1>5
    <3>4. Final(h) /\ (h.mode = "data" \/ h.state = "END")
      BY <1>6, <3>2, <3>3 DEF Final
    <3>5. ASSUME InStep PROVE InStep'
      <4>1. CASE Through(g)
        <5>1. o.left <= Sym
          BY <1>1, <1>14, <1>p, <3>5, <4>1 DEF InStep
        <5> QED
          BY <1>7, <1>p, <2>0, <4>1, <5>1 DEF InStep
      <4>2. CASE ~Through(g)
        <5>1. g.left <= o.left /\ o.left <= g.left + Sym
          BY <1>1, <1>11, <1>14, <1>p, <3>5, <4>2 DEF InStep
        <5>2. ~Through(h)
          BY <1>7, <4>2
        <5> QED
          BY <1>2, <1>5, <1>14, <1>p, <2>0, <5>1, <5>2 DEF InStep
      <4> QED
        BY <4>1, <4>2
    <3> QED
      BY <3>2, <3>4, <3>5
  <2>2. AnsPace'
    <3>1. SUFFICES ASSUME Bound(h)
                   PROVE  /\ o.mode = "data" \/ o.state \in {"U", "V", "ERROR"}
                          /\ o.txr = Reported(DecodeReg(h, 4))
                          /\ ~(Through(o) /\ dp["org"] # "ERROR")
      BY <2>0 DEF AnsPace
    <3>2. h = g /\ g.mode = "ans" /\ ~Through(g) /\ Bound(g)
      BY <1>7, <1>14, <3>1 DEF Bound
    <3>3. /\ o.mode = "data" \/ o.state \in {"U", "V", "ERROR"}
          /\ o.txr = Reported(DecodeReg(g, 4))
          /\ Through(o) /\ dp["org"] # "ERROR" => Caught
      BY <1>3, <1>4, <1>14, <3>2 DEF AnsPace
    <3>4. ~Caught
      <4>1. ASSUME Caught PROVE FALSE
        <5>1. g.state = "END" /\ g.left <= 0
          BY <1>1, <1>11, <1>14, <1>p, <4>1 DEF Caught
        <5> QED
          BY <1>2, <1>8, <1>14, <1>p, <3>2, <5>1 DEF Closing
      <4> QED
        BY <4>1
    <3> QED
      BY <3>2, <3>3, <3>4
  <2>3. EndPace'
    <3>1. SUFFICES ASSUME Carries("ans", "E")', Final(h)
                   PROVE  /\ h.mode = "ans" /\ h.state = "END" /\ ~Through(h)
                          /\ Scaled(128) - Sym <= After("ans")'
                          /\ After("ans")' <= Scaled(128)
      BY <2>0 DEF EndPace
    <3>2. Fresh("ans") /\ Carries("ans", "E")
      BY <1>1, <1>14, <3>1 DEF Fresh, Carries, On
    <3>3. Final(g)
      <4>1. CASE g.data = TRUE /\ g.mode = s
        <5>1. g.state = "END"
          BY <1>0, <1>4, <1>14, <1>p, <4>1, ThroughFit DEF Closing
        <5> QED
          BY <1>6, <3>1, <5>1 DEF Final
      <4>2. CASE g.mode = "data"
        BY <1>6, <3>1, <4>2 DEF Final
      <4>3. CASE g.data = FALSE
        BY <1>5, <3>1, <4>3
      <4> QED
        BY <1>2, <4>1, <4>2, <4>3
    <3>4. /\ g.mode = "ans" /\ g.state = "END" /\ ~Through(g)
          /\ Scaled(128) - Sym <= After("ans") /\ After("ans") <= Scaled(128)
      BY <1>3, <1>4, <1>14, <3>2, <3>3 DEF EndPace
    <3>5. h = g
      BY <1>2, <1>5, <3>4 DEF Through
    <3> QED
      BY <1>5, <1>11, <1>14, <3>4, <3>5
  <2> QED
    BY <1>10, <2>1, <2>2, <2>3 DEF PaceInv
<1> QED
  BY <1>13, <1>14 DEF Sides

\* A station that has failed keeps no pace.
LEMMA ErrorPace ==
  ASSUME PaceIInv, NEW s \in Sides, v32_process_error(s)
  PROVE  PaceInv'
<1>0. StationIInv /\ RatesIInv /\ PaceInv
  BY DEF PaceIInv, RatesIInv
<1>1. /\ turn = s /\ pc = "rx" /\ turn' = Peer(s) /\ pc' = "rx"
      /\ m' = m /\ dp' = dp /\ line'[s] = << Gen("silence") >>
  BY <1>0 DEF v32_process_error, StationIInv, CallInv
<1>2. OrgPace /\ AnsPace /\ \A t \in Sides : SidePace(t)
  BY <1>0 DEF PaceInv
<1>3. ASSUME NEW t \in Sides PROVE SidePace(t)'
  <2>1. ~InBlock(t) /\ ~InBlock(t)'
    BY <1>1 DEF InBlock
  <2> QED
    BY <1>1, <1>2, <2>1 DEF SidePace
<1>4. \/ dp[s] = "ERROR"
      \/ m[s].mode = s /\ m[s].state = IF s = "ans" THEN "C" ELSE "P"
  BY <1>0 DEF v32_process_error, Alive, StationIInv, SideInv
<1>5. CASE s = "org"
  <2>1. ~(Joined(m["org"]) /\ dp["org"] # "ERROR")
    BY <1>4, <1>5 DEF Joined
  <2>2. OrgPace'
    BY <1>1, <2>1 DEF OrgPace
  <2>3. ASSUME Bound(m["ans"]), dp["ans"] # "ERROR" PROVE dp["org"] = "ERROR"
    BY <1>2, <1>4, <1>5, <2>3 DEF AnsPace
  <2>4. AnsPace'
    BY <1>1, <1>2, <2>3 DEF AnsPace
  <2>5. EndPace'
    BY <1>1, <1>5 DEF EndPace, Fresh, Peer
  <2> QED
    BY <1>3, <2>2, <2>4, <2>5 DEF PaceInv
<1>6. CASE s = "ans"
  <2>1. ~(Final(m["ans"]) /\ m["ans"].mode = "ans" /\ dp["ans"] # "ERROR")
    BY <1>4, <1>6 DEF Final
  <2>2. ASSUME Joined(m["org"]), dp["org"] # "ERROR" PROVE dp["ans"] = "ERROR"
    BY <1>2, <1>4, <1>6, <2>2 DEF OrgPace, Final
  <2>3. OrgPace'
    BY <1>1, <1>2, <2>2 DEF OrgPace
  <2>4. AnsPace'
    BY <1>1, <2>1 DEF AnsPace, Bound
  <2>5. ~Carries("ans", "E")'
    <3>1. \A i \in 1 .. Len(<< Gen("silence") >>) :
            << Gen("silence") >>[i].kind = "silence"
      BY DEF Gen
    <3> QED
      BY <1>1, <1>6, <3>1 DEF Carries, On
  <2>6. EndPace'
    BY <2>5 DEF EndPace
  <2> QED
    BY <1>3, <2>3, <2>4, <2>6 DEF PaceInv
<1> QED
  BY <1>5, <1>6 DEF Sides

\* Two stations as v32_create leaves them are in no B1.
LEMMA InitPace ==
  ASSUME Init
  PROVE  PaceInv
<1>1. PICK cfg \in Calls : m = [s \in Sides |-> Created(s, cfg[s], TRUE)]
  BY DEF Init
<1>2. ASSUME NEW s \in Sides
      PROVE  /\ m[s].mode = s /\ m[s].state = "A" /\ m[s].status = 1
             /\ m[s].data = FALSE
  <2>1. LET c == Created(s, cfg[s], TRUE)
        IN c.mode = s /\ c.state = "A" /\ c.status = 1 /\ c.data = FALSE
    BY DEF Created
  <2>2. m[s] = Created(s, cfg[s], TRUE)
    BY <1>1
  <2> QED
    BY <2>1, <2>2
<1>3. ASSUME NEW s \in Sides PROVE SidePace(s)
  <2>1. m[s].status \notin ConnectCodes /\ s # "data"
    BY <1>2 DEF ConnectCodes, Sides
  <2>2. ~Closing(m[s])
    BY <1>2 DEF Closing
  <2> QED
    BY <1>2, <2>1, <2>2 DEF SidePace
<1>4. ~Joined(m["org"]) /\ ~Final(m["ans"])
  BY <1>2 DEF Joined, Final, Sides
<1> QED
  BY <1>3, <1>4 DEF PaceInv, OrgPace, AnsPace, EndPace, Bound

\* Every step keeps the pace.
LEMMA NextPace ==
  ASSUME PaceIInv, [Next]_vars
  PROVE  PaceIInv'
<1>1. RatesIInv'
  BY NextRates DEF PaceIInv
<1>2. CASE UNCHANGED vars
  <2>1. PaceInv'
    BY <1>2 DEF vars, PaceIInv, PaceInv, SidePace, InBlock, Owed, After,
       OrgPace, AnsPace, EndPace, InStep, Caught, Fresh, On, Carries
  <2> QED
    BY <1>1, <2>1 DEF PaceIInv
<1>3. ASSUME NEW s \in Sides, Block(s)
      PROVE  PaceInv'
  BY <1>3, ReceivePace, TransmitPace, DataPace, ProcessPace, ErrorPace DEF Block
<1> QED
  BY <1>1, <1>2, <1>3 DEF Next, PaceIInv

\* The calling station reports a connection after the answering one has heard
\* the rate it settled,
LEMMA OrgBacked ==
  ASSUME PaceIInv, InBlock("org"), m["org"].status \in ConnectCodes
  PROVE  /\ m["org"].rxr = m["ans"].txr
         /\ common_rate(m["org"].own, m["org"].regs[4]) # NONE
<1> DEFINE o == m["org"]
           a == m["ans"]
<1>0. StationIInv /\ RatesIInv /\ PaceInv /\ "org" \in Sides /\ "ans" \in Sides
  BY DEF PaceIInv, RatesIInv, Sides
<1>1. /\ SidePace("org") /\ OrgPace /\ PairRates
      /\ SideRates("org") /\ SideRates("ans")
      /\ o.mode \in {"org", "data"} /\ a.mode \in {"ans", "data"}
  BY <1>0 DEF PaceInv, RatesIInv, RatesInv, StationIInv, SideInv
<1>2. o.mode = "org" /\ o.data = TRUE /\ dp["org"] # "ERROR" /\ Coded(o)
  BY <1>1 DEF SidePace, SideRates
<1>3. o.state = "V" /\ DecodeReg(o, 3) # NONE /\ DecodeReg(o, 4) # NONE
  BY <1>0, <1>2, ThroughFit DEF Closing, Unfit
<1>4. Final(a) /\ (a.mode = "data" \/ a.state = "END")
  BY <1>1, <1>2, <1>3 DEF OrgPace, Joined
<1>5. a.txr = Reported(DecodeReg(a, 4))
  <2>1. CASE a.mode = "data"
    BY <1>1, <2>1 DEF SideRates, Linked
  <2>2. CASE a.mode = "ans" /\ a.state = "END"
    BY <1>1, <1>4, <2>2 DEF SideRates, Coded, AnsCoded, Final
  <2> QED
    BY <1>1, <1>4, <2>1, <2>2
<1>6. DecodeReg(a, 4) = DecodeReg(o, 3)
  BY <1>1, <1>3, <1>4 DEF PairRates, Settled
<1>7. DecodeReg(o, 4) = DecodeReg(o, 3) /\ o.rxr = Reported(DecodeReg(o, 4))
  BY <1>2, <1>3 DEF Coded, OrgCoded
<1> QED
  BY <1>3, <1>5, <1>6, <1>7 DEF DecodeReg

\* and the answering station before the calling one starts again.
LEMMA AnsBacked ==
  ASSUME PaceIInv, InBlock("ans"), m["ans"].status \in ConnectCodes
  PROVE  /\ m["ans"].rxr = m["org"].txr
         /\ common_rate(m["ans"].own, m["ans"].regs[4]) # NONE
<1> DEFINE o == m["org"]
           a == m["ans"]
<1>0. RatesIInv /\ PaceInv /\ StationIInv /\ "ans" \in Sides /\ "ans" # "org"
  BY DEF PaceIInv, RatesIInv, Sides
<1>1. /\ SidePace("ans") /\ AnsPace /\ SideRates("ans")
      /\ a.mode \in {"ans", "data"}
  BY <1>0 DEF PaceInv, RatesIInv, RatesInv, StationIInv, SideInv
<1>2. a.mode = "ans" /\ a.data = TRUE /\ dp["ans"] # "ERROR" /\ Coded(a)
  BY <1>1 DEF SidePace, SideRates
<1>3. a.state = "END" /\ DecodeReg(a, 4) # NONE
  BY <1>0, <1>2, ThroughFit DEF Closing, Unfit
<1>4. o.txr = Reported(DecodeReg(a, 4))
  BY <1>1, <1>2, <1>3 DEF AnsPace, Bound, Final
<1>5. a.rxr = Reported(DecodeReg(a, 4))
  BY <1>0, <1>2, <1>3 DEF Coded, AnsCoded
<1> QED
  BY <1>3, <1>4, <1>5 DEF DecodeReg

\* Only v32_process reports a status.
LEMMA StepBacked ==
  ASSUME PaceIInv, [Next]_vars, NEW s \in Sides,
         dp'[s] = "CONNECT", dp[s] # "CONNECT"
  PROVE  /\ m[s].rxr = m[Peer(s)].txr
         /\ common_rate(m[s].own, m[s].regs[4]) # NONE
<1>0. RatesIInv /\ dp \in [Sides -> {"OK", "CONNECT", "ERROR"}]
  BY DEF PaceIInv, RatesIInv, StationIInv, CallInv
<1>1. ~(UNCHANGED vars)
  BY DEF vars
<1>2. PICK t \in Sides : Block(t)
  BY <1>1 DEF Next
<1>3. ~Receive(t)
  <2>1. Received(t) => dp' = dp
    BY DEF Received, RxEnd
  <2> QED
    BY <1>0, <2>1, ReceiveHeard
<1>4. ~Transmit(t)
  <2>1. Transmitted(t) \/ TxHdxOverrun(t) => dp' = dp
    BY DEF Transmitted, TxEnd, TxHdxOverrun
  <2> QED
    BY <1>0, <2>1, TransmitSent
<1>5. ~(v32_data(t) \/ v32_data_control(t))
  BY <1>0, DataCarried, ControlCarried DEF Carried, DataEnd
<1>6. ~v32_process_error(t)
  BY DEF v32_process_error
<1>7. v32_process(t)
  BY <1>2, <1>3, <1>4, <1>5, <1>6 DEF Block
<1>8. t = s /\ DpStatus(m[s].status) = "CONNECT" /\ InBlock(s)
  BY <1>0, <1>7 DEF v32_process, InBlock
<1>9. m[s].status \in ConnectCodes
  BY <1>8 DEF DpStatus
<1>10. CASE s = "org"
  BY <1>8, <1>9, <1>10, OrgBacked DEF Peer
<1>11. CASE s = "ans"
  <2>1. Peer(s) = "org"
    BY <1>11 DEF Peer
  <2> QED
    BY <1>8, <1>9, <1>11, <2>1, AnsBacked
<1> QED
  BY <1>10, <1>11 DEF Sides

\* For every duration, delay and pair of rates, whatever the detectors miss
\* and however often the two retrain: a station that reports a connection
\* (V32_CONNECT in V32org.c V and V32ans.c END) expects the rate that the
\* other sends at, and it has a rate for the word it heard.
THEOREM ConnectionsBacked == Spec => ConnectBacked
<1>1. Init => PaceIInv
  BY InitKeeps, InitRates, InitPace DEF PaceIInv, RatesIInv
<1>2. PaceIInv /\ [Next]_vars => PaceIInv'
  BY NextPace
<1>3. PaceIInv /\ [Next]_vars =>
        [\A s \in Sides : (dp'[s] = "CONNECT" /\ dp[s] # "CONNECT") =>
           /\ m[s].rxr = m[Peer(s)].txr
           /\ common_rate(m[s].own, m[s].regs[4]) # NONE]_vars
  BY StepBacked
<1> QED
  BY <1>1, <1>2, <1>3, PTL DEF Spec, ConnectBacked

-----------------------------------------------------------------------------
(***************************************************************************)
(* Words that end where they should.                                       *)
(***************************************************************************)

\* Only one multiple of k is smaller than k.
LEMMA Multiple ==
  ASSUME NEW k \in Nat \ {0}, NEW q \in Int, k * q < k, -k < k * q
  PROVE  q = 0
<1>1. q >= 1 => k * q >= k
  OBVIOUS
<1>2. q <= -1 => k * q <= -k
  OBVIOUS
<1> QED
  BY <1>1, <1>2

\* The remainder of a sum, one summand of which is a remainder already.
LEMMA ModSum ==
  ASSUME NEW k \in Nat \ {0}, NEW a \in Int, NEW n \in Int
  PROVE  ((a % k) + n) % k = (a + n) % k
<1> DEFINE q == a \div k
           r == a % k
           p == (r + n) \div k
           t == (r + n) % k
           o == (a + n) \div k
           u == (a + n) % k
<1>1. a = k * q + r /\ r \in 0 .. k - 1 /\ q \in Int
  OBVIOUS
<1>2. r + n = k * p + t /\ t \in 0 .. k - 1 /\ p \in Int
  BY <1>1
<1>3. a + n = k * o + u /\ u \in 0 .. k - 1 /\ o \in Int
  OBVIOUS
<1> HIDE DEF q, r, p, t, o, u
<1>4. k * (q + p - o) = u - t
  BY <1>1, <1>2, <1>3
<1>5. q + p - o = 0
  BY <1>1, <1>2, <1>3, <1>4, Multiple
<1>6. u = t
  BY <1>2, <1>3, <1>4, <1>5
<1> QED
  BY <1>6 DEF r, t, u

\* So the symbols beyond whole words add up.
LEMMA WordSum ==
  \A a, n \in Int : ((a % Scaled(8)) + n) % Scaled(8) = (a + n) % Scaled(8)
<1> TAKE a, n \in Int
<1> DEFINE k == Scaled(8)
<1>1. k \in Nat \ {0}
  BY Times
<1> HIDE DEF k
<1>2. ((a % k) + n) % k = (a + n) % k
  BY <1>1, ModSum, Zenon
<1> QED
  BY <1>2, Zenon DEF k

\* What is missing to the end of a word ends it.
LEMMA WordBound ==
  ASSUME NEW k \in Nat \ {0}, NEW n \in Int
  PROVE  ((n % k) + (k - (n % k))) % k = 0
<1>1. n % k \in 0 .. k - 1
  OBVIOUS
<1>2. (n % k) + (k - (n % k)) = k
  BY <1>1
<1>3. k % k = 0
  OBVIOUS
<1> QED
  BY <1>2, <1>3
\* What is left of a countdown to send.
Unspent(h) == IF h.left > 0 THEN h.left ELSE 0

\* The rate words that the calling station has sent, from N on, by its
\* countdown: those of O and P, of Q, and of R.
OrgAligned(h) ==
  /\ h.state \in {"O", "P", "Q", "R"} => h.tx = "ScrSequence" /\ h.gen.kind = "R"
  /\ h.state = "Q" => h.rx = "Data"
  /\ h.state \in {"O", "P"} /\ h.left >= 0 =>
       h.rmod = (Limit - h.left) % Scaled(8)
  /\ h.state = "Q" /\ h.s46 <= Limit =>
       h.rmod = (h.s46 + Scaled(1232) - Unspent(h)) % Scaled(8)
  /\ h.state = "R" /\ h.left >= 0 /\ h.s46 <= Limit =>
       h.rmod = (Scaled(1232) + (Limit - h.left) + h.s46) % Scaled(8)

\* The answering station, in X2; and its E.
AnsAligned(h) ==
  /\ h.state = "X2" => h.tx = "ScrSequence" /\ h.gen.kind = "R"
  /\ h.state = "X2" /\ h.left >= 0 => h.rmod = (Limit - h.left) % Scaled(8)
  /\ h.state = "Z" => h.tx = "ScrSequence" /\ h.rx = "Data" /\ h.gen.kind = "E"
  /\ h.state = "Z" => h.esent + Unspent(h) = Scaled(8)
  /\ h.gen.kind = "B1" => h.esent = Scaled(8)

Aligned(h) == IF h.mode = "org" THEN OrgAligned(h) ELSE AnsAligned(h)
AlignInv == \A s \in Sides : m[s].mode = s => Aligned(m[s])
-----------------------------------------------------------------------------

\* A step of the calling station's rates: its countdown says how much of the
\* rate words has been sent.
LEMMA OrgRatesAligned ==
  ASSUME NEW h, Ctx(h), h.mode = "org", OrgAligned(h),
         h.rx # "Data" \/ h.left <= 0,
         h.state \in {"N", "O", "P", "Q", "R", "S", "T", "U", "V"}
  PROVE  OrgAligned(OrgRates(h))
<1>0. /\ Limit \in Nat /\ Scaled(8) \in Nat \ {0} /\ Scaled(1232) \in Nat \ {0}
      /\ h.left \in Int /\ h.s46 \in Int /\ DOMAIN h = Fields
  BY Times DEF Durations, Ctx, Counted
<1>1. CASE h.state = "N"
  <2> DEFINE seq == CodeRateSeq(h.own, h.regs[1])
             k == [InitDet(InitGen(SetTxMode(To(h, "O", Limit), 0),
                                   Word("R", seq)), "R") EXCEPT
                     !.tx = "ScrSequence", !.rx = "STone", !.regs[2] = seq]
  <2>1. OrgRates(h) = k
    BY <1>1 DEF OrgRates
  <2>2. /\ k.state = "O" /\ k.tx = "ScrSequence" /\ k.gen.kind = "R"
        /\ k.left = Limit /\ k.rmod = 0
    BY <1>0 DEF To, InitGen, InitDet, SetTxMode, Word, Fields, NONE
  <2>3. (Limit - Limit) % Scaled(8) = 0
    BY <1>0
  <2> HIDE DEF k
  <2> QED
    BY <2>1, <2>2, <2>3 DEF OrgAligned
<1>2. CASE h.state = "O"
  <2> DEFINE k == SetRxMode([h EXCEPT !.state = "P", !.timer = 0,
                                      !.tx = "ScrSequence", !.rx = "Epoch"], 0)
  <2>1. OrgRates(h) = k
    BY <1>2 DEF OrgRates
  <2>2. /\ k.state = "P" /\ k.tx = "ScrSequence" /\ k.gen = h.gen
        /\ k.left = h.left /\ k.rmod = h.rmod
    BY <1>0 DEF SetRxMode, Fields, NONE
  <2> HIDE DEF k
  <2> QED
    BY <1>2, <2>1, <2>2 DEF OrgAligned
<1>3. CASE h.state = "P"
  <2> DEFINE k == [To(h, "Q", Scaled(1232)) EXCEPT
                     !.s46 = Limit - h.left, !.tx = "ScrSequence", !.rx = "Data"]
  <2>1. OrgRates(h) = k
    BY <1>3 DEF OrgRates
  <2>2. /\ k.state = "Q" /\ k.tx = "ScrSequence" /\ k.gen = h.gen
        /\ k.left = Scaled(1232) /\ k.rmod = h.rmod /\ k.rx = "Data"
        /\ k.s46 = Limit - h.left
    BY <1>0 DEF To, Fields
  <2> HIDE DEF k
  <2>3. Unspent(k) = Scaled(1232)
    BY <1>0, <2>2 DEF Unspent
  <2>4. k.s46 + Scaled(1232) - Unspent(k) = Limit - h.left
    BY <1>0, <2>2, <2>3
  <2>5. k.s46 <= Limit => h.left >= 0
    BY <1>0, <2>2
  <2> QED
    BY <1>3, <2>1, <2>2, <2>4, <2>5 DEF OrgAligned
<1>4. CASE h.state = "Q"
  <2> DEFINE k == InitDet(Rxs(Txs(To(h, "R", Limit), "ScrSequence"), "Sequence"), "R")
  <2>1. OrgRates(h) = k
    BY <1>4 DEF OrgRates
  <2>2. /\ k.state = "R" /\ k.tx = "ScrSequence" /\ k.gen = h.gen
        /\ k.left = Limit /\ k.rmod = h.rmod /\ k.s46 = h.s46
    BY <1>0 DEF To, Txs, Rxs, InitDet, Fields
  <2> HIDE DEF k
  <2>3. Unspent(h) = 0
    BY <1>0, <1>4 DEF Unspent, OrgAligned
  <2>4. h.s46 + Scaled(1232) - Unspent(h) = Scaled(1232) + (Limit - k.left) + k.s46
    BY <1>0, <2>2, <2>3
  <2> QED
    BY <1>4, <2>1, <2>2, <2>4 DEF OrgAligned
<1>5. CASE h.state \in {"R", "S", "T", "U", "V"}
  <2>1. OrgRates(h).state \in {"S", "T", "U", "V"}
    BY <1>0, <1>5 DEF OrgRates, To, InitGen, InitDet, SetTxMode, SetRxMode, Fields
  <2> QED
    BY <2>1 DEF OrgAligned
<1> QED
  BY <1>1, <1>2, <1>3, <1>4, <1>5

\* Every step of the calling station.
LEMMA OrgStepAligned ==
  ASSUME NEW h, Ctx(h), h.mode = "org", h.state \in OrgStates, OrgAligned(h),
         h.rx # "Data" \/ h.left <= 0
  PROVE  OrgAligned(OrgNextState(h))
<1>0. DOMAIN h = Fields
  BY DEF Ctx
<1>1. CASE h.state \in {"A", "B", "B2", "C", "D", "D2"}
  <2>1. OrgNextState(h) = OrgRanging(h)
    BY <1>1 DEF OrgNextState
  <2>2. OrgRanging(h).state \in {"B", "B2", "C", "D", "D2", "E"}
    BY <1>0, <1>1 DEF OrgRanging, To, InitGen, Fields
  <2> QED
    BY <2>1, <2>2 DEF OrgAligned
<1>2. CASE h.state \in {"E", "F", "G", "H", "I", "J", "K", "L", "M"}
  <2>1. OrgNextState(h) = OrgTraining(h)
    BY <1>2 DEF OrgNextState
  <2>2. OrgTraining(h).state \in {"F", "G", "H", "I", "J", "K", "L", "M", "N"}
    BY <1>0, <1>2
       DEF OrgTraining, To, Txs, Rxs, InitGen, InitDet, SetTxMode, SetRxMode, Fields
  <2> QED
    BY <2>1, <2>2 DEF OrgAligned
<1>3. CASE h.state \in {"N", "O", "P", "Q", "R", "S", "T", "U", "V"}
  BY <1>3, OrgRatesAligned DEF OrgNextState
<1>4. CASE h.state = "ERROR"
  <2>1. OrgNextState(h).state = "ERROR"
    BY <1>0, <1>4 DEF OrgNextState, Fields
  <2> QED
    BY <2>1 DEF OrgAligned
<1> QED
  BY <1>1, <1>2, <1>3, <1>4 DEF OrgStates

\* An arm of the answering station that starts no rate word, E or B1.
Elsewhere(h, k) ==
  /\ k.state \notin {"X2", "Z"}
  /\ k.gen.kind = "B1" => h.gen.kind = "B1" /\ k.esent = h.esent
\* Such an arm keeps what it has sent.
LEMMA ElsewhereAligned ==
  ASSUME NEW h, NEW k, AnsAligned(h), Elsewhere(h, k)
  PROVE  AnsAligned(k)
BY DEF AnsAligned, Elsewhere

\* The answering station's ranging and training are elsewhere.
LEMMA AnsEarlyAligned ==
  ASSUME NEW h, Ctx(h), h.mode = "ans", AnsAligned(h),
         h.state \in {"A", "B", "B2", "C", "D", "E", "F", "F2", "G", "H", "I",
                      "J", "K", "L", "M", "N", "O", "P", "Q", "ERROR"}
  PROVE  AnsAligned(AnsNextState(h))
<1>0. DOMAIN h = Fields
  BY DEF Ctx
<1>1. CASE h.state \in {"A", "B", "B2", "C"}
  <2>1. AnsNextState(h) = AnsRanging(h)
    BY <1>1 DEF AnsNextState
  <2>2. Elsewhere(h, AnsRanging(h))
    BY <1>0, <1>1 DEF AnsRanging, Elsewhere, Fail, To, InitGen, Gen, Fields
  <2> QED
    BY <2>1, <2>2, ElsewhereAligned
<1>2. CASE h.state \in {"D", "E", "F", "F2"}
  <2>1. AnsNextState(h) = AnsRanging(h)
    BY <1>2 DEF AnsNextState
  <2>2. Elsewhere(h, AnsRanging(h))
    BY <1>0, <1>2 DEF AnsRanging, Elsewhere, To, Txs, InitGen, Gen, Fields
  <2> QED
    BY <2>1, <2>2, ElsewhereAligned
<1>3. CASE h.state \in {"G", "H", "I", "J", "K"}
  <2>1. AnsNextState(h) = AnsTraining(h)
    BY <1>3 DEF AnsNextState
  <2>2. Elsewhere(h, AnsTraining(h))
    BY <1>0, <1>3
       DEF AnsTraining, Elsewhere, To, Txs, SetTxMode, InitGen, Gen, Fields
  <2> QED
    BY <2>1, <2>2, ElsewhereAligned
<1>4. CASE h.state = "L"
  <2>1. AnsNextState(h) = AnsTraining(h)
    BY <1>4 DEF AnsNextState
  <2> DEFINE seq == CodeRateSeq(h.own, V32_RATE_SEQ[h.named])
             k == [InitGen(SetTxMode(To(h, "M", Limit), 0), Word("R", seq)) EXCEPT
                     !.rx = "STone", !.regs[1] = seq]
  <2>2. AnsTraining(h) = k
    BY <1>4 DEF AnsTraining
  <2>3. Elsewhere(h, k)
    BY <1>0 DEF Elsewhere, To, SetTxMode, InitGen, Word, Fields, NONE
  <2> QED
    BY <2>1, <2>2, <2>3, ElsewhereAligned
<1>5. CASE h.state \in {"M", "N", "O", "P", "Q"}
  <2>1. AnsNextState(h) = AnsTraining(h)
    BY <1>5 DEF AnsNextState
  <2>2. Elsewhere(h, AnsTraining(h))
    BY <1>0, <1>5
       DEF AnsTraining, Elsewhere, To, Txs, Rxs, SetRxMode, InitDet, Fields
  <2> QED
    BY <2>1, <2>2, ElsewhereAligned
<1>6. CASE h.state = "ERROR"
  <2>1. Elsewhere(h, AnsNextState(h))
    BY <1>0, <1>6 DEF AnsNextState, Elsewhere, Fields
  <2> QED
    BY <2>1, ElsewhereAligned
<1> QED
  BY <1>1, <1>2, <1>3, <1>4, <1>5, <1>6

\* Its rates: X2 sends rate words by its countdown, and Z the whole of E.
LEMMA AnsRatesAligned ==
  ASSUME NEW h, Ctx(h), h.mode = "ans", AnsAligned(h),
         h.rx # "Data" \/ h.left <= 0,
         h.state \in {"T", "U", "V", "W", "X", "X2", "Y", "Z", "END"}
  PROVE  AnsAligned(AnsRates(h))
<1>0. /\ Limit \in Nat /\ Scaled(8) \in Nat \ {0} /\ h.left \in Int
      /\ DOMAIN h = Fields
  BY Times DEF Ctx, Counted
<1>1. CASE h.state = "T"
  <2> DEFINE j == InitGen(SetTxMode(To(h, "U", Scaled(256)), 0), Gen("S"))
             k == [j EXCEPT
                     !.tx = "CarrierState", !.rx = "Data", !.regs[2] = h.match,
                     !.status = IF common_rate(h.own, h.match) = NONE
                                THEN 23 ELSE @]
  <2>1. AnsRates(h) = k
    BY <1>1 DEF AnsRates
  <2>2. Elsewhere(h, k)
    BY <1>0 DEF Elsewhere, To, SetTxMode, InitGen, Gen, Fields, NONE
  <2> QED
    BY <2>1, <2>2, ElsewhereAligned
<1>2. CASE h.state \in {"U", "V", "W"}
  <2>1. Elsewhere(h, AnsRates(h))
    BY <1>0, <1>2 DEF AnsRates, Elsewhere, To, Txs, InitGen, Gen, Fields
  <2> QED
    BY <2>1, ElsewhereAligned
<1>3. CASE h.state = "X"
  <2> DEFINE k == [InitDet(InitGen(SetTxMode(To(h, "X2", Limit), 0),
                       Word("R", CodeFinalRateSeq(h.own, h.regs[2]))), "E")
                     EXCEPT !.tx = "ScrSequence", !.rx = "Sequence"]
  <2>1. AnsRates(h) = k
    BY <1>3 DEF AnsRates
  <2>2. /\ k.state = "X2" /\ k.tx = "ScrSequence" /\ k.gen.kind = "R"
        /\ k.left = Limit /\ k.rmod = 0
    BY <1>0 DEF To, InitGen, InitDet, SetTxMode, Word, Fields, NONE
  <2>3. (Limit - Limit) % Scaled(8) = 0
    BY <1>0
  <2> HIDE DEF k
  <2> QED
    BY <2>1, <2>2, <2>3 DEF AnsAligned
<1>4. CASE h.state = "X2"
  <2> DEFINE k == [h EXCEPT !.state = "Y", !.left = ToWordEnd(Limit - h.left),
                            !.regs[4] = h.match]
  <2>1. AnsRates(h) = k
    BY <1>4 DEF AnsRates
  <2>2. Elsewhere(h, k)
    BY <1>0 DEF Elsewhere, Fields
  <2> QED
    BY <2>1, <2>2, ElsewhereAligned
<1>5. CASE h.state = "Y"
  <2> DEFINE k == [InitGen(SetRxMode(h, DecodeReg(h, 4)),
                           Word("E", CodeESeq(h.own, h.regs[4]))) EXCEPT
                     !.state = "Z", !.left = Scaled(8), !.tx = "ScrSequence",
                     !.rx = "Data"]
  <2>1. AnsRates(h) = k
    BY <1>5 DEF AnsRates
  <2>2. /\ k.state = "Z" /\ k.tx = "ScrSequence" /\ k.rx = "Data"
        /\ k.gen.kind = "E" /\ k.left = Scaled(8) /\ k.esent = 0
    BY <1>0 DEF InitGen, SetRxMode, Word, Fields
  <2> HIDE DEF k
  <2>3. k.esent + Unspent(k) = Scaled(8)
    BY <1>0, <2>2 DEF Unspent
  <2> QED
    BY <2>1, <2>2, <2>3 DEF AnsAligned
<1>6. CASE h.state = "Z"
  <2> DEFINE k == [SetTxMode(InitGen(To(h, "END", Scaled(128)), Gen("B1")),
                             DecodeReg(h, 4)) EXCEPT
                     !.tx = "ScrSequence", !.rx = "Data"]
  <2>1. AnsRates(h) = k
    BY <1>6 DEF AnsRates
  <2>2. k.state = "END" /\ k.esent = h.esent
    BY <1>0 DEF To, InitGen, SetTxMode, Gen, Fields
  <2> HIDE DEF k
  <2>3. h.esent = Scaled(8)
    <3>1. Unspent(h) = 0
      BY <1>0, <1>6 DEF Unspent, AnsAligned
    <3>2. h.esent \in Nat
      BY Times DEF Ctx, Worded
    <3> QED
      BY <1>0, <1>6, <3>1, <3>2 DEF AnsAligned
  <2> QED
    BY <2>1, <2>2, <2>3 DEF AnsAligned
<1>7. CASE h.state = "END"
  <2> DEFINE k == [To(h, "END", Limit) EXCEPT
                     !.data = TRUE, !.status = V32_CONNECT[DecodeReg(h, 4)]]
  <2>1. AnsRates(h) = k
    BY <1>7 DEF AnsRates
  <2>2. Elsewhere(h, k)
    BY <1>0 DEF Elsewhere, To, Fields
  <2> QED
    BY <2>1, <2>2, ElsewhereAligned
<1> QED
  BY <1>1, <1>2, <1>3, <1>4, <1>5, <1>6, <1>7

\* Every step of a station.
LEMMA StepAligned ==
  ASSUME NEW h, Ctx(h), Placed(h), Aligned(h), h.rx # "Data" \/ h.left <= 0,
         NextState(h).mode = h.mode
  PROVE  Aligned(NextState(h))
<1>1. CASE h.mode = "org" /\ h.state \in OrgStates
  BY <1>1, OrgStepAligned DEF Aligned, NextState
<1>2. CASE /\ h.mode = "ans"
           /\ h.state \in {"A", "B", "B2", "C", "D", "E", "F", "F2", "G", "H", "I",
                           "J", "K", "L", "M", "N", "O", "P", "Q", "ERROR"}
  BY <1>2, AnsEarlyAligned DEF Aligned, NextState
<1>3. CASE /\ h.mode = "ans"
           /\ h.state \in {"T", "U", "V", "W", "X", "X2", "Y", "Z", "END"}
  <2>1. AnsNextState(h) = AnsRates(h)
    BY <1>3 DEF AnsNextState
  <2> QED
    BY <1>3, <2>1, AnsRatesAligned DEF Aligned, NextState
<1> QED
  BY <1>1, <1>2, <1>3 DEF Placed, AnsStates

\* When R or X2 ends, the wait for E ends on a word boundary.
LEMMA WordEnded ==
  ASSUME NEW h, Ctx(h), Placed(h), Aligned(h), h.state \in {"R", "X2"},
         h.left >= 0, h.s46 <= Limit
  PROVE  (NextState(h).rmod + NextState(h).left) % Scaled(8) = 0
<1>0. /\ Limit \in Nat /\ Scaled(8) \in Nat \ {0} /\ Scaled(1232) \in Nat
      /\ h.left \in Int /\ h.s46 \in Int /\ DOMAIN h = Fields
  BY Times DEF Durations, Ctx, Counted
<1>1. CASE h.state = "R"
  <2> DEFINE n == Scaled(1232) + (Limit - h.left) + h.s46
             k == [h EXCEPT !.state = "S", !.regs[3] = h.match,
                            !.left = ToWordEnd(n)]
  <2>1. h.mode = "org"
    BY <1>1 DEF Placed, AnsStates
  <2>2. NextState(h) = k
    BY <1>1, <2>1 DEF NextState, OrgNextState, OrgRates
  <2>3. k.rmod = h.rmod /\ k.left = ToWordEnd(n)
    BY <1>0 DEF Fields
  <2>4. h.rmod = n % Scaled(8) /\ n \in Int
    BY <1>0, <1>1, <2>1 DEF Aligned, OrgAligned
  <2> HIDE DEF k, n
  <2> QED
    BY <1>0, <2>2, <2>3, <2>4, WordBound DEF ToWordEnd
<1>2. CASE h.state = "X2"
  <2> DEFINE n == Limit - h.left
             k == [h EXCEPT !.state = "Y", !.left = ToWordEnd(n),
                            !.regs[4] = h.match]
  <2>1. h.mode = "ans"
    BY <1>2 DEF Placed, OrgStates
  <2>2. NextState(h) = k
    BY <1>2, <2>1 DEF NextState, AnsNextState, AnsRates
  <2>3. k.rmod = h.rmod /\ k.left = ToWordEnd(n)
    BY <1>0 DEF Fields
  <2>4. h.rmod = n % Scaled(8) /\ n \in Int
    BY <1>0, <1>2, <2>1 DEF Aligned, AnsAligned
  <2> HIDE DEF k, n
  <2> QED
    BY <1>0, <2>2, <2>3, <2>4, WordBound DEF ToWordEnd
<1> QED
  BY <1>1, <1>2

-----------------------------------------------------------------------------

\* The fields that say how much of a word has been sent.
Alike(g, h) ==
  /\ h.mode = g.mode /\ h.state = g.state /\ h.tx = g.tx /\ h.rx = g.rx
  /\ h.gen = g.gen /\ h.left = g.left /\ h.s46 = g.s46
  /\ h.rmod = g.rmod /\ h.esent = g.esent
\* The others do not matter.
LEMMA AlikeAligned ==
  ASSUME NEW g, NEW h, Alike(g, h), Aligned(g)
  PROVE  Aligned(h)
<1>1. Unspent(h) = Unspent(g)
  BY DEF Alike, Unspent
<1>2. OrgAligned(g) => OrgAligned(h)
  BY <1>1 DEF Alike, OrgAligned
<1>3. AnsAligned(g) => AnsAligned(h)
  BY <1>1 DEF Alike, AnsAligned
<1> QED
  BY <1>2, <1>3 DEF Alike, Aligned

\* What a receive routine leads to.
Bordered(g, h) ==
  (g.state \in {"R", "X2"} /\ h.state \in {"S", "Y"} /\ g.s46 <= Limit) =>
    (h.rmod + h.left) % Scaled(8) = 0
Timely(s, h) == h.mode = s /\ Aligned(h) /\ Bordered(m[s], h)
AlignIInv == RatesIInv /\ AlignInv

\* Nothing detected.
LEMMA StayedTimely ==
  ASSUME AlignIInv, NEW s \in Sides, NEW rx, Receiving(s, rx),
         NEW h, Alike(m[s], h)
  PROVE  Timely(s, h)
<1>1. m[s].mode = s
  BY ReceivingFit DEF AlignIInv
<1>2. Aligned(h)
  BY <1>1, AlikeAligned DEF AlignIInv, AlignInv
<1>3. Bordered(m[s], h)
  BY DEF Alike, Bordered
<1> QED
  BY <1>1, <1>2, <1>3 DEF Timely, Alike

\* A detection.
LEMMA SteppedTimely ==
  ASSUME AlignIInv, NEW s \in Sides, NEW rx, Receiving(s, rx), rx # "Data",
         NEW h, Good(h, Sym), Alike(m[s], h)
  PROVE  Timely(s, NextState(h))
<1> DEFINE k == NextState(h)
<1>1. Good(m[s], 0) /\ m[s].mode = s /\ m[s].rx = rx
  BY ReceivingFit DEF AlignIInv
<1>2. Ctx(h) /\ Placed(h) /\ Rested(h) /\ h.mode = s /\ h.rx # "Data"
  BY <1>1 DEF Good, Alike
<1>3. Aligned(h)
  BY <1>1, AlikeAligned DEF AlignIInv, AlignInv
<1>4. k.mode = s
  BY <1>2, Times, DetectedGood
<1>5. Aligned(k)
  BY <1>2, <1>3, <1>4, StepAligned
<1>6. ASSUME h.state \in {"R", "X2"}, h.s46 <= Limit
      PROVE  (k.rmod + k.left) % Scaled(8) = 0
  <2>1. h.tx = "ScrSequence"
    BY <1>2, <1>3, <1>6 DEF Aligned, OrgAligned, AnsAligned, Placed, OrgStates, AnsStates
  <2>2. h.left >= 0
    BY <1>6, <2>1, <1>2 DEF Rested, Counting
  <2> QED
    BY <1>2, <1>3, <1>6, <2>2, WordEnded
<1> HIDE DEF k
<1>7. Bordered(m[s], k)
  BY <1>6 DEF Bordered, Alike
<1> QED
  BY <1>4, <1>5, <1>7 DEF Timely, k

\* A wait that has lasted too long.
LEMMA TimedTimely ==
  ASSUME NEW s \in Sides, NEW h, Ctx(h), Timely(s, h), NEW st
  PROVE  Timely(s, Timed(h, st))
<1> DEFINE k == Fail(h, st)
<1>1. /\ k.mode = h.mode /\ k.state = "ERROR" /\ k.gen = h.gen
      /\ k.esent = h.esent
  BY DEF Fail, Ctx, Fields
<1> HIDE DEF k
<1>2. Aligned(k)
  BY <1>1 DEF Timely, Aligned, OrgAligned, AnsAligned
<1>3. Bordered(m[s], k)
  BY <1>1 DEF Bordered
<1> QED
  BY <1>1, <1>2, <1>3 DEF Timely, Timed, k

\* Every receive routine.
LEMMA ReceiveTimely ==
  ASSUME AlignIInv, NEW s \in Sides, Receive(s)
  PROVE  \E h : Timely(s, h) /\ RxEnd(s, h)
<1>0. /\ Sym \in 0 .. Sym /\ Tad \in Nat /\ Ctx(m[s]) /\ RatesIInv /\ StationIInv
  BY Times, CallAssumption DEF AlignIInv, RatesIInv, StationIInv, SideInv
<1>r. Alike(m[s], RxStart(s))
  BY <1>0 DEF RxStart, Alike, Ctx, Fields
<1>s. ASSUME NEW rx, Receiving(s, rx), rx \notin {"NoSignal", "PhsReversal"}
      PROVE  Good(RxStart(s), Sym)
  BY <1>0, <1>s, ReceivingGood, StartedGood, ZenonT(60) DEF RxStart
<1>t. ASSUME NEW rx, Receiving(s, rx), rx # "Data",
             NEW h, Good(h, Sym), Alike(m[s], h), NEW st
      PROVE  Timely(s, Timed(h, st)) /\ Timely(s, Timed(NextState(h), st))
  <2>1. Timely(s, h) /\ Ctx(h)
    BY <1>t, StayedTimely DEF Good
  <2>2. Timely(s, NextState(h))
    BY <1>t, SteppedTimely
  <2>3. Ctx(NextState(h))
    BY <1>0, <1>t, DetectedGood DEF Good
  <2> DEFINE k == NextState(h)
  <2> HIDE DEF k
  <2>4. Timely(s, Timed(k, st))
    BY <2>2, <2>3, TimedTimely DEF k
  <2>5. Timely(s, Timed(h, st))
    BY <2>1, TimedTimely
  <2> QED
    BY <2>4, <2>5 DEF k
<1>1. CASE RxHdxTone(s)
  BY <1>1, <1>r, <1>s, <1>t DEF RxHdxTone
<1>2. CASE RxHdxNoSignal(s)
  <2>1. PICK gone \in Possible(ToneGone(s)) :
          LET h == [RxStart(s) EXCEPT !.aa = SatAdd(@, Scaled(95))]
          IN RxEnd(s, Timed(IF gone /\ h.timer > Scaled(60)
                            THEN NextState(h) ELSE h, 17))
    BY <1>2 DEF RxHdxNoSignal
  <2> DEFINE h == [RxStart(s) EXCEPT !.aa = SatAdd(@, Scaled(95))]
             r == Timed(IF gone /\ h.timer > Scaled(60)
                        THEN NextState(h) ELSE h, 17)
  <2>2. Receiving(s, "NoSignal")
    BY <1>2 DEF RxHdxNoSignal
  <2>3. Good(h, Sym)
    BY <1>0, <2>2, ReceivingGood, StartedNoSignal DEF RxStart
  <2>4. Alike(m[s], h)
    BY <1>0 DEF RxStart, Alike, Ctx, Fields
  <2>5. Timely(s, r)
    <3> HIDE DEF h
    <3> QED
      BY <2>2, <2>3, <2>4, <1>t
  <2> HIDE DEF r
  <2> QED
    BY <2>1, <2>5 DEF r
<1>3. CASE RxHdxPhsReversal(s)
  <2> DEFINE h == [RxStart(s) EXCEPT !.a8 = SatAdd(@, Scaled(72))]
             g == [h EXCEPT !.timer = Tad]
             k(rev) == IF h.i90 /\ rev THEN NextState(g) ELSE h
             ac(rev, tone) == IF tone THEN k(rev).ac + 1 ELSE 0
             j(rev, tone) ==
               CASE k(rev).i90 -> k(rev)
                 [] ~k(rev).i90 /\ ac(rev, tone) > 3 ->
                      [k(rev) EXCEPT !.i90 = TRUE, !.ac = 0]
                 [] OTHER -> [k(rev) EXCEPT !.ac = ac(rev, tone)]
  <2>1. PICK rev \in Possible(ReversalHeard(s)), tone \in Possible(ToneHeard(s)) :
          RxEnd(s, Timed(j(rev, tone), 18))
    BY <1>3, Zenon DEF RxHdxPhsReversal
  <2>2. Receiving(s, "PhsReversal")
    BY <1>3 DEF RxHdxPhsReversal
  <2>3. Good(h, Sym)
    BY <1>0, <2>2, ReceivingGood, StartedPhsReversal DEF RxStart
  <2>4. Alike(m[s], h)
    BY <1>0 DEF RxStart, Alike, Ctx, Fields
  <2>5. Good(g, Sym) /\ Alike(m[s], g)
    <3> HIDE DEF h
    <3>1. Good(g, Sym)
      BY <2>3, <1>0, TimerGood
    <3> QED
      BY <2>3, <2>4, <3>1 DEF Alike, Good, Ctx, Fields
  <2> HIDE DEF h, g
  <2>6. Timely(s, k(rev)) /\ Good(k(rev), Sym)
    <3>1. Timely(s, NextState(g)) /\ Good(NextState(g), Sym)
      BY <2>2, <2>5, <1>0, SteppedTimely, DetectedGood
    <3>2. Timely(s, h)
      BY <2>2, <2>4, StayedTimely
    <3> QED
      BY <2>3, <3>1, <3>2
  <2> HIDE DEF k
  <2>7. Alike(k(rev), j(rev, tone)) /\ Ctx(j(rev, tone))
    <3>0. Ctx(k(rev)) /\ k(rev).ac \in 0 .. 3
      BY <2>6 DEF Good, Ctx, Counted
    <3>1. CASE k(rev).i90
      BY <3>0, <3>1 DEF Alike
    <3>2. CASE ~k(rev).i90 /\ ac(rev, tone) > 3
      <4> DEFINE x == [k(rev) EXCEPT !.i90 = TRUE, !.ac = 0]
      <4>1. j(rev, tone) = x
        BY <3>2
      <4>2. Alike(k(rev), x) /\ Ctx(x)
        BY <3>0 DEF Alike, Ctx, Fields, Rated, Counted, Worded
      <4> HIDE DEF x, j
      <4> QED
        BY <4>1, <4>2
    <3>3. CASE ~k(rev).i90 /\ ~(ac(rev, tone) > 3)
      <4>1. ac(rev, tone) \in 0 .. 3
        BY <3>0, <3>3
      <4> HIDE DEF ac
      <4> DEFINE x == [k(rev) EXCEPT !.ac = ac(rev, tone)]
      <4>2. j(rev, tone) = x
        BY <3>3
      <4>3. Alike(k(rev), x) /\ Ctx(x)
        BY <3>0, <4>1 DEF Alike, Ctx, Fields, Rated, Counted, Worded
      <4> HIDE DEF x, j
      <4> QED
        BY <4>2, <4>3
    <3> QED
      BY <3>1, <3>2, <3>3
  <2> HIDE DEF j
  <2>8. Timely(s, j(rev, tone))
    <3>1. Aligned(j(rev, tone))
      BY <2>6, <2>7, AlikeAligned DEF Timely
    <3> QED
      BY <2>6, <2>7, <3>1 DEF Timely, Bordered, Alike
  <2>9. Timely(s, Timed(j(rev, tone), 18))
    BY <2>7, <2>8, TimedTimely
  <2> QED
    BY <2>1, <2>9
<1>w. ASSUME NEW rx, Receiving(s, rx), rx \in {"RateSequence", "Sequence"},
             NEW seq \in WordsHeard(s, m[s].det)
      PROVE  Timely(s, Timed(RxStep(s, RxStart(s), TRUE, seq), 19))
  <2>1. seq \in SUBSET Bits
    BY <1>0, HeardPieces
  <2> DEFINE k == RxStart(s)
             h == [k EXCEPT !.match = seq]
  <2>2. Good(k, Sym)
    BY <1>w, <1>s
  <2>3. Alike(m[s], k)
    BY <1>r
  <2> HIDE DEF k
  <2>4. Good(h, Sym)
    BY <2>1, <2>2, MatchGood
  <2>5. Alike(m[s], h)
    BY <2>2, <2>3 DEF Alike, Good, Ctx, Fields
  <2>6. RxStep(s, k, TRUE, seq) = NextState(h)
    BY Zenon DEF RxStep
  <2> HIDE DEF h
  <2>7. Timely(s, Timed(NextState(h), 19))
    BY <1>w, <2>4, <2>5, <1>t
  <2> QED
    BY <2>6, <2>7 DEF k
<1>4. CASE RxHdxRateSequence(s)
  <2>1. Receiving(s, "RateSequence")
    BY <1>4 DEF RxHdxRateSequence
  <2> QED
    BY <1>4, <2>1, <1>r, <1>s, <1>t, <1>w DEF RxHdxRateSequence
<1>5. CASE RxHdxSequence(s)
  <2>1. Receiving(s, "Sequence")
    BY <1>5 DEF RxHdxSequence
  <2> QED
    BY <1>5, <2>1, <1>r, <1>s, <1>t, <1>w DEF RxHdxSequence
<1>6. CASE RxHdxData(s)
  BY <1>6, <1>r, StayedTimely DEF RxHdxData
<1>7. CASE RxHdxNull(s)
  BY <1>7, <1>r, <1>s, <1>t DEF RxHdxNull
<1>8. CASE RxHdxSTone(s)
  BY <1>8, <1>r, <1>s, <1>t DEF RxHdxSTone
<1>9. CASE RxHdxEpoch(s)
  BY <1>9, <1>r, <1>s, <1>t DEF RxHdxEpoch
<1> QED
  BY <1>1, <1>2, <1>3, <1>4, <1>5, <1>6, <1>7, <1>8, <1>9 DEF Receive

-----------------------------------------------------------------------------

\* A routine that sends no rate word or E has charged the block: g is the
\* station before, k after.
Unmoved(g, k) ==
  /\ k.mode = g.mode /\ k.state = g.state /\ k.tx = g.tx /\ k.rx = g.rx
  /\ k.gen = g.gen /\ k.s46 = g.s46
\* What was sent of the words stays.
LEMMA ChargedAligned ==
  ASSUME NEW g, NEW k, Unmoved(g, k), Aligned(g), g.tx # "ScrSequence",
         k.esent = g.esent
  PROVE  Aligned(k)
<1>1. OrgAligned(g) => OrgAligned(k)
  BY DEF Unmoved, OrgAligned
<1>2. AnsAligned(g) => AnsAligned(k)
  BY DEF Unmoved, AnsAligned
<1> QED
  BY <1>1, <1>2 DEF Unmoved, Aligned

\* TxHdxScrSequence has sent n symbols and charged the b it was offered: as
\* many of the rate words, or of E, as the countdown has lost.
LEMMA SentAligned ==
  ASSUME NEW g, NEW k, Ctx(g), Placed(g), Rested(g), Aligned(g), Unmoved(g, k),
         g.tx = "ScrSequence",
         NEW b \in Nat, NEW n \in Nat, g.left > b => n = b,
         g.left \in 0 .. b => n = g.left, k.left = g.left - b,
         g.gen.kind = "R" => k.rmod = (g.rmod + n) % Scaled(8),
         k.esent = IF g.gen.kind = "E" THEN g.esent + n ELSE g.esent
  PROVE  Aligned(k)
<1>0. /\ Limit \in Nat /\ Scaled(8) \in Nat \ {0} /\ Scaled(1232) \in Nat
      /\ g.left \in Int /\ g.s46 \in Int /\ g.esent \in Nat /\ n \in Int
  BY Times DEF Durations, Ctx, Counted, Worded
<1>1. g.left < 0 => g.state \in {"C", "P"}
  BY <1>0 DEF Rested, Counting
<1>2. Unspent(k) + n = Unspent(g) \/ g.left < 0
  BY <1>0 DEF Unspent
<1>3. k.left >= 0 => n = b /\ g.left >= 0
  BY <1>0
<1>4. CASE g.mode = "org"
  <2>0. OrgAligned(g)
    BY <1>4 DEF Aligned
  <2>1. ASSUME k.state \in {"O", "P"}, k.left >= 0
        PROVE  k.rmod = (Limit - k.left) % Scaled(8)
    <3> DEFINE a == Limit - g.left
               c == Limit - k.left
    <3>1. g.rmod = a % Scaled(8) /\ a \in Int /\ g.gen.kind = "R"
      BY <1>0, <1>3, <2>0, <2>1 DEF OrgAligned, Unmoved
    <3>2. c = a + n
      BY <1>0, <1>3, <2>1
    <3> HIDE DEF a, c
    <3>3. k.rmod = (g.rmod + n) % Scaled(8)
      BY <3>1, ZenonT(60)
    <3>4. ((a % Scaled(8)) + n) % Scaled(8) = (a + n) % Scaled(8)
      BY <1>0, <3>1, WordSum, ZenonT(60)
    <3>5. k.rmod = c % Scaled(8)
      BY <3>1, <3>2, <3>3, <3>4, ZenonT(60)
    <3> QED
      BY <3>5, ZenonT(60) DEF c
  <2>2. ASSUME k.state = "Q", k.s46 <= Limit
        PROVE  k.rmod = (k.s46 + Scaled(1232) - Unspent(k)) % Scaled(8)
    <3> DEFINE a == g.s46 + Scaled(1232) - Unspent(g)
               c == k.s46 + Scaled(1232) - Unspent(k)
    <3>1. g.rmod = a % Scaled(8) /\ a \in Int /\ g.gen.kind = "R"
      BY <1>0, <2>0, <2>2 DEF OrgAligned, Unmoved, Unspent
    <3>2. c = a + n
      <4>1. Unspent(k) \in Int /\ Unspent(g) \in Int
        BY <1>0 DEF Unspent
      <4> QED
        BY <1>0, <1>1, <1>2, <2>2, <4>1 DEF Unmoved
    <3> HIDE DEF a, c
    <3>3. k.rmod = (g.rmod + n) % Scaled(8)
      BY <3>1, ZenonT(60)
    <3>4. ((a % Scaled(8)) + n) % Scaled(8) = (a + n) % Scaled(8)
      BY <1>0, <3>1, WordSum, ZenonT(60)
    <3>5. k.rmod = c % Scaled(8)
      BY <3>1, <3>2, <3>3, <3>4, ZenonT(60)
    <3> QED
      BY <3>5, ZenonT(60) DEF c
  <2>3. ASSUME k.state = "R", k.left >= 0, k.s46 <= Limit
        PROVE  k.rmod = (Scaled(1232) + (Limit - k.left) + k.s46) % Scaled(8)
    <3> DEFINE a == Scaled(1232) + (Limit - g.left) + g.s46
               c == Scaled(1232) + (Limit - k.left) + k.s46
    <3>1. g.rmod = a % Scaled(8) /\ a \in Int /\ g.gen.kind = "R"
      BY <1>0, <1>3, <2>0, <2>3 DEF OrgAligned, Unmoved
    <3>2. c = a + n
      BY <1>0, <1>3, <2>3 DEF Unmoved
    <3> HIDE DEF a, c
    <3>3. k.rmod = (g.rmod + n) % Scaled(8)
      BY <3>1, ZenonT(60)
    <3>4. ((a % Scaled(8)) + n) % Scaled(8) = (a + n) % Scaled(8)
      BY <1>0, <3>1, WordSum, ZenonT(60)
    <3>5. k.rmod = c % Scaled(8)
      BY <3>1, <3>2, <3>3, <3>4, ZenonT(60)
    <3> QED
      BY <3>5, ZenonT(60) DEF c
  <2>4. OrgAligned(k)
    BY <2>0, <2>1, <2>2, <2>3 DEF OrgAligned, Unmoved
  <2> QED
    BY <1>4, <2>4 DEF Aligned, Unmoved
<1>5. CASE g.mode = "ans"
  <2>0. AnsAligned(g) /\ g.mode # "org"
    BY <1>5 DEF Aligned
  <2>1. ASSUME k.state = "X2", k.left >= 0
        PROVE  k.rmod = (Limit - k.left) % Scaled(8)
    <3> DEFINE a == Limit - g.left
               c == Limit - k.left
    <3>1. g.rmod = a % Scaled(8) /\ a \in Int /\ g.gen.kind = "R"
      BY <1>0, <1>3, <2>0, <2>1 DEF AnsAligned, Unmoved
    <3>2. c = a + n
      BY <1>0, <1>3, <2>1
    <3> HIDE DEF a, c
    <3>3. k.rmod = (g.rmod + n) % Scaled(8)
      BY <3>1, ZenonT(60)
    <3>4. ((a % Scaled(8)) + n) % Scaled(8) = (a + n) % Scaled(8)
      BY <1>0, <3>1, WordSum, ZenonT(60)
    <3>5. k.rmod = c % Scaled(8)
      BY <3>1, <3>2, <3>3, <3>4, ZenonT(60)
    <3> QED
      BY <3>5, ZenonT(60) DEF c
  <2>2. ASSUME k.state = "Z" PROVE k.esent + Unspent(k) = Scaled(8)
    <3>1. g.state = "Z" /\ g.gen.kind = "E" /\ g.esent + Unspent(g) = Scaled(8)
      BY <2>0, <2>2 DEF AnsAligned, Unmoved
    <3>2. Unspent(k) \in Int /\ Unspent(g) \in Int
      BY <1>0 DEF Unspent
    <3>3. Unspent(k) + n = Unspent(g) /\ k.esent = g.esent + n
      BY <1>0, <1>1, <1>2, <3>1
    <3> QED
      BY <1>0, <3>1, <3>2, <3>3
  <2>3. k.gen.kind = "B1" => k.esent = g.esent
    BY DEF Unmoved
  <2>4. AnsAligned(k)
    BY <2>0, <2>1, <2>2, <2>3 DEF AnsAligned, Unmoved
  <2> QED
    BY <2>0, <2>4 DEF Aligned, Unmoved
<1> QED
  BY <1>4, <1>5 DEF Placed

\* Then the countdown steps, or does not.
LEMMA SteppedAligned ==
  ASSUME NEW k, Ctx(k), Placed(k), Dwelt(k, 0), Aligned(k)
  PROVE  Stepped(k).mode = k.mode /\ Aligned(Stepped(k))
<1>1. CASE k.left <= 0
  <2>1. Ready(k, 0, 0)
    BY <1>1, Times DEF Ready
  <2>2. NextState(k).mode = k.mode
    BY <2>1, NextStateGood
  <2> QED
    BY <1>1, <2>2, StepAligned DEF Stepped
<1>2. CASE ~(k.left <= 0)
  BY <1>2 DEF Stepped
<1> QED
  BY <1>1, <1>2

\* A transmit routine that has charged the block and stepped.
Aftermath(s) == \E h : h.mode = s /\ Aligned(h) /\ m' = [m EXCEPT ![s] = h]

\* TxHdxTone and TxHdxNull.
LEMMA WholeBlockAligned ==
  ASSUME AlignIInv, NEW s \in Sides, turn = s, pc = "tx",
         m[s].tx \in {"Tone", "Null"}, NEW sig, WholeBlock(s, sig)
  PROVE  Aftermath(s)
<1> DEFINE k == [m[s] EXCEPT !.left = @ - m[s].charge]
<1>1. /\ Good(m[s], budget) /\ m[s].mode = s
  BY SendingGood DEF AlignIInv, RatesIInv
<1>2. Ctx(k)
  BY <1>1 DEF Good, Ctx, Fields, Rated, Counted, Worded
<1>3. Placed(k)
  BY <1>1 DEF Good, Ctx, Fields, Placed
<1>4. Dwelt(k, 0)
  BY <1>1 DEF Good, Ctx, Fields, Placed, Dwelt
<1>5. Unmoved(m[s], k) /\ k.esent = m[s].esent
  BY <1>1 DEF Unmoved, Good, Ctx, Fields
<1> HIDE DEF k
<1>6. Aligned(k) /\ k.mode = s
  BY <1>1, <1>5, ChargedAligned DEF AlignIInv, AlignInv, Unmoved
<1>7. m' = [m EXCEPT ![s] = Stepped(k)]
  BY DEF WholeBlock, TxEnd, k
<1> QED
  BY <1>2, <1>3, <1>4, <1>6, <1>7, SteppedAligned DEF Aftermath

\* The routines that charge the symbols they were offered.
LEMMA SendSymbolsAligned ==
  ASSUME AlignIInv, NEW s \in Sides, turn = s, pc = "tx",
         NEW h, Ctx(h), Placed(h), Dwelt(h, budget), Unmoved(m[s], h),
         h.left = m[s].left,
         NEW n \in Nat, m[s].left > budget => n = budget,
         \/ m[s].tx # "ScrSequence" /\ h.esent = m[s].esent
         \/ /\ m[s].tx = "ScrSequence"
            /\ m[s].left \in 0 .. budget => n = m[s].left
            /\ m[s].gen.kind = "R" => h.rmod = (m[s].rmod + n) % Scaled(8)
            /\ h.esent = IF m[s].gen.kind = "E" THEN m[s].esent + n
                         ELSE m[s].esent,
         NEW sig, SendSymbols(s, h, n, sig)
  PROVE  Aftermath(s)
<1> DEFINE k == [h EXCEPT !.left = @ - budget]
<1>1. /\ Good(m[s], budget) /\ m[s].mode = s /\ budget \in Nat
      /\ m[s].left \in Int /\ Aligned(m[s])
  BY SendingGood, Times DEF AlignIInv, AlignInv, RatesIInv, Good, Ctx, Counted
<1>2. Ctx(k)
  BY <1>1 DEF Ctx, Fields, Rated, Counted, Worded
<1>3. Placed(k)
  BY DEF Ctx, Fields, Placed
<1>4. Dwelt(k, 0)
  BY <1>1, Times DEF Ctx, Fields, Counted, Dwelt
<1>5. /\ Unmoved(m[s], k) /\ k.left = m[s].left - budget
      /\ k.rmod = h.rmod /\ k.esent = h.esent
  BY DEF Unmoved, Ctx, Fields
<1> HIDE DEF k
<1>6. Aligned(k)
  <2>1. CASE m[s].tx # "ScrSequence"
    BY <1>1, <1>5, <2>1, ChargedAligned
  <2>2. CASE m[s].tx = "ScrSequence"
    BY <1>1, <1>5, <2>2, SentAligned DEF Good
  <2> QED
    BY <2>1, <2>2
<1>7. k.mode = s
  BY <1>1, <1>5 DEF Unmoved
<1>8. m' = [m EXCEPT ![s] = Stepped(k)]
  BY DEF SendSymbols, TxEnd, k
<1> QED
  BY <1>2, <1>3, <1>4, <1>6, <1>7, <1>8, SteppedAligned DEF Aftermath

\* A countdown that has not run out is the count of symbols, when it is no
\* longer than the block.
LEMMA CountLeft ==
  ASSUME StationIInv, NEW s \in Sides, turn = s, pc = "tx"
  PROVE  m[s].left \in 0 .. budget => Count(s) = m[s].left
<1>1. m[s].left \in Int /\ budget \in 0 .. Sym /\ Sym \in Nat /\ Sym < 65536
  BY SendingGood, Times, V32Assumption DEF Good, Ctx, Counted
<1> QED
  BY <1>1 DEF Count

\* TxHdxScrSequence.
LEMMA SequenceAligned ==
  ASSUME AlignIInv, NEW s \in Sides, TxHdxScrSequence(s)
  PROVE  Aftermath(s)
<1> DEFINE n == Count(s)
           h == Sent(m[s], n)
           sig == Audible(m[s], n)
<1>0. turn = s /\ pc = "tx" /\ m[s].tx = "ScrSequence" /\ n <= budget
  BY DEF TxHdxScrSequence, Sending
<1>1. /\ Good(m[s], budget) /\ m[s].mode = s /\ budget \in 0 .. Sym
      /\ m[s].left \in Int /\ Sym \in Nat
  BY <1>0, SendingGood, Times DEF AlignIInv, RatesIInv, Good, Ctx, Counted
<1>2. /\ n \in Nat /\ (m[s].left > budget => n = budget)
      /\ m[s].left \in 0 .. budget => n = m[s].left
  BY <1>0, CountKnown, CountLeft DEF AlignIInv, RatesIInv
<1> HIDE DEF n
<1>3. Unmoved(m[s], h) /\ h.left = m[s].left
  BY <1>1 DEF Sent, Unmoved, Good, Ctx, Fields
<1>4. /\ m[s].gen.kind = "R" => h.rmod = (m[s].rmod + n) % Scaled(8)
      /\ h.esent = IF m[s].gen.kind = "E" THEN m[s].esent + n ELSE m[s].esent
  BY <1>1 DEF Sent, Good, Ctx, Fields
<1>5. Ctx(h)
  <2>1. (m[s].rmod + n) % Scaled(8) \in 0 .. Scaled(8) - 1
    BY <1>1, <1>2, Times DEF Good, Ctx, Worded
  <2>2. ASSUME m[s].gen.kind = "E"
        PROVE  m[s].esent + n \in 0 .. Scaled(8)
    <3>1. m[s].state \in {"T", "Z"}
      BY <1>0, <1>1, <2>2 DEF Good, Placed
    <3>2. m[s].left >= 0
      BY <1>0, <1>1, <3>1 DEF Good, Rested, Counting
    <3>3. n <= m[s].left
      BY <1>0, <1>1, <1>2, <3>2
    <3>4. m[s].esent + m[s].left <= Scaled(8)
      BY <1>1, <2>2, <3>1 DEF Good, Unsent
    <3> QED
      BY <1>1, <1>2, <3>3, <3>4, Times DEF Good, Ctx, Worded
  <2> QED
    BY <1>1, <2>1, <2>2 DEF Sent, Good, Ctx, Fields, Rated, Counted, Worded
<1>6. Placed(h)
  BY <1>1 DEF Sent, Good, Ctx, Fields, Placed
<1>7. Dwelt(h, budget)
  BY <1>1 DEF Sent, Good, Ctx, Fields, Dwelt
<1>8. SendSymbols(s, h, n, sig)
  BY DEF TxHdxScrSequence, n
<1> HIDE DEF h, sig
<1> QED
  BY <1>0, <1>2, <1>3, <1>4, <1>5, <1>6, <1>7, <1>8, SendSymbolsAligned

\* Every transmit routine.
LEMMA TransmitAligned ==
  ASSUME AlignIInv, NEW s \in Sides, Transmit(s)
  PROVE  Aftermath(s) \/ m' = m
<1>u. ASSUME turn = s, pc = "tx"
      PROVE  /\ Ctx(m[s]) /\ Placed(m[s]) /\ Dwelt(m[s], budget)
             /\ Unmoved(m[s], m[s]) /\ Count(s) \in Nat /\ budget \in Nat
             /\ m[s].left > budget => Count(s) = budget
             /\ m[s].left \in Int
  <2>1. Good(m[s], budget) /\ budget \in 0 .. Sym /\ m[s].left \in Int
    BY <1>u, SendingGood DEF AlignIInv, RatesIInv, Good, Ctx, Counted
  <2>2. Unmoved(m[s], m[s])
    BY DEF Unmoved
  <2> QED
    BY <1>u, <2>1, <2>2, CountKnown, Times DEF Good, AlignIInv, RatesIInv
<1>1. CASE TxHdxTone(s)
  BY <1>1, WholeBlockAligned DEF TxHdxTone, Sending
<1>2. CASE TxHdxNull(s)
  BY <1>2, WholeBlockAligned DEF TxHdxNull, Sending
<1>3. CASE TxHdxCarrierState(s)
  BY <1>3, <1>u, SendSymbolsAligned DEF TxHdxCarrierState, Sending
<1>4. CASE TxHdxScrSequence(s)
  BY <1>4, SequenceAligned
<1>5. CASE TxHdxTRN(s)
  BY <1>5, <1>u, SendSymbolsAligned DEF TxHdxTRN, Sending
<1>6. CASE TxHdxNoCarrier(s)
  <2> DEFINE n == IF m[s].left <= 0 THEN 0 ELSE Count(s)
  <2>1. turn = s /\ pc = "tx" /\ m[s].tx = "NoCarrier"
    BY <1>6 DEF TxHdxNoCarrier, Sending
  <2>2. n \in Nat /\ (m[s].left > budget => n = budget)
    BY <2>1, <1>u
  <2>3. SendSymbols(s, m[s], n, Gen("silence"))
    BY <1>6 DEF TxHdxNoCarrier
  <2> HIDE DEF n
  <2> QED
    BY <2>1, <2>2, <2>3, <1>u, SendSymbolsAligned
<1>7. CASE TxHdxFinishFrame(s)
  BY <1>7, <1>u, SendSymbolsAligned DEF TxHdxFinishFrame, Sending
<1>8. CASE TxHdxOverrun(s)
  BY <1>8 DEF TxHdxOverrun
<1> QED
  BY <1>1, <1>2, <1>3, <1>4, <1>5, <1>6, <1>7, <1>8 DEF Transmit


\* The other stations, and one that is not in a handshake.
LEMMA OthersAligned ==
  ASSUME AlignIInv, NEW s \in Sides, NEW h, m' = [m EXCEPT ![s] = h],
         h.mode = s => Aligned(h)
  PROVE  AlignInv'
<1>1. m'[s] = h /\ \A t \in Sides : t # s => m'[t] = m[t]
  BY DEF AlignIInv, RatesIInv, StationIInv, CallInv
<1>2. \A t \in Sides : m'[t].mode = t => Aligned(m'[t])
  BY <1>1 DEF AlignIInv, AlignInv
<1> QED
  BY <1>2 DEF AlignInv

\* A retrain starts before the words, and data mode has none to send.
LEMMA DataAligned ==
  ASSUME AlignIInv, NEW s \in Sides, v32_data(s) \/ v32_data_control(s)
  PROVE  AlignInv'
<1>1. PICK h : Onward(s, m[s], h) /\ m' = [m EXCEPT ![s] = h]
  BY DataCarried, ControlCarried DEF AlignIInv, Carried
<1>2. ASSUME h.mode = s PROVE Aligned(h)
  <2>1. h.state = "B2" /\ h.gen.kind # "B1"
    BY <1>1, <1>2 DEF Onward, Sides
  <2> QED
    BY <2>1 DEF Aligned, OrgAligned, AnsAligned
<1> QED
  BY <1>1, <1>2, OthersAligned

\* The end of a block.
LEMMA ProcessAligned ==
  ASSUME AlignIInv, NEW s \in Sides, v32_process(s)
  PROVE  AlignInv'
<1> DEFINE d == [m[s] EXCEPT !.mode = "data", !.state = "DONT_CARE"]
           h == IF m[s].data THEN d ELSE m[s]
<1>1. m' = [m EXCEPT ![s] = h]
  BY DEF v32_process
<1>2. d.mode = "data" /\ s # "data"
  BY DEF AlignIInv, RatesIInv, StationIInv, SideInv, Ctx, Fields, Sides
<1> HIDE DEF d
<1>3. h.mode = s => Aligned(h)
  BY <1>2 DEF AlignIInv, AlignInv
<1> HIDE DEF h
<1> QED
  BY <1>1, <1>3, OthersAligned

\* Every step keeps what was sent of the words in line with the countdowns.
LEMMA NextAligned ==
  ASSUME AlignIInv, [Next]_vars
  PROVE  AlignIInv'
<1>1. RatesIInv'
  BY NextRates DEF AlignIInv
<1>2. CASE m' = m
  BY <1>1, <1>2 DEF AlignIInv, AlignInv
<1>3. ASSUME NEW s \in Sides, Block(s)
      PROVE  AlignInv'
  <2>1. CASE Receive(s)
    <3>1. PICK h : Timely(s, h) /\ RxEnd(s, h)
      BY <2>1, ReceiveTimely
    <3> QED
      BY <3>1, OthersAligned DEF Timely, RxEnd
  <2>2. CASE Transmit(s)
    <3>1. CASE Aftermath(s)
      BY <3>1, OthersAligned DEF Aftermath
    <3>2. CASE m' = m
      BY <3>2 DEF AlignIInv, AlignInv
    <3> QED
      BY <2>2, <3>1, <3>2, TransmitAligned
  <2>3. CASE v32_data(s) \/ v32_data_control(s)
    BY <2>3, DataAligned
  <2>4. CASE v32_process(s)
    BY <2>4, ProcessAligned
  <2>5. CASE v32_process_error(s)
    BY <2>5 DEF v32_process_error, AlignIInv, AlignInv
  <2> QED
    BY <1>3, <2>1, <2>2, <2>3, <2>4, <2>5 DEF Block
<1> QED
  BY <1>1, <1>2, <1>3 DEF Next, AlignIInv, vars

\* Two stations that have sent nothing yet.
LEMMA InitAligned ==
  ASSUME Init
  PROVE  AlignIInv
<1>1. RatesIInv
  BY InitKeeps, InitRates DEF RatesIInv
<1>2. PICK cfg \in Calls : m = [s \in Sides |-> Created(s, cfg[s], TRUE)]
  BY DEF Init
<1>3. ASSUME NEW s \in Sides
      PROVE  m[s].state = "A" /\ m[s].gen.kind = "silence"
  BY <1>2 DEF Created, Gen
<1>4. ASSUME NEW s \in Sides PROVE Aligned(m[s])
  BY <1>3 DEF Aligned, OrgAligned, AnsAligned
<1> QED
  BY <1>1, <1>4 DEF AlignIInv, AlignInv

\* Only a receive routine ends the wait for a word.
LEMMA StepBordered ==
  ASSUME AlignIInv, [Next]_vars
  PROVE  EAligned
<1> SUFFICES ASSUME NEW s \in Sides, pc = "rx", m[s].state \in {"R", "X2"},
                    m'[s].state \in {"S", "Y"}, m[s].s46 <= Limit
             PROVE  (m'[s].rmod + m'[s].left) % Scaled(8) = 0
  BY DEF EAligned
<1>1. m' # m
  OBVIOUS
<1>2. PICK t \in Sides : Block(t)
  BY <1>1 DEF Next, vars
<1>3. DOMAIN m = Sides
  BY DEF AlignIInv, RatesIInv, StationIInv, CallInv
<1>4. CASE Receive(t)
  <2>1. PICK h : Timely(t, h) /\ RxEnd(t, h)
    BY <1>4, ReceiveTimely
  <2>2. t = s /\ m'[s] = h
    BY <1>3, <2>1 DEF RxEnd
  <2> QED
    BY <2>1, <2>2 DEF Timely, Bordered
<1>5. CASE v32_data(t) \/ v32_data_control(t)
  <2>1. PICK h : Onward(t, m[t], h) /\ m' = [m EXCEPT ![t] = h]
    BY <1>5, DataCarried, ControlCarried DEF AlignIInv, Carried
  <2>2. t = s /\ m'[s] = h
    BY <1>3, <2>1
  <2> QED
    BY <2>1, <2>2 DEF Onward
<1>6. ~Transmit(t)
  <2>1. ~Transmitted(t) /\ ~TxHdxOverrun(t)
    BY DEF Transmitted, TxHdxOverrun
  <2> QED
    BY <2>1, TransmitSent DEF AlignIInv
<1>7. ~v32_process(t) /\ ~v32_process_error(t)
  BY <1>1 DEF v32_process, v32_process_error
<1> QED
  BY <1>2, <1>4, <1>5, <1>6, <1>7 DEF Block

\* For every duration and delay, whatever the detectors miss: when the word
\* that R or X2 awaits is heard, the wait computed there (V32org.c R,
\* V32ans.c X2) ends on the boundary of the rate words sent since two or three
\* states earlier, so E begins where the other station can recognise it.
THEOREM EOnBoundary == Spec => [][EAligned]_vars
<1>1. Init => AlignIInv
  BY InitAligned
<1>2. AlignIInv /\ [Next]_vars => AlignIInv'
  BY NextAligned
<1>3. AlignIInv /\ [Next]_vars => [EAligned]_vars
  BY StepBordered
<1> QED
  BY <1>1, <1>2, <1>3, PTL DEF Spec

\* For every duration and delay: the answering station sends E whole before
\* its B1 (V32ans.c Y, Z and END), as nothing but the countdown of E steps Z.
THEOREM AnsweringEWhole ==
  Spec => [](m["ans"].mode = "ans" /\ m["ans"].gen.kind = "B1" =>
               m["ans"].esent = Scaled(8))
<1>1. Init => AlignIInv
  BY InitAligned
<1>2. AlignIInv /\ [Next]_vars => AlignIInv'
  BY NextAligned
<1>3. AlignIInv => (m["ans"].mode = "ans" /\ m["ans"].gen.kind = "B1" =>
                      m["ans"].esent = Scaled(8))
  BY DEF AlignIInv, AlignInv, Aligned, AnsAligned, Sides
<1> QED
  BY <1>1, <1>2, <1>3, PTL DEF Spec

=============================================================================
