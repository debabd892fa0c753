--------------------------- MODULE V22Call_proofs ---------------------------
(***************************************************************************)
(* The V.22bis call for every value of its durations and bounds: a station *)
(* exchanges words at the rate of its line, is never raised above the rate *)
(* it was created for, and two stations that have heard each other agree.  *)
(***************************************************************************)
EXTENDS V22Call, TLAPS

\* V22FP_modem enters data mode with a CONNECT: the station after a block
\* that its routine ended as h.
Left(h) ==
  IF h.status \in {3, 4} \cup 6 .. 8 THEN [h EXCEPT !.proto = "data", !.node = 0]
  ELSE h

\* What a block of s that leaves the station as k, with words at w and sig on
\* the line, owes the invariant.
Goes(s, k, w, sig) ==
  /\ Station(s, k) /\ k.bps = m[s].bps
  /\ w \in {0} \cup Rate /\ Own(s, k, w) /\ sig \in Signals
  /\ Bis(m[s]) => Bis(k)
  /\ Bis(k) => k.bps = 2400 /\ m["org"].bps = 2400
  /\ m["org"].bps = 1200 =>
       /\ sig # S1
       /\ k.proto = s /\ ~(s = "org" /\ k.node = 3) => k.r08 = 0
  /\ sig \in {Ones(2400), User(2400)} => Bis(k)
  /\ \/ k.proto = s /\ k.node \in 10 .. 11 /\ k.trained
     \/ k.proto = "data" /\ k.txr = 2400 /\ ~k.blind
     => Bis(m[Peer(s)])

\* h differs from k in the timer, the counters, the status and the node only.
Kept(h, k) ==
  /\ h.proto = k.proto /\ h.bps = k.bps /\ h.txr = k.txr /\ h.rxr = k.rxr
  /\ h.trained = k.trained /\ h.blind = k.blind

-----------------------------------------------------------------------------

\* The bounds that the fields of a station have.
LEMMA BoundFacts ==
  /\ Deadline \in Nat /\ LossMax \in Nat /\ LossBack \in Nat
  /\ Scaled(59) \in Nat
BY V22Assumption DEF Durations

\* The signals are told apart by their kind and their rate.
LEMMA SignalFacts ==
  /\ \A r \in Rate : Ones(r) \in Signals /\ User(r) \in Signals
  /\ {Silence, AnswerTone, USB1, S1} \subseteq Signals
  /\ S1 \notin {Silence, AnswerTone, USB1, Ones(1200), Ones(2400), User(1200), User(2400)}
  /\ \A y \in {Silence, AnswerTone, USB1, S1, Ones(1200), User(1200)} :
       y # Ones(2400) /\ y # User(2400)
BY DEF Signals, Silence, AnswerTone, USB1, S1, Ones, User, Sig, Rate

\* The two stations are each other's peer.
LEMMA PeerFacts ==
  ASSUME NEW s \in Sides
  PROVE  Peer(s) \in Sides /\ Peer(s) # s /\ \A t \in Sides : t = s \/ t = Peer(s)
BY DEF Sides, Peer

\* One block of V22FP_modem keeps the invariant if the station does.
LEMMA BlockInv ==
  ASSUME WordsInv, NEW s \in Sides, NEW x, NEW h, NEW sig,
         V22FP_modem(s, x, h, sig),
         Goes(s, Left(h), Wanted(h.status, want[s]), sig)
  PROVE  WordsInv'
<1> DEFINE k == Left(h)
           w == Wanted(h.status, want[s])
<1>1. /\ m' = [m EXCEPT ![s] = k] /\ want' = [want EXCEPT ![s] = w]
      /\ line' = [line EXCEPT ![s] = sig] /\ turn' = Peer(s)
      /\ dp' = [dp EXCEPT ![s] = DpStatus(h.status)]
  BY DEF V22FP_modem, Left
<1>2. Goes(s, k, w, sig)
  OBVIOUS
<1> HIDE DEF k, w
<1>3. /\ DOMAIN m = Sides /\ want \in [Sides -> {0} \cup Rate]
      /\ line \in [Sides -> Signals] /\ dp \in [Sides -> {"OK", "CONNECT", "ERROR"}]
      /\ RatesOwn /\ RoadAgreed /\ RoadHeard
      /\ \A t \in Sides : Station(t, m[t])
  BY DEF WordsInv, TypeOK
<1>4. /\ m'[s] = k /\ want'[s] = w /\ line'[s] = sig
      /\ \A t \in Sides : t # s => m'[t] = m[t] /\ want'[t] = want[t] /\ line'[t] = line[t]
  BY <1>1, <1>3
<1>5. TypeOK'
  <2>1. DpStatus(h.status) \in {"OK", "CONNECT", "ERROR"}
    BY DEF DpStatus
  <2>2. \A t \in Sides : Station(t, m'[t])
    BY <1>2, <1>3, <1>4 DEF Goes
  <2>3. DOMAIN m' = Sides
    BY <1>1, <1>3
  <2> QED
    BY <1>1, <1>2, <1>3, <2>1, <2>2, <2>3, PeerFacts DEF TypeOK, Goes, Station
<1>6. RatesOwn'
  <2>1. Own(s, k, w)
    BY <1>2 DEF Goes
  <2>2. \A t \in Sides : Own(t, m'[t], want'[t])
    BY <1>3, <1>4, <2>1 DEF RatesOwn
  <2> QED
    BY <2>2 DEF RatesOwn, Own
<1>7. \A t \in Sides : (Bis(m[t]) => Bis(m'[t])) /\ m'[t].bps = m[t].bps
  BY <1>2, <1>4 DEF Goes
<1>8. RoadAgreed'
  <2>1. \A t \in Sides : Bis(m'[t]) => m'[t].bps = 2400
    BY <1>2, <1>3, <1>4, <1>7 DEF Goes, RoadAgreed
  <2>2. ASSUME m'["org"].bps = 1200, NEW t \in Sides
        PROVE  /\ ~Bis(m'[t]) /\ line'[t] # S1
               /\ m'[t].proto = t /\ ~(t = "org" /\ m'[t].node = 3) => m'[t].r08 = 0
    <3>1. m["org"].bps = 1200
      BY <1>7, <2>2 DEF Sides
    <3> QED
      BY <1>2, <1>3, <1>4, <3>1 DEF Goes, RoadAgreed
  <2> QED
    BY <2>1, <2>2 DEF RoadAgreed, Bis, S1, Sig
<1>9. RoadHeard'
  <2>1. ASSUME NEW t \in Sides
        PROVE  /\ line'[t] \in {Ones(2400), User(2400)} => Bis(m'[t])
               /\ \/ m'[t].proto = t /\ m'[t].node \in 10 .. 11 /\ m'[t].trained
                  \/ m'[t].proto = "data" /\ m'[t].txr = 2400 /\ ~m'[t].blind
                  => Bis(m'[Peer(t)])
    BY <1>2, <1>3, <1>4, <1>7, PeerFacts DEF Goes, RoadHeard
  <2> QED
    BY <2>1 DEF RoadHeard, Bis, Peer, Ones, User, Sig
<1>10. WordsFit'
  BY <1>6 DEF RatesOwn, Own, WordsFit
<1>11. NoUpgrade'
  <2> SUFFICES ASSUME NEW t \in Sides, m'[t].bps = 1200
               PROVE  m'[t].txr = 1200 /\ m'[t].rxr = 1200 /\ m'[t].proto # "retrain"
    BY DEF NoUpgrade
  <2>1. ~Bis(m'[t]) /\ Own(t, m'[t], want'[t])
    BY <1>6, <1>8 DEF RoadAgreed, RatesOwn, Bis, Own
  <2>2. Station(t, m'[t])
    BY <1>5 DEF TypeOK, Station
  <2> QED
    BY <2>1, <2>2 DEF Bis, Own, Station, Rate, Sides
<1> QED
  BY <1>5, <1>6, <1>8, <1>9, <1>10, <1>11 DEF WordsInv

-----------------------------------------------------------------------------

\* What the invariant says of a station before its block, and of what it hears.
LEMMA Before ==
  ASSUME WordsInv, NEW s \in Sides, NEW x \in Hears(s)
  PROVE  /\ Station(s, m[s]) /\ want[s] \in {0} \cup Rate /\ Own(s, m[s], want[s])
         /\ Bis(m[s]) => m[s].bps = 2400 /\ m["org"].bps = 2400
         /\ m["org"].bps = 1200 =>
              /\ x # S1
              /\ m[s].proto = s /\ ~(s = "org" /\ m[s].node = 3) => m[s].r08 = 0
         /\ \/ m[s].proto = s /\ m[s].node \in 10 .. 11 /\ m[s].trained
            \/ m[s].proto = "data" /\ m[s].txr = 2400 /\ ~m[s].blind
            => Bis(m[Peer(s)])
         /\ x \in {Ones(2400), User(2400)} => Bis(m[Peer(s)])
<1>1. x = Silence \/ x = line[Peer(s)]
  BY DEF Hears
<1>2. TypeOK /\ RatesOwn /\ RoadAgreed /\ RoadHeard
  BY DEF WordsInv
<1>3. Station(s, m[s]) /\ Station("org", m["org"])
  BY <1>2 DEF TypeOK, Sides
<1>4. m["org"].bps = 1200 \/ m["org"].bps = 2400
  BY <1>3 DEF Station, Rate
<1>5. x # S1 \/ m["org"].bps = 2400
  BY <1>1, <1>2, <1>4, SignalFacts, PeerFacts DEF RoadAgreed
<1>6. Bis(m[s]) => m[s].bps = 2400 /\ m["org"].bps = 2400
  BY <1>2, <1>4 DEF RoadAgreed
<1>7. x \in {Ones(2400), User(2400)} => Bis(m[Peer(s)])
  BY <1>1, <1>2, SignalFacts, PeerFacts DEF RoadHeard
<1> QED
  BY <1>2, <1>3, <1>4, <1>5, <1>6, <1>7 DEF TypeOK, RatesOwn, RoadAgreed, RoadHeard

\* A detector fires on what it looks for only.
LEMMA DetectFacts ==
  /\ \A x : \A found \in Detect_v22(x) : found \in BOOLEAN
  /\ \A x : \A s1 \in Detect_S1(x) : s1 \in BOOLEAN /\ (s1 => x = S1)
  /\ \A x, rate : \A found \in Detect_1s(x, rate) :
       found \in BOOLEAN /\ (found => x \in {Ones(rate), User(rate)})
BY DEF Detect_v22, Detect_S1, Detect_1s, Possible

\* A station on the road to 2400 owes only its own rates, and what it heard.
LEMMA BisGoes ==
  ASSUME WordsInv, NEW s \in Sides, NEW x \in Hears(s), Bis(m[s]),
         NEW k, NEW w \in {0} \cup Rate, NEW sig \in Signals,
         Station(s, k), k.bps = m[s].bps, Own(s, k, w), Bis(k),
         \/ k.proto = s /\ k.node \in 10 .. 11 /\ k.trained
         \/ k.proto = "data" /\ k.txr = 2400 /\ ~k.blind
         => Bis(m[Peer(s)])
  PROVE  Goes(s, k, w, sig)
<1>1. m[s].bps = 2400 /\ m["org"].bps = 2400
  BY Before
<1> QED
  BY <1>1 DEF Goes

\* A call has one rate that each station was created for.
LEMMA CallRates ==
  ASSUME WordsInv
  PROVE  \A s \in Sides : m[s].bps \in Rate /\ m[s].g \in 0 .. Deadline + 1
BY DEF WordsInv, TypeOK, Station

\* The timer of a block, its limits, and the start of a node.
LEMMA StepFacts ==
  ASSUME NEW h, h.g \in 0 .. Deadline + 1
  PROVE  /\ Kept(Tick(h), h) /\ Tick(h).node = h.node /\ Tick(h).r08 = h.r08
         /\ Tick(h).loss = h.loss /\ Tick(h).status = h.status
         /\ Tick(h).g \in 0 .. Deadline + 1
         /\ \A limit, st :
              LET k == Timed(Tick(h), limit, st)
              IN /\ Kept(k, h) /\ k.node = h.node /\ k.r08 = h.r08 /\ k.loss = h.loss
                 /\ k.status \in {h.status, st} /\ k.g \in 0 .. Deadline + 1
         /\ \A n :
              LET k == Fresh(h, n)
              IN /\ Kept(k, h) /\ k.node = n /\ k.r08 = 0 /\ k.loss = h.loss
                 /\ k.status = h.status /\ k.g \in 0 .. Deadline + 1
BY BoundFacts DEF Tick, Timed, Fresh, Kept

\* Waiting for the end of S1.
LEMMA HeardFacts ==
  ASSUME NEW h, h.g \in 0 .. Deadline + 1, h.r08 \in Nat, NEW s1 \in BOOLEAN, NEW next
  PROVE  LET k == Tick(HeardOut(h, s1, next))
         IN /\ Kept(k, h) /\ k.node \in {h.node, next} /\ k.loss = h.loss
            /\ k.status = h.status /\ k.g \in 0 .. Deadline + 1 /\ k.r08 \in Nat
<1> DEFINE q == HeardOut(h, s1, next)
<1>1. /\ Kept(q, h) /\ q.node \in {h.node, next} /\ q.loss = h.loss
      /\ q.status = h.status /\ q.g \in 0 .. Deadline + 1 /\ q.r08 \in Nat
  <2>1. CASE s1
    <3>1. q = [h EXCEPT !.r08 = h.r08 + 1]
      BY <2>1 DEF HeardOut
    <3> QED
      BY <3>1 DEF Kept
  <2>2. CASE ~s1 /\ h.r08 # 0
    <3>1. q = [h EXCEPT !.g = 0, !.r08 = 0, !.node = next]
      BY <2>2 DEF HeardOut
    <3> QED
      BY <3>1, BoundFacts DEF Kept
  <2>3. CASE ~s1 /\ h.r08 = 0
    BY <2>3 DEF HeardOut, Kept
  <2> QED
    BY <2>1, <2>2, <2>3
<1> HIDE DEF q
<1>2. /\ Kept(Tick(q), q) /\ Tick(q).node = q.node /\ Tick(q).loss = q.loss
      /\ Tick(q).status = q.status /\ Tick(q).g \in 0 .. Deadline + 1
      /\ Tick(q).r08 = q.r08
  BY <1>1, StepFacts
<1> QED
  BY <1>1, <1>2 DEF Kept, q

\* What nodes 5 and 6, and node 3 of the answering station, learn from a block.
LEMMA ListenFacts ==
  ASSUME NEW h, h.r08 \in Nat, NEW x, NEW s1 \in BOOLEAN, NEW ones \in BOOLEAN,
         NEW k \in {Listened(h, x, s1, ones), AnsListened(h, x, s1, ones)}
  PROVE  /\ Kept(k, h) /\ k.node = h.node /\ k.g = h.g /\ k.loss = h.loss
         /\ k.status = h.status /\ k.r08 \in Nat
         /\ h.r08 = 0 /\ ~s1 => k.r08 = 0
<1> DEFINE l == Listened(h, x, s1, ones)
<1>1. /\ Kept(l, h) /\ l.node = h.node /\ l.g = h.g /\ l.loss = h.loss
      /\ l.status = h.status /\ l.r08 \in Nat
      /\ h.r08 = 0 /\ ~s1 => l.r08 = 0
  BY DEF Listened, CountS1, SatInc, Kept
<1>2. CASE k = l
  BY <1>1, <1>2
<1>3. CASE k = AnsListened(h, x, s1, ones)
  <2> HIDE DEF l
  <2>1. k = l \/ k = [l EXCEPT !.ones = 0]
    BY <1>3 DEF AnsListened, l
  <2>2. ASSUME k = [l EXCEPT !.ones = 0]
        PROVE  /\ Kept(k, l) /\ k.node = l.node /\ k.g = l.g /\ k.loss = l.loss
               /\ k.status = l.status /\ k.r08 = l.r08
    BY <2>2 DEF Kept
  <2> QED
    BY <1>1, <2>1, <2>2 DEF Kept
<1> QED
  BY <1>2, <1>3

\* The end of connect_2400: the station as it was, or the start of a retrain.
LEMMA CarrierFacts ==
  ASSUME NEW h, NEW x, h.loss \in 0 .. LossMax + 1
  PROVE  LET k == Carrier2400(h, x)
         IN /\ k.bps = h.bps /\ k.txr = h.txr /\ k.rxr = h.rxr /\ k.g = h.g
            /\ k.r08 = h.r08 /\ k.trained = h.trained /\ k.blind = h.blind
            /\ k.loss \in 0 .. LossMax + 1
            /\ \/ k.proto = h.proto /\ k.node = h.node /\ k.status \in {h.status, 16}
               \/ k.proto = "retrain" /\ k.node = 1 /\ k.status = 11
<1>1. CASE CarrierDetect(x) /\ h.loss # 0
  BY <1>1, BoundFacts DEF Carrier2400, StartRetrain
<1>2. CASE CarrierDetect(x) /\ h.loss = 0
  BY <1>2 DEF Carrier2400
<1>3. CASE ~CarrierDetect(x)
  BY <1>3, BoundFacts DEF Carrier2400, NoCarrier, SatInc
<1> QED
  BY <1>1, <1>2, <1>3

\* The end of connect_1200.
LEMMA Carrier1200Facts ==
  ASSUME NEW h, NEW x, h.loss \in 0 .. LossMax + 1
  PROVE  LET k == Carrier1200(h, x)
         IN /\ Kept(k, h) /\ k.node = h.node /\ k.g = h.g /\ k.r08 = h.r08
            /\ k.loss \in 0 .. LossMax + 1 /\ k.status \in {h.status, 16}
BY BoundFacts DEF Carrier1200, NoCarrier, SatInc, Kept

-----------------------------------------------------------------------------

\* v22_originate, node by node.
LEMMA OrgNode0Inv ==
  ASSUME WordsInv, NEW s \in Sides, ORG_NODE_0(s)
  PROVE  WordsInv'
<1> DEFINE h == [Fresh(Hand(s), 1) EXCEPT !.txr = 1200, !.rxr = 1200]
<1>1. PICK x \in Hears(s) : V22FP_modem(s, x, h, Silence)
  BY DEF ORG_NODE_0
<1>3. m[s].proto = "org" /\ m[s].node = 0 /\ s = "org"
  BY <1>1, Before DEF ORG_NODE_0, At, Sides, Station
<1> DEFINE k == h
<1>4. /\ k.proto = "org" /\ k.node = 1 /\ k.status = 1 /\ k.txr = 1200 /\ k.rxr = 1200
      /\ k.bps = m[s].bps /\ k.trained = m[s].trained /\ k.blind = m[s].blind
      /\ k.g = 0 /\ k.r08 = 0 /\ k.loss = m[s].loss
  BY <1>1, <1>3, Before, BoundFacts
  DEF Hand, Fresh
<1>5. V22FP_modem(s, x, k, Silence)
  BY <1>1
<1> HIDE DEF k
<1>6. Goes(s, Left(k), Wanted(k.status, want[s]), Silence)
  BY <1>1, <1>3, <1>4, Before, SignalFacts, BoundFacts
  DEF Left, Wanted, Goes, Own, Bis, Station, Sides, Rate
<1> QED
  BY <1>5, <1>6, BlockInv

\* Node 1: the calling station waits in silence for the ones of the other.
LEMMA OrgNode1Inv ==
  ASSUME WordsInv, NEW s \in Sides, ORG_NODE_1(s)
  PROVE  WordsInv'
<1> DEFINE h(found) == Timed(Tick(IF found THEN [Hand(s) EXCEPT !.g = 0, !.node = 3]
                                  ELSE Hand(s)), Deadline, 17)
<1>1. PICK x \in Hears(s) : \E found \in Detect_v22(x) :
        V22FP_modem(s, x, h(found), Silence)
  BY DEF ORG_NODE_1
<1>2. PICK found \in Detect_v22(x) :
        V22FP_modem(s, x, h(found), Silence)
  BY <1>1
<1>3. m[s].proto = "org" /\ m[s].node = 1 /\ s = "org"
  BY <1>1, Before DEF ORG_NODE_1, At, Sides, Station
<1> DEFINE k == h(found)
<1>4. /\ Kept(k, m[s]) /\ k.node \in {1, 3} /\ k.status \in {1, 17}
      /\ k.r08 = m[s].r08 /\ k.g \in 0 .. Deadline + 1 /\ k.loss = m[s].loss
  BY <1>1, <1>3, Before, BoundFacts
  DEF Kept, Hand, Timed, Tick, Station
<1>5. V22FP_modem(s, x, k, Silence)
  BY <1>2
<1> HIDE DEF k
<1>6. Goes(s, Left(k), Wanted(k.status, want[s]), Silence)
  BY <1>1, <1>3, <1>4, Before, SignalFacts
  DEF Left, Wanted, Goes, Own, Bis, Station, Sides, Rate, Kept
<1> QED
  BY <1>5, <1>6, BlockInv

\* Node 3: it counts the blocks in which it hears them.
LEMMA OrgNode3Inv ==
  ASSUME WordsInv, NEW s \in Sides, ORG_NODE_3(s)
  PROVE  WordsInv'
<1> DEFINE h(found) == Timed(Tick(IF (IF found THEN m[s].r08 + 1 ELSE m[s].r08) > Scaled(135)
                                  THEN [Hand(s) EXCEPT !.g = 0, !.r08 = 0, !.node = 4]
                                  ELSE [Hand(s) EXCEPT !.r08 = IF found THEN m[s].r08 + 1
                                                               ELSE m[s].r08]), Deadline, 19)
<1>1. PICK x \in Hears(s) : \E found \in Detect_v22(x) :
        V22FP_modem(s, x, h(found), Silence)
  BY DEF ORG_NODE_3
<1>2. PICK found \in Detect_v22(x) :
        V22FP_modem(s, x, h(found), Silence)
  BY <1>1
<1>3. m[s].proto = "org" /\ m[s].node = 3 /\ s = "org"
  BY <1>1, Before DEF ORG_NODE_3, At, Sides, Station
<1> DEFINE k == h(found)
<1>4. /\ Kept(k, m[s]) /\ k.node \in {3, 4} /\ k.status \in {1, 19}
      /\ k.r08 \in Nat /\ (k.node = 4 => k.r08 = 0) /\ k.g \in 0 .. Deadline + 1 /\ k.loss = m[s].loss
  BY <1>1, <1>3, Before, BoundFacts
  DEF Kept, Hand, Timed, Tick, Station
<1>5. V22FP_modem(s, x, k, Silence)
  BY <1>2
<1> HIDE DEF k
<1>6. Goes(s, Left(k), Wanted(k.status, want[s]), Silence)
  BY <1>1, <1>3, <1>4, Before, SignalFacts
  DEF Left, Wanted, Goes, Own, Bis, Station, Sides, Rate, Kept
<1> QED
  BY <1>5, <1>6, BlockInv

\* Node 4: it stays silent for its time.
LEMMA OrgNode4Inv ==
  ASSUME WordsInv, NEW s \in Sides, ORG_NODE_4(s)
  PROVE  WordsInv'
<1> DEFINE h == IF Tick(Hand(s)).g > Scaled(416) THEN [Tick(Hand(s)) EXCEPT !.node = 5]
                ELSE Tick(Hand(s))
<1>1. PICK x \in Hears(s) : V22FP_modem(s, x, h, Silence)
  BY DEF ORG_NODE_4
<1>3. m[s].proto = "org" /\ m[s].node = 4 /\ s = "org"
  BY <1>1, Before DEF ORG_NODE_4, At, Sides, Station
<1> DEFINE k == h
<1>4. /\ Kept(k, m[s]) /\ k.node \in {4, 5} /\ k.status = 1
      /\ k.r08 = m[s].r08 /\ k.g \in 0 .. Deadline + 1 /\ k.loss = m[s].loss
  BY <1>1, <1>3, Before, BoundFacts
  DEF Kept, Hand, Tick, Station
<1>5. V22FP_modem(s, x, k, Silence)
  BY <1>1
<1> HIDE DEF k
<1>6. Goes(s, Left(k), Wanted(k.status, want[s]), Silence)
  BY <1>1, <1>3, <1>4, Before, SignalFacts
  DEF Left, Wanted, Goes, Own, Bis, Station, Sides, Rate, Kept
<1> QED
  BY <1>5, <1>6, BlockInv

\* Node 5: it sends S1, or ones if it asks for 1200, and listens.
LEMMA OrgNode5Inv ==
  ASSUME WordsInv, NEW s \in Sides, ORG_NODE_5(s)
  PROVE  WordsInv'
<1> DEFINE l(x, s1, ones) == Listened(Hand(s), x, s1, ones)
           h(l0, s1) == IF Tick(l0).g > Scaled(536) THEN [Tick(l0) EXCEPT !.node = 6] ELSE Tick(l0)
           sig(l0) == IF Tick(l0).bps = 1200 THEN Ones(1200) ELSE S1
<1>1. PICK x \in Hears(s) : \E s1 \in Detect_S1(x), ones \in Detect_1s(x, 1200) :
        V22FP_modem(s, x, h(l(x, s1, ones), s1), sig(l(x, s1, ones)))
  BY DEF ORG_NODE_5
<1>2. PICK s1 \in Detect_S1(x), ones \in Detect_1s(x, 1200) :
        V22FP_modem(s, x, h(l(x, s1, ones), s1), sig(l(x, s1, ones)))
  BY <1>1
<1>3. m[s].proto = "org" /\ m[s].node = 5 /\ s = "org"
  BY <1>1, Before DEF ORG_NODE_5, At, Sides, Station
<1> DEFINE l1 == l(x, s1, ones)
<1>4. /\ Kept(l1, m[s]) /\ l1.node = 5 /\ l1.g = m[s].g /\ l1.loss = m[s].loss
      /\ l1.status = 1 /\ l1.r08 \in Nat
      /\ m["org"].bps = 1200 => l1.r08 = 0 /\ ~s1
  <2>1. /\ Kept(Hand(s), m[s]) /\ Hand(s).r08 = m[s].r08 /\ Hand(s).node = m[s].node
        /\ Hand(s).g = m[s].g /\ Hand(s).loss = m[s].loss /\ Hand(s).status = 1
    BY DEF Hand, Kept
  <2>2. m[s].r08 \in Nat
    BY <1>1, Before DEF Station
  <2>3. s1 \in BOOLEAN /\ ones \in BOOLEAN /\ (m["org"].bps = 1200 => ~s1 /\ m[s].r08 = 0)
    BY <1>1, <1>3, Before, DetectFacts
  <2> QED
    BY <1>3, <2>1, <2>2, <2>3, ListenFacts DEF Kept
<1> DEFINE k == h(l1, s1)
           sig1 == sig(l1)
<1>5. V22FP_modem(s, x, k, sig1)
  BY <1>2
<1> HIDE DEF l1
<1>6. /\ Kept(k, m[s]) /\ k.node \in {5, 6} /\ k.status \in {1}
      /\ k.g \in 0 .. Deadline + 1 /\ k.loss = m[s].loss /\ k.r08 \in Nat
      /\ m["org"].bps = 1200 => k.r08 = 0
  <2>1. l1.g \in 0 .. Deadline + 1
    BY <1>1, <1>4, Before DEF Station
  <2> DEFINE t == Tick(l1)
  <2>2. /\ Kept(t, l1) /\ t.node = l1.node /\ t.r08 = l1.r08 /\ t.loss = l1.loss
        /\ t.status = l1.status /\ t.g \in 0 .. Deadline + 1
    BY <2>1, StepFacts
  <2>3. k = t \/ k = [t EXCEPT !.node = 6]
    OBVIOUS
  <2> HIDE DEF t, k
  <2>4. CASE k = t
    BY <1>3, <1>4, <2>2, <2>4 DEF Kept
  <2>5. CASE k = [t EXCEPT !.node = 6]
    BY <1>3, <1>4, <2>2, <2>5 DEF Kept
  <2> QED
    BY <2>3, <2>4, <2>5
<1>7. sig1 \in {Ones(1200), AnswerTone, USB1} \/ (sig1 = S1 /\ m["org"].bps = 2400)
  BY <1>3, <1>4, CallRates DEF Kept, Rate, Tick
<1> HIDE DEF k, sig1
<1>8. Goes(s, Left(k), Wanted(k.status, want[s]), sig1)
  BY <1>1, <1>3, <1>6, <1>7, Before, SignalFacts
  DEF Left, Wanted, Goes, Own, Bis, Station, Sides, Rate, Kept
<1> QED
  BY <1>5, <1>8, BlockInv

\* Node 6: the end of the S1 of the other leads to node 8, enough ones to 12.
LEMMA OrgNode6Inv ==
  ASSUME WordsInv, NEW s \in Sides, ORG_NODE_6(s)
  PROVE  WordsInv'
<1> DEFINE l(x, s1, ones) == Listened(Hand(s), x, s1, ones)
           h(l0, s1) == CASE l0.r08 > Scaled(59) /\ ~s1 -> Fresh(l0, 8)
                         [] ~(l0.r08 > Scaled(59) /\ ~s1) /\ l0.ones > Scaled(230) ->
                              Fresh(l0, 12)
                         [] OTHER -> Timed(Tick(l0), Scaled(1926), 20)
           sig(l0) == Ones(1200)
<1>1. PICK x \in Hears(s) : \E s1 \in Detect_S1(x), ones \in Detect_1s(x, 1200) :
        V22FP_modem(s, x, h(l(x, s1, ones), s1), sig(l(x, s1, ones)))
  BY DEF ORG_NODE_6
<1>2. PICK s1 \in Detect_S1(x), ones \in Detect_1s(x, 1200) :
        V22FP_modem(s, x, h(l(x, s1, ones), s1), sig(l(x, s1, ones)))
  BY <1>1
<1>3. m[s].proto = "org" /\ m[s].node = 6 /\ s = "org"
  BY <1>1, Before DEF ORG_NODE_6, At, Sides, Station
<1> DEFINE l1 == l(x, s1, ones)
<1>4. /\ Kept(l1, m[s]) /\ l1.node = 6 /\ l1.g = m[s].g /\ l1.loss = m[s].loss
      /\ l1.status = 1 /\ l1.r08 \in Nat
      /\ m["org"].bps = 1200 => l1.r08 = 0 /\ ~s1
  <2>1. /\ Kept(Hand(s), m[s]) /\ Hand(s).r08 = m[s].r08 /\ Hand(s).node = m[s].node
        /\ Hand(s).g = m[s].g /\ Hand(s).loss = m[s].loss /\ Hand(s).status = 1
    BY DEF Hand, Kept
  <2>2. m[s].r08 \in Nat
    BY <1>1, Before DEF Station
  <2>3. s1 \in BOOLEAN /\ ones \in BOOLEAN /\ (m["org"].bps = 1200 => ~s1 /\ m[s].r08 = 0)
    BY <1>1, <1>3, Before, DetectFacts
  <2> QED
    BY <1>3, <2>1, <2>2, <2>3, ListenFacts DEF Kept
<1> DEFINE k == h(l1, s1)
           sig1 == sig(l1)
<1>5. V22FP_modem(s, x, k, sig1)
  BY <1>2
<1> HIDE DEF l1
<1>6. /\ Kept(k, m[s]) /\ k.node \in {6, 8, 12} /\ k.status \in {1, 20}
      /\ k.g \in 0 .. Deadline + 1 /\ k.loss = m[s].loss /\ k.r08 \in Nat
      /\ m["org"].bps = 1200 => k.r08 = 0
      /\ k.node = 8 => m["org"].bps = 2400
  <2>1. l1.g \in 0 .. Deadline + 1
    BY <1>1, <1>4, Before DEF Station
  <2> DEFINE bis == l1.r08 > Scaled(59) /\ ~s1
  <2>2. CASE bis
    <3>1. k = Fresh(l1, 8)
      BY <2>2
    <3>2. m["org"].bps = 2400
      BY <1>4, <2>2, CallRates, BoundFacts DEF Rate, Sides
    <3> HIDE DEF k
    <3>3. /\ Kept(k, l1) /\ k.node = 8 /\ k.r08 = 0 /\ k.loss = l1.loss
          /\ k.status = l1.status /\ k.g \in 0 .. Deadline + 1
      BY <2>1, <3>1, StepFacts
    <3> QED
      BY <1>3, <1>4, <2>2, <3>2, <3>3 DEF Kept
  <2>3. CASE ~bis /\ l1.ones > Scaled(230)
    <3>1. k = Fresh(l1, 12)
      BY <2>3
    <3> HIDE DEF k
    <3> QED
      BY <1>3, <1>4, <2>1, <3>1, StepFacts DEF Kept
  <2>4. CASE ~bis /\ ~(l1.ones > Scaled(230))
    <3>1. k = Timed(Tick(l1), Scaled(1926), 20)
      BY <2>4
    <3> HIDE DEF k
    <3> QED
      BY <1>3, <1>4, <2>1, <3>1, StepFacts DEF Kept
  <2> QED
    BY <2>2, <2>3, <2>4
<1>7. sig1 \in {Ones(1200), AnswerTone, USB1} \/ (sig1 = S1 /\ m["org"].bps = 2400)
  BY <1>3, <1>4, CallRates DEF Kept, Rate, Sides
<1> HIDE DEF k, sig1
<1>8. Goes(s, Left(k), Wanted(k.status, want[s]), sig1)
  BY <1>1, <1>3, <1>6, <1>7, Before, SignalFacts
  DEF Left, Wanted, Goes, Own, Bis, Station, Sides, Rate, Kept
<1> QED
  BY <1>5, <1>8, BlockInv

-----------------------------------------------------------------------------

\* v22_answer, node by node.
LEMMA AnsNode0Inv ==
  ASSUME WordsInv, NEW s \in Sides, ANS_NODE_0(s)
  PROVE  WordsInv'
<1> DEFINE h == [Fresh(Hand(s), 3) EXCEPT !.txr = 1200, !.rxr = 1200]
<1>1. PICK x \in Hears(s) : V22FP_modem(s, x, h, USB1)
  BY DEF ANS_NODE_0
<1>3. m[s].proto = "ans" /\ m[s].node = 0 /\ s = "ans"
  BY <1>1, Before DEF ANS_NODE_0, At, Sides, Station
<1> DEFINE k == h
<1>4. /\ k.proto = "ans" /\ k.node = 3 /\ k.status = 1 /\ k.txr = 1200 /\ k.rxr = 1200
      /\ k.bps = m[s].bps /\ k.trained = m[s].trained /\ k.blind = m[s].blind
      /\ k.g = 0 /\ k.r08 = 0 /\ k.loss = m[s].loss
  BY <1>1, <1>3, Before, BoundFacts
  DEF Hand, Fresh
<1>5. V22FP_modem(s, x, k, USB1)
  BY <1>1
<1> HIDE DEF k
<1>6. Goes(s, Left(k), Wanted(k.status, want[s]), USB1)
  BY <1>1, <1>3, <1>4, Before, SignalFacts, BoundFacts
  DEF Left, Wanted, Goes, Own, Bis, Station, Sides, Rate
<1> QED
  BY <1>5, <1>6, BlockInv

\* Node 3: the answering station sends its ones and listens.
LEMMA AnsNode3Inv ==
  ASSUME WordsInv, NEW s \in Sides, ANS_NODE_3(s)
  PROVE  WordsInv'
<1> DEFINE l(x, s1, ones) == AnsListened(Hand(s), x, s1, ones)
           h(l0, s1) == CASE l0.r08 > Scaled(59) /\ ~s1 /\ l0.bps = 2400 -> Fresh(l0, 4)
                         [] ~(l0.r08 > Scaled(59) /\ ~s1 /\ l0.bps = 2400)
                            /\ l0.ones > Scaled(230) -> Fresh(l0, 12)
                         [] OTHER -> Timed(Tick(l0), Deadline, 21)
           sig(l0) == IF m[s].g > Scaled(1470) THEN AnswerTone ELSE USB1
<1>1. PICK x \in Hears(s) : \E s1 \in Detect_S1(x), ones \in Detect_1s(x, 1200) :
        V22FP_modem(s, x, h(l(x, s1, ones), s1), sig(l(x, s1, ones)))
  BY DEF ANS_NODE_3
<1>2. PICK s1 \in Detect_S1(x), ones \in Detect_1s(x, 1200) :
        V22FP_modem(s, x, h(l(x, s1, ones), s1), sig(l(x, s1, ones)))
  BY <1>1
<1>3. m[s].proto = "ans" /\ m[s].node = 3 /\ s = "ans"
  BY <1>1, Before DEF ANS_NODE_3, At, Sides, Station
<1> DEFINE l1 == l(x, s1, ones)
<1>4. /\ Kept(l1, m[s]) /\ l1.node = 3 /\ l1.g = m[s].g /\ l1.loss = m[s].loss
      /\ l1.status = 1 /\ l1.r08 \in Nat
      /\ m["org"].bps = 1200 => l1.r08 = 0 /\ ~s1
  <2>1. /\ Kept(Hand(s), m[s]) /\ Hand(s).r08 = m[s].r08 /\ Hand(s).node = m[s].node
        /\ Hand(s).g = m[s].g /\ Hand(s).loss = m[s].loss /\ Hand(s).status = 1
    BY DEF Hand, Kept
  <2>2. m[s].r08 \in Nat
    BY <1>1, Before DEF Station
  <2>3. s1 \in BOOLEAN /\ ones \in BOOLEAN /\ (m["org"].bps = 1200 => ~s1 /\ m[s].r08 = 0)
    BY <1>1, <1>3, Before, DetectFacts
  <2> QED
    BY <1>3, <2>1, <2>2, <2>3, ListenFacts DEF Kept
<1> DEFINE k == h(l1, s1)
           sig1 == sig(l1)
<1>5. V22FP_modem(s, x, k, sig1)
  BY <1>2
<1> HIDE DEF l1
<1>6. /\ Kept(k, m[s]) /\ k.node \in {3, 4, 12} /\ k.status \in {1, 21}
      /\ k.g \in 0 .. Deadline + 1 /\ k.loss = m[s].loss /\ k.r08 \in Nat
      /\ m["org"].bps = 1200 => k.r08 = 0
      /\ k.node = 4 => m["org"].bps = 2400 /\ m[s].bps = 2400
  <2>1. l1.g \in 0 .. Deadline + 1
    BY <1>1, <1>4, Before DEF Station
  <2> DEFINE bis == l1.r08 > Scaled(59) /\ ~s1 /\ l1.bps = 2400
  <2>2. CASE bis
    <3>1. k = Fresh(l1, 4)
      BY <2>2
    <3>2. m["org"].bps = 2400
      BY <1>4, <2>2, CallRates, BoundFacts DEF Rate, Sides
    <3> HIDE DEF k
    <3>3. /\ Kept(k, l1) /\ k.node = 4 /\ k.r08 = 0 /\ k.loss = l1.loss
          /\ k.status = l1.status /\ k.g \in 0 .. Deadline + 1
      BY <2>1, <3>1, StepFacts
    <3> QED
      BY <1>3, <1>4, <2>2, <3>2, <3>3 DEF Kept
  <2>3. CASE ~bis /\ l1.ones > Scaled(230)
    <3>1. k = Fresh(l1, 12)
      BY <2>3
    <3> HIDE DEF k
    <3> QED
      BY <1>3, <1>4, <2>1, <3>1, StepFacts DEF Kept
  <2>4. CASE ~bis /\ ~(l1.ones > Scaled(230))
    <3>1. k = Timed(Tick(l1), Deadline, 21)
      BY <2>4
    <3> HIDE DEF k
    <3> QED
      BY <1>3, <1>4, <2>1, <3>1, StepFacts DEF Kept
  <2> QED
    BY <2>2, <2>3, <2>4
<1>7. sig1 \in {Ones(1200), AnswerTone, USB1} \/ (sig1 = S1 /\ m["org"].bps = 2400)
  BY <1>3, <1>4, CallRates DEF Kept, Rate, Sides
<1> HIDE DEF k, sig1
<1>8. Goes(s, Left(k), Wanted(k.status, want[s]), sig1)
  BY <1>1, <1>3, <1>6, <1>7, Before, SignalFacts
  DEF Left, Wanted, Goes, Own, Bis, Station, Sides, Rate, Kept
<1> QED
  BY <1>5, <1>8, BlockInv

\* Node 4: it answers S1 with its own.
LEMMA AnsNode4Inv ==
  ASSUME WordsInv, NEW s \in Sides, ANS_NODE_4(s)
  PROVE  WordsInv'
<1> DEFINE h == IF Tick(Hand(s)).g > Scaled(97) THEN [Tick(Hand(s)) EXCEPT !.node = 8]
                ELSE Tick(Hand(s))
<1>1. PICK x \in Hears(s) : V22FP_modem(s, x, h, S1)
  BY DEF ANS_NODE_4
<1>3. m[s].proto = "ans" /\ m[s].node = 4 /\ s = "ans"
  BY <1>1, Before DEF ANS_NODE_4, At, Sides, Station
<1> DEFINE k == h
<1>4. /\ Kept(k, m[s]) /\ k.node \in {4, 8} /\ k.status = 1
      /\ k.r08 = m[s].r08 /\ k.g \in 0 .. Deadline + 1 /\ k.loss = m[s].loss
  BY <1>1, <1>3, Before, BoundFacts
  DEF Kept, Hand, Tick, Station
<1>5. V22FP_modem(s, x, k, S1)
  BY <1>1
<1> HIDE DEF k
<1>6. Goes(s, Left(k), Wanted(k.status, want[s]), S1)
  BY <1>1, <1>3, <1>4, Before, SignalFacts
  DEF Left, Wanted, Goes, Own, Bis, Station, Sides, Rate, Kept
<1> QED
  BY <1>5, <1>6, BlockInv

-----------------------------------------------------------------------------

\* connect_2400 and connect_1200, node by node.
LEMMA Node2400AInv ==
  ASSUME WordsInv, NEW s \in Sides, NODE_2400A(s)
  PROVE  WordsInv'
<1> DEFINE h == IF Tick(Hand(s)).g > Scaled(449)
                THEN [Tick(Hand(s)) EXCEPT !.node = 9, !.rxr = 2400]
                ELSE Tick(Hand(s))
<1>1. PICK x \in Hears(s) : V22FP_modem(s, x, Carrier2400(h, x), Ones(1200))
  BY DEF NODE_2400A
<1>3. m[s].proto = s /\ m[s].node = 8
  BY DEF NODE_2400A, AtEither, At
<1> DEFINE h0 == h
           k == Carrier2400(h0, x)
<1>4. V22FP_modem(s, x, k, Ones(1200))
  BY <1>1
<1>5. /\ h0.proto = s /\ h0.node \in {8, 9} /\ h0.status \in {1} /\ h0.bps = m[s].bps
      /\ h0.txr = 1200 /\ h0.rxr = IF h0.node = 8 THEN 1200 ELSE 2400
      /\ h0.trained = m[s].trained
      /\ h0.blind = m[s].blind /\ h0.g \in 0 .. Deadline + 1
      /\ h0.r08 = m[s].r08 /\ h0.loss = m[s].loss
  BY <1>1, <1>3, Before, BoundFacts DEF Hand, Tick, Station, Own
<1>6. m[s].loss \in 0 .. LossMax + 1
  BY <1>1, Before DEF Station
<1> HIDE DEF h0
<1>7. /\ k.bps = h0.bps /\ k.txr = h0.txr /\ k.rxr = h0.rxr /\ k.g = h0.g
      /\ k.r08 = h0.r08 /\ k.trained = h0.trained /\ k.blind = h0.blind
      /\ k.loss \in 0 .. LossMax + 1
      /\ \/ k.proto = s /\ k.node = h0.node /\ k.status \in {h0.status, 16}
         \/ k.proto = "retrain" /\ k.node = 1 /\ k.status = 11
  BY <1>5, <1>6, CarrierFacts
<1> HIDE DEF k
<1> DEFINE l == Left(k)
           w == Wanted(k.status, want[s])
<1>8. Bis(m[s])
  BY <1>3 DEF Bis
<1>9. Station(s, l) /\ l.bps = m[s].bps /\ Own(s, l, w) /\ Bis(l) /\ w \in {0} \cup Rate
  <2>1. CASE k.proto = s /\ k.node = h0.node /\ k.status \in {h0.status, 16}
    BY <1>1, <1>3, <1>5, <1>7, <2>1, Before
    DEF Left, Wanted, Own, Bis, Station, Sides, Rate
  <2>2. CASE k.proto = "retrain" /\ k.node = 1 /\ k.status = 11
    BY <1>1, <1>3, <1>5, <1>7, <2>2, Before
    DEF Left, Wanted, Own, Bis, Station, Sides, Rate
  <2> QED
    BY <1>7, <2>1, <2>2
<1>10. \/ l.proto = s /\ l.node \in 10 .. 11 /\ l.trained
       \/ l.proto = "data" /\ l.txr = 2400 /\ ~l.blind
       => Bis(m[Peer(s)])
  BY <1>1, <1>3, <1>5, <1>7, Before DEF Left, Own, Sides
<1>11. Ones(1200) \in Signals
  BY SignalFacts DEF Rate
<1> HIDE DEF l, w
<1>12. Goes(s, l, w, Ones(1200))
  BY <1>1, <1>8, <1>9, <1>10, <1>11, BisGoes
<1> QED
  BY <1>4, <1>12, BlockInv DEF l, w

\* Node 9: the transmitter moves to 2400 at the end of its time.
LEMMA Node2400BInv ==
  ASSUME WordsInv, NEW s \in Sides, NODE_2400B(s)
  PROVE  WordsInv'
<1> DEFINE h == IF Tick(Hand(s)).g > Scaled(600)
                THEN [Tick(Hand(s)) EXCEPT !.node = 10, !.txr = 2400]
                ELSE Tick(Hand(s))
<1>1. PICK x \in Hears(s) : V22FP_modem(s, x, Carrier2400(h, x), Ones(1200))
  BY DEF NODE_2400B
<1>3. m[s].proto = s /\ m[s].node = 9
  BY DEF NODE_2400B, AtEither, At
<1> DEFINE h0 == h
           k == Carrier2400(h0, x)
<1>4. V22FP_modem(s, x, k, Ones(1200))
  BY <1>1
<1>5. /\ h0.proto = s /\ h0.node \in {9, 10} /\ h0.status \in {1} /\ h0.bps = m[s].bps
      /\ h0.rxr = 2400 /\ h0.txr = IF h0.node = 9 THEN 1200 ELSE 2400
      /\ h0.trained = m[s].trained
      /\ h0.blind = m[s].blind /\ h0.g \in 0 .. Deadline + 1
      /\ h0.r08 = m[s].r08 /\ h0.loss = m[s].loss
  BY <1>1, <1>3, Before, BoundFacts DEF Hand, Tick, Station, Own
<1>6. m[s].loss \in 0 .. LossMax + 1
  BY <1>1, Before DEF Station
<1> HIDE DEF h0
<1>7. /\ k.bps = h0.bps /\ k.txr = h0.txr /\ k.rxr = h0.rxr /\ k.g = h0.g
      /\ k.r08 = h0.r08 /\ k.trained = h0.trained /\ k.blind = h0.blind
      /\ k.loss \in 0 .. LossMax + 1
      /\ \/ k.proto = s /\ k.node = h0.node /\ k.status \in {h0.status, 16}
         \/ k.proto = "retrain" /\ k.node = 1 /\ k.status = 11
  BY <1>5, <1>6, CarrierFacts
<1> HIDE DEF k
<1> DEFINE l == Left(k)
           w == Wanted(k.status, want[s])
<1>8. Bis(m[s])
  BY <1>3 DEF Bis
<1>9. Station(s, l) /\ l.bps = m[s].bps /\ Own(s, l, w) /\ Bis(l) /\ w \in {0} \cup Rate
  <2>1. CASE k.proto = s /\ k.node = h0.node /\ k.status \in {h0.status, 16}
    BY <1>1, <1>3, <1>5, <1>7, <2>1, Before
    DEF Left, Wanted, Own, Bis, Station, Sides, Rate
  <2>2. CASE k.proto = "retrain" /\ k.node = 1 /\ k.status = 11
    BY <1>1, <1>3, <1>5, <1>7, <2>2, Before
    DEF Left, Wanted, Own, Bis, Station, Sides, Rate
  <2> QED
    BY <1>7, <2>1, <2>2
<1>10. \/ l.proto = s /\ l.node \in 10 .. 11 /\ l.trained
       \/ l.proto = "data" /\ l.txr = 2400 /\ ~l.blind
       => Bis(m[Peer(s)])
  BY <1>1, <1>3, <1>5, <1>7, Before DEF Left, Own, Sides
<1>11. Ones(1200) \in Signals
  BY SignalFacts DEF Rate
<1> HIDE DEF l, w
<1>12. Goes(s, l, w, Ones(1200))
  BY <1>1, <1>8, <1>9, <1>10, <1>11, BisGoes
<1> QED
  BY <1>4, <1>12, BlockInv DEF l, w

\* Node 10: ones of 2400 for their time, and CONNECT if trained by then.
LEMMA Node2400CInv ==
  ASSUME WordsInv, NEW s \in Sides, NODE_2400C(s)
  PROVE  WordsInv'
<1> DEFINE h(found) == Trained(Hand(s), found, Scaled(790), 3)
<1>1. PICK x \in Hears(s) : \E found \in Detect_1s(x, 2400) :
        V22FP_modem(s, x, Carrier2400(h(found), x), Ones(2400))
  BY DEF NODE_2400C
<1>2. PICK found \in Detect_1s(x, 2400) :
        V22FP_modem(s, x, Carrier2400(h(found), x), Ones(2400))
  BY <1>1
<1>3. m[s].proto = s /\ m[s].node = 10
  BY DEF NODE_2400C, AtEither, At
<1> DEFINE h0 == h(found)
           k == Carrier2400(h0, x)
<1>4. V22FP_modem(s, x, k, Ones(2400))
  BY <1>2
<1>5. /\ h0.proto = s /\ h0.node \in {10, 11} /\ h0.status \in {1, 3} /\ h0.bps = m[s].bps
      /\ h0.txr = 2400 /\ h0.rxr = 2400
      /\ h0.trained \in BOOLEAN /\ (h0.trained \/ h0.status = 3 => Bis(m[Peer(s)]))
      /\ h0.blind = m[s].blind /\ h0.g \in 0 .. Deadline + 1
      /\ h0.r08 = m[s].r08 /\ h0.loss = m[s].loss
  BY <1>1, <1>3, Before, DetectFacts, BoundFacts
  DEF Hand, Trained, Tick, Station, Own
<1>6. m[s].loss \in 0 .. LossMax + 1
  BY <1>1, Before DEF Station
<1> HIDE DEF h0
<1>7. /\ k.bps = h0.bps /\ k.txr = h0.txr /\ k.rxr = h0.rxr /\ k.g = h0.g
      /\ k.r08 = h0.r08 /\ k.trained = h0.trained /\ k.blind = h0.blind
      /\ k.loss \in 0 .. LossMax + 1
      /\ \/ k.proto = s /\ k.node = h0.node /\ k.status \in {h0.status, 16}
         \/ k.proto = "retrain" /\ k.node = 1 /\ k.status = 11
  BY <1>5, <1>6, CarrierFacts
<1> HIDE DEF k
<1> DEFINE l == Left(k)
           w == Wanted(k.status, want[s])
<1>8. Bis(m[s])
  BY <1>3 DEF Bis
<1>9. Station(s, l) /\ l.bps = m[s].bps /\ Own(s, l, w) /\ Bis(l) /\ w \in {0} \cup Rate
  <2>1. CASE k.proto = s /\ k.node = h0.node /\ k.status \in {h0.status, 16}
    BY <1>1, <1>3, <1>5, <1>7, <2>1, Before
    DEF Left, Wanted, Own, Bis, Station, Sides, Rate
  <2>2. CASE k.proto = "retrain" /\ k.node = 1 /\ k.status = 11
    BY <1>1, <1>3, <1>5, <1>7, <2>2, Before
    DEF Left, Wanted, Own, Bis, Station, Sides, Rate
  <2> QED
    BY <1>7, <2>1, <2>2
<1>10. \/ l.proto = s /\ l.node \in 10 .. 11 /\ l.trained
       \/ l.proto = "data" /\ l.txr = 2400 /\ ~l.blind
       => Bis(m[Peer(s)])
  BY <1>1, <1>3, <1>5, <1>7, Before DEF Left, Own, Sides
<1>11. Ones(2400) \in Signals
  BY SignalFacts DEF Rate
<1> HIDE DEF l, w
<1>12. Goes(s, l, w, Ones(2400))
  BY <1>1, <1>8, <1>9, <1>10, <1>11, BisGoes
<1> QED
  BY <1>4, <1>12, BlockInv DEF l, w

\* Node 11: CONNECT as soon as it trains, or a timeout.
LEMMA Node2400DInv ==
  ASSUME WordsInv, NEW s \in Sides, NODE_2400D(s)
  PROVE  WordsInv'
<1> DEFINE h(found) == Training(Hand(s), found, 3, 23)
<1>1. PICK x \in Hears(s) : \E found \in Detect_1s(x, 2400) :
        V22FP_modem(s, x, Carrier2400(h(found), x), Ones(2400))
  BY DEF NODE_2400D
<1>2. PICK found \in Detect_1s(x, 2400) :
        V22FP_modem(s, x, Carrier2400(h(found), x), Ones(2400))
  BY <1>1
<1>3. m[s].proto = s /\ m[s].node = 11
  BY DEF NODE_2400D, AtEither, At
<1> DEFINE h0 == h(found)
           k == Carrier2400(h0, x)
<1>4. V22FP_modem(s, x, k, Ones(2400))
  BY <1>2
<1>5. /\ h0.proto = s /\ h0.node \in {11} /\ h0.status \in {1, 3, 23} /\ h0.bps = m[s].bps
      /\ h0.txr = 2400 /\ h0.rxr = 2400
      /\ h0.trained \in BOOLEAN /\ (h0.trained \/ h0.status = 3 => Bis(m[Peer(s)]))
      /\ h0.blind = m[s].blind /\ h0.g \in 0 .. Deadline + 1
      /\ h0.r08 = m[s].r08 /\ h0.loss = m[s].loss
  BY <1>1, <1>3, Before, DetectFacts, BoundFacts
  DEF Hand, Training, Timed, Tick, Station, Own
<1>6. m[s].loss \in 0 .. LossMax + 1
  BY <1>1, Before DEF Station
<1> HIDE DEF h0
<1>7. /\ k.bps = h0.bps /\ k.txr = h0.txr /\ k.rxr = h0.rxr /\ k.g = h0.g
      /\ k.r08 = h0.r08 /\ k.trained = h0.trained /\ k.blind = h0.blind
      /\ k.loss \in 0 .. LossMax + 1
      /\ \/ k.proto = s /\ k.node = h0.node /\ k.status \in {h0.status, 16}
         \/ k.proto = "retrain" /\ k.node = 1 /\ k.status = 11
  BY <1>5, <1>6, CarrierFacts
<1> HIDE DEF k
<1> DEFINE l == Left(k)
           w == Wanted(k.status, want[s])
<1>8. Bis(m[s])
  BY <1>3 DEF Bis
<1>9. Station(s, l) /\ l.bps = m[s].bps /\ Own(s, l, w) /\ Bis(l) /\ w \in {0} \cup Rate
  <2>1. CASE k.proto = s /\ k.node = h0.node /\ k.status \in {h0.status, 16}
    BY <1>1, <1>3, <1>5, <1>7, <2>1, Before
    DEF Left, Wanted, Own, Bis, Station, Sides, Rate
  <2>2. CASE k.proto = "retrain" /\ k.node = 1 /\ k.status = 11
    BY <1>1, <1>3, <1>5, <1>7, <2>2, Before
    DEF Left, Wanted, Own, Bis, Station, Sides, Rate
  <2> QED
    BY <1>7, <2>1, <2>2
<1>10. \/ l.proto = s /\ l.node \in 10 .. 11 /\ l.trained
       \/ l.proto = "data" /\ l.txr = 2400 /\ ~l.blind
       => Bis(m[Peer(s)])
  BY <1>1, <1>3, <1>5, <1>7, Before DEF Left, Own, Sides
<1>11. Ones(2400) \in Signals
  BY SignalFacts DEF Rate
<1> HIDE DEF l, w
<1>12. Goes(s, l, w, Ones(2400))
  BY <1>1, <1>8, <1>9, <1>10, <1>11, BisGoes
<1> QED
  BY <1>4, <1>12, BlockInv DEF l, w

\* Node 12: the same at 1200 as node 10.
LEMMA Node1200_12Inv ==
  ASSUME WordsInv, NEW s \in Sides, NODE_1200_12(s)
  PROVE  WordsInv'
<1> DEFINE h(found) == Trained(Hand(s), found, Scaled(755), 4)
<1>1. PICK x \in Hears(s) : \E found \in Detect_1s(x, 1200) :
        V22FP_modem(s, x, Carrier1200(h(found), x), Ones(1200))
  BY DEF NODE_1200_12
<1>2. PICK found \in Detect_1s(x, 1200) :
        V22FP_modem(s, x, Carrier1200(h(found), x), Ones(1200))
  BY <1>1
<1>3. m[s].proto = s /\ m[s].node = 12
  BY DEF NODE_1200_12, AtEither, At
<1> DEFINE h0 == h(found)
           k == Carrier1200(h0, x)
<1>4. V22FP_modem(s, x, k, Ones(1200))
  BY <1>2
<1>5. /\ h0.proto = s /\ h0.node \in {12, 13} /\ h0.status \in {1, 4} /\ h0.bps = m[s].bps
      /\ h0.txr = 1200 /\ h0.rxr = 1200
      /\ h0.trained \in BOOLEAN
      /\ h0.blind = m[s].blind /\ h0.g \in 0 .. Deadline + 1
      /\ h0.r08 = m[s].r08 /\ h0.loss = m[s].loss
  BY <1>1, <1>3, Before, DetectFacts, BoundFacts
  DEF Hand, Trained, Tick, Station, Own
<1>6. m[s].loss \in 0 .. LossMax + 1
  BY <1>1, Before DEF Station
<1> HIDE DEF h0
<1>7. /\ k.proto = s /\ k.node = h0.node /\ k.status \in {h0.status, 16}
      /\ k.bps = h0.bps /\ k.txr = h0.txr /\ k.rxr = h0.rxr /\ k.g = h0.g
      /\ k.r08 = h0.r08 /\ k.trained = h0.trained /\ k.blind = h0.blind
      /\ k.loss \in 0 .. LossMax + 1
  BY <1>5, <1>6, Carrier1200Facts DEF Kept
<1> HIDE DEF k
<1> DEFINE l == Left(k)
           w == Wanted(k.status, want[s])
<1>8. Goes(s, Left(k), Wanted(k.status, want[s]), Ones(1200))
  BY <1>1, <1>3, <1>5, <1>7, Before, SignalFacts
  DEF Left, Wanted, Goes, Own, Bis, Station, Sides, Rate
<1> QED
  BY <1>4, <1>8, BlockInv

\* Node 13: the same at 1200 as node 11.
LEMMA Node1200_13Inv ==
  ASSUME WordsInv, NEW s \in Sides, NODE_1200_13(s)
  PROVE  WordsInv'
<1> DEFINE h(found) == Training(Hand(s), found, 4, 24)
<1>1. PICK x \in Hears(s) : \E found \in Detect_1s(x, 1200) :
        V22FP_modem(s, x, Carrier1200(h(found), x), Ones(1200))
  BY DEF NODE_1200_13
<1>2. PICK found \in Detect_1s(x, 1200) :
        V22FP_modem(s, x, Carrier1200(h(found), x), Ones(1200))
  BY <1>1
<1>3. m[s].proto = s /\ m[s].node = 13
  BY DEF NODE_1200_13, AtEither, At
<1> DEFINE h0 == h(found)
           k == Carrier1200(h0, x)
<1>4. V22FP_modem(s, x, k, Ones(1200))
  BY <1>2
<1>5. /\ h0.proto = s /\ h0.node \in {13} /\ h0.status \in {1, 4, 24} /\ h0.bps = m[s].bps
      /\ h0.txr = 1200 /\ h0.rxr = 1200
      /\ h0.trained \in BOOLEAN
      /\ h0.blind = m[s].blind /\ h0.g \in 0 .. Deadline + 1
      /\ h0.r08 = m[s].r08 /\ h0.loss = m[s].loss
  BY <1>1, <1>3, Before, DetectFacts, BoundFacts
  DEF Hand, Training, Timed, Tick, Station, Own
<1>6. m[s].loss \in 0 .. LossMax + 1
  BY <1>1, Before DEF Station
<1> HIDE DEF h0
<1>7. /\ k.proto = s /\ k.node = h0.node /\ k.status \in {h0.status, 16}
      /\ k.bps = h0.bps /\ k.txr = h0.txr /\ k.rxr = h0.rxr /\ k.g = h0.g
      /\ k.r08 = h0.r08 /\ k.trained = h0.trained /\ k.blind = h0.blind
      /\ k.loss \in 0 .. LossMax + 1
  BY <1>5, <1>6, Carrier1200Facts DEF Kept
<1> HIDE DEF k
<1> DEFINE l == Left(k)
           w == Wanted(k.status, want[s])
<1>8. Goes(s, Left(k), Wanted(k.status, want[s]), Ones(1200))
  BY <1>1, <1>3, <1>5, <1>7, Before, SignalFacts
  DEF Left, Wanted, Goes, Own, Bis, Station, Sides, Rate
<1> QED
  BY <1>4, <1>8, BlockInv

-----------------------------------------------------------------------------

\* v22_retrain, node by node.
LEMMA Retrain0Inv ==
  ASSUME WordsInv, NEW s \in Sides, RETRAIN_0(s)
  PROVE  WordsInv'
<1> DEFINE h(s1) == IF Tick(HeardOut(Re(s), s1, 1)).g > Scaled(1300)
                    THEN BackToData(Tick(HeardOut(Re(s), s1, 1)))
                    ELSE Tick(HeardOut(Re(s), s1, 1))
<1>1. PICK x \in Hears(s) : \E s1 \in Detect_S1(x) :
        V22FP_modem(s, x, h(s1), Ones(1200))
  BY DEF RETRAIN_0
<1>2. PICK s1 \in Detect_S1(x) : V22FP_modem(s, x, h(s1), Ones(1200))
  BY <1>1
<1>3. m[s].proto = "retrain" /\ m[s].node = 0
  BY DEF RETRAIN_0, Retraining, At
<1> DEFINE k == h(s1)
<1>4. V22FP_modem(s, x, k, Ones(1200))
  BY <1>2
<1>5. /\ k.bps = m[s].bps /\ k.trained = m[s].trained /\ k.loss = m[s].loss
      /\ k.g \in 0 .. Deadline + 1 /\ k.r08 \in Nat
      /\ k.status = 2 /\ k.txr \in Rate /\ k.rxr \in Rate /\ k.blind \in BOOLEAN
      /\ \/ k.proto = "retrain" /\ k.node \in {0, 1}
         \/ k.proto = "data" /\ k.node = 0 /\ k.txr = 2400 /\ k.rxr = 2400 /\ k.blind = TRUE
  <2> DEFINE t == Tick(HeardOut(Re(s), s1, 1))
  <2>1. s1 \in BOOLEAN /\ Station(s, m[s])
    BY <1>1, Before, DetectFacts
  <2>2. /\ Kept(Re(s), m[s]) /\ Re(s).node = m[s].node /\ Re(s).loss = m[s].loss
        /\ Re(s).status = 2 /\ Re(s).g = m[s].g /\ Re(s).r08 = m[s].r08
    BY DEF Re, Kept
  <2>3. /\ Kept(t, m[s]) /\ t.node \in {m[s].node, 1} /\ t.loss = m[s].loss
        /\ t.status = 2 /\ t.g \in 0 .. Deadline + 1 /\ t.r08 \in Nat
    BY <2>1, <2>2, HeardFacts DEF Station, Kept
  <2>4. k = t \/ k = BackToData(t)
    OBVIOUS
  <2> HIDE DEF t, k
  <2>5. CASE k = t
    BY <1>3, <2>1, <2>3, <2>5 DEF Kept, Station
  <2>6. CASE k = BackToData(t)
    BY <1>3, <2>1, <2>3, <2>6 DEF Kept, Station, Rate, BackToData, Rates
  <2> QED
    BY <2>4, <2>5, <2>6
<1> HIDE DEF k
<1> DEFINE l == Left(k)
           w == Wanted(k.status, want[s])
<1>6. Bis(m[s])
  BY <1>3 DEF Bis
<1>7. Station(s, l) /\ l.bps = m[s].bps /\ Own(s, l, w) /\ Bis(l) /\ w \in {0} \cup Rate
  BY <1>1, <1>3, <1>5, Before DEF Left, Wanted, Own, Bis, Station, Sides, Rate
<1>8. \/ l.proto = s /\ l.node \in 10 .. 11 /\ l.trained
      \/ l.proto = "data" /\ l.txr = 2400 /\ ~l.blind
      => Bis(m[Peer(s)])
  BY <1>1, <1>3, <1>5 DEF Left, Sides
<1>9. Ones(1200) \in Signals
  BY SignalFacts DEF Rate
<1> HIDE DEF l, w
<1>10. Goes(s, l, w, Ones(1200))
  BY <1>1, <1>6, <1>7, <1>8, <1>9, BisGoes
<1> QED
  BY <1>4, <1>10, BlockInv DEF l, w

\* Node 1: both rates go to 1200 and S1 goes out.
LEMMA Retrain1Inv ==
  ASSUME WordsInv, NEW s \in Sides, RETRAIN_1(s)
  PROVE  WordsInv'
<1> DEFINE h == Tick(Rates(Fresh(Re(s), 2), 1200, 1200))
<1>1. PICK x \in Hears(s) : V22FP_modem(s, x, h, S1)
  BY DEF RETRAIN_1
<1>3. m[s].proto = "retrain" /\ m[s].node = 1
  BY DEF RETRAIN_1, Retraining, At
<1> DEFINE k == h
<1>4. V22FP_modem(s, x, k, S1)
  BY <1>1
<1>5. /\ k.bps = m[s].bps /\ k.trained = m[s].trained /\ k.loss = m[s].loss
      /\ k.g \in 0 .. Deadline + 1 /\ k.r08 \in Nat
      /\ k.proto = "retrain" /\ k.node = 2 /\ k.status = 2
      /\ k.txr = 1200 /\ k.rxr = 1200 /\ k.blind = m[s].blind
  BY <1>1, <1>3, Before, DetectFacts, BoundFacts
  DEF Re, Rates, Fresh, Tick, Station, Own
<1> HIDE DEF k
<1> DEFINE l == Left(k)
           w == Wanted(k.status, want[s])
<1>6. Bis(m[s])
  BY <1>3 DEF Bis
<1>7. Station(s, l) /\ l.bps = m[s].bps /\ Own(s, l, w) /\ Bis(l) /\ w \in {0} \cup Rate
  BY <1>1, <1>3, <1>5, Before DEF Left, Wanted, Own, Bis, Station, Sides, Rate
<1>8. \/ l.proto = s /\ l.node \in 10 .. 11 /\ l.trained
      \/ l.proto = "data" /\ l.txr = 2400 /\ ~l.blind
      => Bis(m[Peer(s)])
  BY <1>1, <1>3, <1>5 DEF Left, Sides
<1>9. S1 \in Signals
  BY SignalFacts DEF Rate
<1> HIDE DEF l, w
<1>10. Goes(s, l, w, S1)
  BY <1>1, <1>6, <1>7, <1>8, <1>9, BisGoes
<1> QED
  BY <1>4, <1>10, BlockInv DEF l, w

\* Node 2: S1 lasts its time.
LEMMA Retrain2Inv ==
  ASSUME WordsInv, NEW s \in Sides, RETRAIN_2(s)
  PROVE  WordsInv'
<1> DEFINE h(s1) == IF Tick(IF s1 THEN [Re(s) EXCEPT !.r08 = @ + 1] ELSE Re(s)).g > Scaled(99)
                    THEN [Tick(IF s1 THEN [Re(s) EXCEPT !.r08 = @ + 1] ELSE Re(s)) EXCEPT
                            !.node = IF Tick(IF s1 THEN [Re(s) EXCEPT !.r08 = @ + 1]
                                             ELSE Re(s)).r38 = 1 THEN 3 ELSE 4]
                    ELSE Tick(IF s1 THEN [Re(s) EXCEPT !.r08 = @ + 1] ELSE Re(s))
<1>1. PICK x \in Hears(s) : \E s1 \in Detect_S1(x) :
        V22FP_modem(s, x, h(s1), S1)
  BY DEF RETRAIN_2
<1>2. PICK s1 \in Detect_S1(x) : V22FP_modem(s, x, h(s1), S1)
  BY <1>1
<1>3. m[s].proto = "retrain" /\ m[s].node = 2
  BY DEF RETRAIN_2, Retraining, At
<1> DEFINE k == h(s1)
<1>4. V22FP_modem(s, x, k, S1)
  BY <1>2
<1>5. /\ k.bps = m[s].bps /\ k.trained = m[s].trained /\ k.loss = m[s].loss
      /\ k.g \in 0 .. Deadline + 1 /\ k.r08 \in Nat
      /\ k.proto = "retrain" /\ k.node \in {2, 3, 4} /\ k.status = 2
      /\ k.txr = m[s].txr /\ k.rxr = m[s].rxr /\ k.blind = m[s].blind
  BY <1>1, <1>3, Before, DetectFacts, BoundFacts
  DEF Re, Tick, Station, Own
<1> HIDE DEF k
<1> DEFINE l == Left(k)
           w == Wanted(k.status, want[s])
<1>6. Bis(m[s])
  BY <1>3 DEF Bis
<1>7. Station(s, l) /\ l.bps = m[s].bps /\ Own(s, l, w) /\ Bis(l) /\ w \in {0} \cup Rate
  BY <1>1, <1>3, <1>5, Before DEF Left, Wanted, Own, Bis, Station, Sides, Rate
<1>8. \/ l.proto = s /\ l.node \in 10 .. 11 /\ l.trained
      \/ l.proto = "data" /\ l.txr = 2400 /\ ~l.blind
      => Bis(m[Peer(s)])
  BY <1>1, <1>3, <1>5 DEF Left, Sides
<1>9. S1 \in Signals
  BY SignalFacts DEF Rate
<1> HIDE DEF l, w
<1>10. Goes(s, l, w, S1)
  BY <1>1, <1>6, <1>7, <1>8, <1>9, BisGoes
<1> QED
  BY <1>4, <1>10, BlockInv DEF l, w

\* Node 3: the answer is heard out, or CONNECT is reported without one.
LEMMA Retrain3Inv ==
  ASSUME WordsInv, NEW s \in Sides, RETRAIN_3(s)
  PROVE  WordsInv'
<1> DEFINE h(s1) == IF Tick(HeardOut(Re(s), s1, 4)).g > Scaled(1300)
                    THEN ConnectAnyway(Tick(HeardOut(Re(s), s1, 4)))
                    ELSE Tick(HeardOut(Re(s), s1, 4))
<1>1. PICK x \in Hears(s) : \E s1 \in Detect_S1(x) :
        V22FP_modem(s, x, h(s1), Ones(1200))
  BY DEF RETRAIN_3
<1>2. PICK s1 \in Detect_S1(x) : V22FP_modem(s, x, h(s1), Ones(1200))
  BY <1>1
<1>3. m[s].proto = "retrain" /\ m[s].node = 3
  BY DEF RETRAIN_3, Retraining, At
<1> DEFINE k == h(s1)
<1>4. V22FP_modem(s, x, k, Ones(1200))
  BY <1>2
<1>5. /\ k.bps = m[s].bps /\ k.trained = m[s].trained /\ k.loss = m[s].loss
      /\ k.g \in 0 .. Deadline + 1 /\ k.r08 \in Nat
      /\ k.proto = "retrain" /\ k.node \in {3, 4}
      /\ k.txr \in Rate /\ k.rxr \in Rate /\ k.blind \in BOOLEAN
      /\ \/ k.status = 2
         \/ k.status = 3 /\ k.txr = 2400 /\ k.rxr = 2400 /\ k.blind = TRUE
  <2> DEFINE t == Tick(HeardOut(Re(s), s1, 4))
  <2>1. s1 \in BOOLEAN /\ Station(s, m[s])
    BY <1>1, Before, DetectFacts
  <2>2. /\ Kept(Re(s), m[s]) /\ Re(s).node = m[s].node /\ Re(s).loss = m[s].loss
        /\ Re(s).status = 2 /\ Re(s).g = m[s].g /\ Re(s).r08 = m[s].r08
    BY DEF Re, Kept
  <2>3. /\ Kept(t, m[s]) /\ t.node \in {m[s].node, 4} /\ t.loss = m[s].loss
        /\ t.status = 2 /\ t.g \in 0 .. Deadline + 1 /\ t.r08 \in Nat
    BY <2>1, <2>2, HeardFacts DEF Station, Kept
  <2>4. k = t \/ k = ConnectAnyway(t)
    OBVIOUS
  <2> HIDE DEF t, k
  <2>5. CASE k = t
    BY <1>3, <2>1, <2>3, <2>5 DEF Kept, Station
  <2>6. CASE k = ConnectAnyway(t)
    BY <1>3, <2>1, <2>3, <2>6 DEF Kept, Station, Rate, ConnectAnyway, Rates
  <2> QED
    BY <2>4, <2>5, <2>6
<1> HIDE DEF k
<1> DEFINE l == Left(k)
           w == Wanted(k.status, want[s])
<1>6. Bis(m[s])
  BY <1>3 DEF Bis
<1>7. Station(s, l) /\ l.bps = m[s].bps /\ Own(s, l, w) /\ Bis(l) /\ w \in {0} \cup Rate
  BY <1>1, <1>3, <1>5, Before DEF Left, Wanted, Own, Bis, Station, Sides, Rate
<1>8. \/ l.proto = s /\ l.node \in 10 .. 11 /\ l.trained
      \/ l.proto = "data" /\ l.txr = 2400 /\ ~l.blind
      => Bis(m[Peer(s)])
  BY <1>1, <1>3, <1>5 DEF Left, Sides
<1>9. Ones(1200) \in Signals
  BY SignalFacts DEF Rate
<1> HIDE DEF l, w
<1>10. Goes(s, l, w, Ones(1200))
  BY <1>1, <1>6, <1>7, <1>8, <1>9, BisGoes
<1> QED
  BY <1>4, <1>10, BlockInv DEF l, w

\* Node 4: the receiver moves to 2400.
LEMMA Retrain4Inv ==
  ASSUME WordsInv, NEW s \in Sides, RETRAIN_4(s)
  PROVE  WordsInv'
<1> DEFINE h == IF Tick(Re(s)).g > Scaled(449)
                THEN [Rates(Tick(Re(s)), m[s].txr, 2400) EXCEPT !.node = 4 + 1]
                ELSE Tick(Re(s))
<1>1. PICK x \in Hears(s) : V22FP_modem(s, x, h, Ones(1200))
  BY DEF RETRAIN_4, RetrainStep
<1>3. m[s].proto = "retrain" /\ m[s].node = 4
  BY DEF RETRAIN_4, RetrainStep, Retraining, At
<1> DEFINE k == h
<1>4. V22FP_modem(s, x, k, Ones(1200))
  BY <1>1
<1>5. /\ k.bps = m[s].bps /\ k.trained = m[s].trained /\ k.loss = m[s].loss
      /\ k.g \in 0 .. Deadline + 1 /\ k.r08 \in Nat
      /\ k.proto = "retrain" /\ k.node \in {4, 5} /\ k.status = 2
      /\ k.txr \in Rate /\ k.rxr \in Rate /\ k.blind = m[s].blind
      /\ k.node >= 5 => k.rxr = 2400
      /\ k.node >= 6 => k.txr = 2400
  BY <1>1, <1>3, Before, DetectFacts, BoundFacts
  DEF Re, Rates, Rate, Tick, Station, Own
<1> HIDE DEF k
<1> DEFINE l == Left(k)
           w == Wanted(k.status, want[s])
<1>6. Bis(m[s])
  BY <1>3 DEF Bis
<1>7. Station(s, l) /\ l.bps = m[s].bps /\ Own(s, l, w) /\ Bis(l) /\ w \in {0} \cup Rate
  BY <1>1, <1>3, <1>5, Before DEF Left, Wanted, Own, Bis, Station, Sides, Rate
<1>8. \/ l.proto = s /\ l.node \in 10 .. 11 /\ l.trained
      \/ l.proto = "data" /\ l.txr = 2400 /\ ~l.blind
      => Bis(m[Peer(s)])
  BY <1>1, <1>3, <1>5 DEF Left, Sides
<1>9. Ones(1200) \in Signals
  BY SignalFacts DEF Rate
<1> HIDE DEF l, w
<1>10. Goes(s, l, w, Ones(1200))
  BY <1>1, <1>6, <1>7, <1>8, <1>9, BisGoes
<1> QED
  BY <1>4, <1>10, BlockInv DEF l, w

\* Node 5: the transmitter moves to 2400.
LEMMA Retrain5Inv ==
  ASSUME WordsInv, NEW s \in Sides, RETRAIN_5(s)
  PROVE  WordsInv'
<1> DEFINE h == IF Tick(Re(s)).g > Scaled(599)
                THEN [Rates(Tick(Re(s)), 2400, m[s].rxr) EXCEPT !.node = 5 + 1]
                ELSE Tick(Re(s))
<1>1. PICK x \in Hears(s) : V22FP_modem(s, x, h, Ones(1200))
  BY DEF RETRAIN_5, RetrainStep
<1>3. m[s].proto = "retrain" /\ m[s].node = 5
  BY DEF RETRAIN_5, RetrainStep, Retraining, At
<1> DEFINE k == h
<1>4. V22FP_modem(s, x, k, Ones(1200))
  BY <1>1
<1>5. /\ k.bps = m[s].bps /\ k.trained = m[s].trained /\ k.loss = m[s].loss
      /\ k.g \in 0 .. Deadline + 1 /\ k.r08 \in Nat
      /\ k.proto = "retrain" /\ k.node \in {5, 6} /\ k.status = 2
      /\ k.txr \in Rate /\ k.rxr \in Rate /\ k.blind = m[s].blind
      /\ k.node >= 5 => k.rxr = 2400
      /\ k.node >= 6 => k.txr = 2400
  BY <1>1, <1>3, Before, DetectFacts, BoundFacts
  DEF Re, Rates, Rate, Tick, Station, Own
<1> HIDE DEF k
<1> DEFINE l == Left(k)
           w == Wanted(k.status, want[s])
<1>6. Bis(m[s])
  BY <1>3 DEF Bis
<1>7. Station(s, l) /\ l.bps = m[s].bps /\ Own(s, l, w) /\ Bis(l) /\ w \in {0} \cup Rate
  BY <1>1, <1>3, <1>5, Before DEF Left, Wanted, Own, Bis, Station, Sides, Rate
<1>8. \/ l.proto = s /\ l.node \in 10 .. 11 /\ l.trained
      \/ l.proto = "data" /\ l.txr = 2400 /\ ~l.blind
      => Bis(m[Peer(s)])
  BY <1>1, <1>3, <1>5 DEF Left, Sides
<1>9. Ones(1200) \in Signals
  BY SignalFacts DEF Rate
<1> HIDE DEF l, w
<1>10. Goes(s, l, w, Ones(1200))
  BY <1>1, <1>6, <1>7, <1>8, <1>9, BisGoes
<1> QED
  BY <1>4, <1>10, BlockInv DEF l, w

\* Node 6: ones of 2400 for their time.
LEMMA Retrain6Inv ==
  ASSUME WordsInv, NEW s \in Sides, RETRAIN_6(s)
  PROVE  WordsInv'
<1> DEFINE h == IF Tick(Re(s)).g > Scaled(799)
                THEN [Rates(Tick(Re(s)), m[s].txr, m[s].rxr) EXCEPT !.node = 6 + 1]
                ELSE Tick(Re(s))
<1>1. PICK x \in Hears(s) : V22FP_modem(s, x, h, Ones(2400))
  BY DEF RETRAIN_6, RetrainStep
<1>3. m[s].proto = "retrain" /\ m[s].node = 6
  BY DEF RETRAIN_6, RetrainStep, Retraining, At
<1> DEFINE k == h
<1>4. V22FP_modem(s, x, k, Ones(2400))
  BY <1>1
<1>5. /\ k.bps = m[s].bps /\ k.trained = m[s].trained /\ k.loss = m[s].loss
      /\ k.g \in 0 .. Deadline + 1 /\ k.r08 \in Nat
      /\ k.proto = "retrain" /\ k.node \in {6, 7} /\ k.status = 2
      /\ k.txr \in Rate /\ k.rxr \in Rate /\ k.blind = m[s].blind
      /\ k.node >= 5 => k.rxr = 2400
      /\ k.node >= 6 => k.txr = 2400
  BY <1>1, <1>3, Before, DetectFacts, BoundFacts
  DEF Re, Rates, Rate, Tick, Station, Own
<1> HIDE DEF k
<1> DEFINE l == Left(k)
           w == Wanted(k.status, want[s])
<1>6. Bis(m[s])
  BY <1>3 DEF Bis
<1>7. Station(s, l) /\ l.bps = m[s].bps /\ Own(s, l, w) /\ Bis(l) /\ w \in {0} \cup Rate
  BY <1>1, <1>3, <1>5, Before DEF Left, Wanted, Own, Bis, Station, Sides, Rate
<1>8. \/ l.proto = s /\ l.node \in 10 .. 11 /\ l.trained
      \/ l.proto = "data" /\ l.txr = 2400 /\ ~l.blind
      => Bis(m[Peer(s)])
  BY <1>1, <1>3, <1>5 DEF Left, Sides
<1>9. Ones(2400) \in Signals
  BY SignalFacts DEF Rate
<1> HIDE DEF l, w
<1>10. Goes(s, l, w, Ones(2400))
  BY <1>1, <1>6, <1>7, <1>8, <1>9, BisGoes
<1> QED
  BY <1>4, <1>10, BlockInv DEF l, w

\* Node 7: CONNECT when it has trained, or when its time is up.
LEMMA Retrain7Inv ==
  ASSUME WordsInv, NEW s \in Sides, RETRAIN_7(s)
  PROVE  WordsInv'
<1> DEFINE h(found) == Retrained(Tick(Re(s)), found)
<1>1. PICK x \in Hears(s) : \E found \in Detect_1s(x, 2400) :
        V22FP_modem(s, x, h(found), Ones(2400))
  BY DEF RETRAIN_7
<1>2. PICK found \in Detect_1s(x, 2400) : V22FP_modem(s, x, h(found), Ones(2400))
  BY <1>1
<1>3. m[s].proto = "retrain" /\ m[s].node = 7
  BY DEF RETRAIN_7, Retraining, At
<1> DEFINE k == h(found)
<1>4. V22FP_modem(s, x, k, Ones(2400))
  BY <1>2
<1>5. /\ k.bps = m[s].bps /\ k.trained = m[s].trained /\ k.loss = m[s].loss
      /\ k.g \in 0 .. Deadline + 1 /\ k.r08 \in Nat
      /\ k.proto = "retrain" /\ k.node = 7 /\ k.txr = 2400 /\ k.rxr = 2400
      /\ k.blind \in BOOLEAN /\ k.status \in {2, 3}
      /\ k.status = 3 /\ ~k.blind => Bis(m[Peer(s)])
  <2> DEFINE t == Tick(Re(s))
  <2>1. /\ found \in BOOLEAN /\ Station(s, m[s]) /\ m[s].txr = 2400 /\ m[s].rxr = 2400
        /\ found => Bis(m[Peer(s)])
    BY <1>1, <1>3, Before, DetectFacts DEF Own, Sides
  <2>2. /\ Kept(Re(s), m[s]) /\ Re(s).node = m[s].node /\ Re(s).loss = m[s].loss
        /\ Re(s).status = 2 /\ Re(s).g = m[s].g /\ Re(s).r08 = m[s].r08
    BY DEF Re, Kept
  <2>3. /\ Kept(t, m[s]) /\ t.node = m[s].node /\ t.loss = m[s].loss
        /\ t.status = 2 /\ t.g \in 0 .. Deadline + 1 /\ t.r08 = m[s].r08
    BY <2>1, <2>2, StepFacts DEF Station, Kept
  <2>8. k = Retrained(t, found)
    OBVIOUS
  <2> HIDE DEF t, k
  <2>4. \/ k = t
        \/ found /\ k = [t EXCEPT !.status = 3, !.blind = FALSE]
        \/ k = [t EXCEPT !.status = 3, !.blind = TRUE]
    BY <2>1, <2>8 DEF Retrained
  <2>5. CASE k = t
    BY <1>3, <2>1, <2>3, <2>5 DEF Kept, Station
  <2>6. CASE found /\ k = [t EXCEPT !.status = 3, !.blind = FALSE]
    BY <1>3, <2>1, <2>3, <2>6 DEF Kept, Station
  <2>7. CASE k = [t EXCEPT !.status = 3, !.blind = TRUE]
    BY <1>3, <2>1, <2>3, <2>7 DEF Kept, Station
  <2> QED
    BY <2>4, <2>5, <2>6, <2>7
<1> HIDE DEF k
<1> DEFINE l == Left(k)
           w == Wanted(k.status, want[s])
<1>6. Bis(m[s])
  BY <1>3 DEF Bis
<1>7. Station(s, l) /\ l.bps = m[s].bps /\ Own(s, l, w) /\ Bis(l) /\ w \in {0} \cup Rate
  BY <1>1, <1>3, <1>5, Before DEF Left, Wanted, Own, Bis, Station, Sides, Rate
<1>8. \/ l.proto = s /\ l.node \in 10 .. 11 /\ l.trained
      \/ l.proto = "data" /\ l.txr = 2400 /\ ~l.blind
      => Bis(m[Peer(s)])
  BY <1>1, <1>3, <1>5 DEF Left, Sides
<1>9. Ones(2400) \in Signals
  BY SignalFacts DEF Rate
<1> HIDE DEF l, w
<1>10. Goes(s, l, w, Ones(2400))
  BY <1>1, <1>6, <1>7, <1>8, <1>9, BisGoes
<1> QED
  BY <1>4, <1>10, BlockInv DEF l, w

-----------------------------------------------------------------------------

\* What may be detected is detected or not.
LEMMA PossibleFacts ==
  ASSUME NEW b, NEW v \in Possible(b)
  PROVE  v \in BOOLEAN
BY DEF Possible

\* The quality of a block and its carrier: data mode as it was, or a retrain,
\* and that only at 2400.
LEMMA DataFacts ==
  ASSUME NEW h, NEW x, NEW bad \in BOOLEAN, h.proto = "data", h.node = 0, h.status = 0,
         h.r08 \in Nat, h.loss \in 0 .. LossMax + 1
  PROVE  LET k == CarrierData(IF h.rxr = 2400 THEN Quality(h, bad) ELSE h, x)
         IN /\ k.bps = h.bps /\ k.txr = h.txr /\ k.rxr = h.rxr /\ k.g = h.g
            /\ k.trained = h.trained /\ k.blind = h.blind
            /\ k.r08 \in Nat /\ k.loss \in 0 .. LossMax + 1
            /\ \/ k.proto = "data" /\ k.node = 0 /\ k.status \in {0, 16}
               \/ /\ k.proto = "retrain" /\ k.node = 1 /\ k.status \in {11, 16}
                  /\ h.rxr = 2400
<1> DEFINE q == IF h.rxr = 2400 THEN Quality(h, bad) ELSE h
<1>1. /\ Kept([q EXCEPT !.proto = "data"], h) /\ q.g = h.g /\ q.r08 \in Nat /\ q.loss = h.loss
      /\ \/ q.proto = "data" /\ q.node = 0 /\ q.status = 0
         \/ q.proto = "retrain" /\ q.node = 1 /\ q.status = 11 /\ h.rxr = 2400
  <2> DEFINE r == [h EXCEPT !.r08 = IF bad THEN @ + 1 ELSE 0]
  <2>1. r.r08 \in Nat /\ Kept(r, h) /\ r.g = h.g /\ r.loss = h.loss /\ r.node = 0 /\ r.status = 0
    BY DEF Kept
  <2>2. q = h \/ (h.rxr = 2400 /\ q \in {r, StartRetrain(r)})
    BY DEF Quality
  <2> HIDE DEF q, r
  <2>3. CASE q = h
    BY <2>3 DEF Kept
  <2>4. CASE q = r
    BY <2>1, <2>4 DEF Kept
  <2>5. CASE q = StartRetrain(r) /\ h.rxr = 2400
    BY <2>1, <2>5 DEF Kept, StartRetrain
  <2> QED
    BY <2>2, <2>3, <2>4, <2>5
<1> DEFINE k == CarrierData(q, x)
<1> HIDE DEF q
<1>2. CASE CarrierDetect(x) /\ q.loss > LossBack /\ q.rxr = 2400
  <2>1. k = [StartRetrain(q) EXCEPT !.loss = 0]
    BY <1>2 DEF CarrierData
  <2> HIDE DEF k
  <2>2. /\ k.bps = h.bps /\ k.txr = h.txr /\ k.rxr = h.rxr /\ k.g = h.g
        /\ k.trained = h.trained /\ k.blind = h.blind /\ k.r08 \in Nat /\ k.loss = 0
        /\ k.proto = "retrain" /\ k.node = 1 /\ k.status = 11 /\ h.rxr = 2400
    BY <1>1, <1>2, <2>1 DEF Kept, StartRetrain
  <2> QED
    BY <2>2, BoundFacts DEF k, q
<1>3. CASE CarrierDetect(x) /\ ~(q.loss > LossBack /\ q.rxr = 2400)
  <2>1. k = [q EXCEPT !.loss = 0]
    BY <1>3 DEF CarrierData
  <2> HIDE DEF k
  <2>2. /\ k.bps = h.bps /\ k.txr = h.txr /\ k.rxr = h.rxr /\ k.g = h.g
        /\ k.trained = h.trained /\ k.blind = h.blind /\ k.r08 \in Nat /\ k.loss = 0
        /\ k.proto = q.proto /\ k.node = q.node /\ k.status = q.status
    BY <1>1, <2>1 DEF Kept
  <2> QED
    BY <1>1, <2>2, BoundFacts DEF k, q
<1>4. CASE ~CarrierDetect(x)
  <2>1. k = NoCarrier(q)
    BY <1>4 DEF CarrierData
  <2> HIDE DEF k
  <2>2. /\ k.bps = h.bps /\ k.txr = h.txr /\ k.rxr = h.rxr /\ k.g = h.g
        /\ k.trained = h.trained /\ k.blind = h.blind /\ k.r08 \in Nat
        /\ k.loss \in 0 .. LossMax + 1
        /\ k.proto = q.proto /\ k.node = q.node /\ k.status \in {q.status, 16}
    BY <1>1, <2>1, BoundFacts DEF Kept, NoCarrier, SatInc
  <2> QED
    BY <1>1, <2>2 DEF k, q
<1> QED
  BY <1>2, <1>3, <1>4

\* v22_data.
LEMMA DataInv ==
  ASSUME WordsInv, NEW s \in Sides, v22_data(s)
  PROVE  WordsInv'
<1> DEFINE h == [m[s] EXCEPT !.status = 0]
           c(x, bad) == CarrierData(IF h.rxr = 2400 THEN Quality(h, bad) ELSE h, x)
<1>1. PICK x \in Hears(s) : \E bad \in Possible(poor < MaxPoor /\ m[s].rxr = 2400) :
        V22FP_modem(s, x, c(x, bad), User(m[s].txr))
  BY DEF v22_data
<1>2. PICK bad \in Possible(poor < MaxPoor /\ m[s].rxr = 2400) :
        V22FP_modem(s, x, c(x, bad), User(m[s].txr))
  BY <1>1
<1>3. m[s].proto = "data" /\ m[s].node = 0 /\ bad \in BOOLEAN
  <2>1. bad \in BOOLEAN
    BY PossibleFacts
  <2> QED
    BY <2>1 DEF v22_data, At
<1>4. /\ Station(s, m[s]) /\ want[s] = m[s].txr /\ m[s].txr = m[s].rxr
      /\ m[s].txr \in Rate /\ m[s].rxr \in Rate
  BY <1>1, <1>3, Before DEF Own, Station
<1> DEFINE k == c(x, bad)
<1>5. V22FP_modem(s, x, k, User(m[s].txr))
  BY <1>2
<1>6. /\ k.bps = m[s].bps /\ k.txr = m[s].txr /\ k.rxr = m[s].rxr /\ k.g = m[s].g
      /\ k.trained = m[s].trained /\ k.blind = m[s].blind
      /\ k.r08 \in Nat /\ k.loss \in 0 .. LossMax + 1
      /\ \/ k.proto = "data" /\ k.node = 0 /\ k.status \in {0, 16}
         \/ k.proto = "retrain" /\ k.node = 1 /\ k.status \in {11, 16} /\ m[s].rxr = 2400
  <2>1. /\ h.proto = "data" /\ h.node = 0 /\ h.status = 0 /\ h.r08 \in Nat
        /\ h.loss \in 0 .. LossMax + 1 /\ h.rxr = m[s].rxr /\ h.bps = m[s].bps
        /\ h.txr = m[s].txr /\ h.g = m[s].g /\ h.trained = m[s].trained
        /\ h.blind = m[s].blind
    BY <1>3, <1>4 DEF Station
  <2> HIDE DEF h
  <2> QED
    BY <1>3, <2>1, DataFacts
<1> HIDE DEF k
<1>7. Left(k) = k /\ Wanted(k.status, want[s]) = want[s]
  BY <1>6 DEF Left, Wanted
<1>8. Station(s, k) /\ Own(s, k, want[s]) /\ User(m[s].txr) \in Signals
  BY <1>3, <1>4, <1>6, SignalFacts DEF Station, Own, Sides, Rate
<1>9. \/ k.proto = s /\ k.node \in 10 .. 11 /\ k.trained
      \/ k.proto = "data" /\ k.txr = 2400 /\ ~k.blind
      => Bis(m[Peer(s)])
  BY <1>1, <1>3, <1>6, Before DEF Sides
<1>10. Goes(s, k, want[s], User(m[s].txr))
  <2>1. CASE m[s].txr = 2400
    <3>1. Bis(m[s]) /\ Bis(k)
      BY <1>3, <1>4, <1>6, <2>1 DEF Bis
    <3> QED
      BY <1>1, <1>4, <1>6, <1>8, <1>9, <3>1, Before, BisGoes
  <2>2. CASE m[s].txr = 1200
    <3>1. k.proto = "data" /\ ~Bis(m[s]) /\ ~Bis(k)
      BY <1>3, <1>4, <1>6, <2>2 DEF Bis, Sides
    <3> QED
      BY <1>1, <1>4, <1>6, <1>8, <1>9, <2>2, <3>1, Before, SignalFacts DEF Goes, Sides
  <2> QED
    BY <1>4, <2>1, <2>2 DEF Rate
<1> QED
  BY <1>5, <1>7, <1>10, BlockInv

\* v22_data, when it hears the S1 of a retrain.
LEMMA RequestInv ==
  ASSUME WordsInv, NEW s \in Sides, RetrainRequest(s)
  PROVE  WordsInv'
<1> DEFINE k == [Rates(Fresh(m[s], 0), 1200, 1200) EXCEPT
                   !.proto = "retrain", !.r38 = 0, !.status = 9]
<1>1. /\ V22FP_modem(s, S1, k, User(m[s].txr)) /\ S1 \in Hears(s)
      /\ m[s].proto = "data" /\ m[s].node = 0 /\ m[s].rxr = 2400
  BY DEF RetrainRequest, At, Hears
<1>2. Station(s, m[s]) /\ want[s] = 2400 /\ m[s].txr = 2400
  BY <1>1, Before DEF Own
<1>3. /\ k.proto = "retrain" /\ k.node = 0 /\ k.status = 9 /\ k.bps = m[s].bps
      /\ k.txr = 1200 /\ k.rxr = 1200 /\ k.g = 0 /\ k.r08 = 0 /\ k.loss = m[s].loss
      /\ k.trained = m[s].trained /\ k.blind = m[s].blind
  BY DEF Rates, Fresh
<1> HIDE DEF k
<1>4. Left(k) = k /\ Wanted(k.status, want[s]) = 2400
  BY <1>2, <1>3 DEF Left, Wanted
<1>5. Station(s, k) /\ Own(s, k, 2400) /\ Bis(k) /\ Bis(m[s]) /\ User(m[s].txr) \in Signals
  BY <1>1, <1>2, <1>3, SignalFacts, BoundFacts DEF Station, Own, Bis, Sides, Rate
<1>6. k.proto # s /\ k.proto # "data"
  BY <1>3 DEF Sides
<1>7. Goes(s, k, 2400, User(m[s].txr))
  BY <1>1, <1>3, <1>5, <1>6, BisGoes DEF Rate
<1> QED
  BY <1>1, <1>4, <1>7, BlockInv

\* v22_delete leaves silence.
LEMMA DeleteInv ==
  ASSUME WordsInv, NEW s \in Sides, v22_delete(s)
  PROVE  WordsInv'
<1>1. /\ line' = [line EXCEPT ![s] = Silence] /\ turn' = Peer(s)
      /\ m' = m /\ dp' = dp /\ want' = want
  BY DEF v22_delete
<1>2. line \in [Sides -> Signals]
  BY DEF WordsInv, TypeOK
<1>3. TypeOK' /\ WordsFit' /\ NoUpgrade' /\ RatesOwn'
  BY <1>1, <1>2, PeerFacts, SignalFacts
  DEF WordsInv, TypeOK, Station, WordsFit, NoUpgrade, RatesOwn, Own
<1>4. \A t \in Sides : line'[t] = Silence \/ line'[t] = line[t]
  BY <1>1, <1>2
<1>5. RoadAgreed'
  BY <1>1, <1>4, SignalFacts DEF WordsInv, RoadAgreed, Bis, S1, Sig
<1>6. RoadHeard'
  BY <1>1, <1>4, SignalFacts DEF WordsInv, RoadHeard, Bis, Peer
<1> QED
  BY <1>3, <1>5, <1>6 DEF WordsInv

-----------------------------------------------------------------------------

\* Two stations are created, and nothing is on the line.
LEMMA InitInv == Init => WordsInv
<1> SUFFICES ASSUME Init PROVE WordsInv
  OBVIOUS
<1>1. PICK bps \in [Sides -> Bps] : m = [s \in Sides |-> Created(s, bps[s])]
  BY DEF Init
<1>2. \A s \in Sides :
        /\ m[s].proto = s /\ m[s].node = 0 /\ m[s].g = 0 /\ m[s].r08 = 0 /\ m[s].loss = 0
        /\ m[s].bps \in Rate /\ m[s].txr = m[s].bps /\ m[s].rxr = m[s].bps
        /\ m[s].trained = FALSE /\ m[s].blind = FALSE
  <2> SUFFICES ASSUME NEW s \in Sides
               PROVE  /\ m[s].proto = s /\ m[s].node = 0 /\ m[s].g = 0 /\ m[s].r08 = 0
                      /\ m[s].loss = 0 /\ m[s].bps \in Rate /\ m[s].txr = m[s].bps
                      /\ m[s].rxr = m[s].bps /\ m[s].trained = FALSE
                      /\ m[s].blind = FALSE
    OBVIOUS
  <2>1. m[s] = Created(s, bps[s])
    BY <1>1
  <2>2. Bps \subseteq Rate
    BY V22Assumption DEF Rate
  <2>3. bps[s] \in Rate
    BY <2>2
  <2> QED
    BY <2>1, <2>3 DEF Created
<1>3. DOMAIN m = Sides
  BY <1>1
<1>4. /\ line = [s \in Sides |-> Silence] /\ dp = [s \in Sides |-> "OK"]
      /\ want = [s \in Sides |-> 0] /\ turn = "org"
  BY DEF Init
<1>5. ASSUME NEW s \in Sides
      PROVE  Station(s, m[s])
  <2>1. m[s].g \in 0 .. Deadline + 1 /\ m[s].loss \in 0 .. LossMax + 1
    BY <1>2, BoundFacts
  <2>2. m[s].node \in 0 .. 13 /\ m[s].r08 \in Nat /\ m[s].proto \in {s, "data", "retrain"}
    BY <1>2
  <2>3. m[s].bps \in Rate /\ m[s].txr \in Rate /\ m[s].rxr \in Rate
    BY <1>2
  <2>4. m[s].trained \in BOOLEAN /\ m[s].blind \in BOOLEAN
    BY <1>2
  <2> QED
    BY <2>1, <2>2, <2>3, <2>4 DEF Station
<1>6. TypeOK
  BY <1>3, <1>4, <1>5, SignalFacts DEF TypeOK, Sides
<1>7. \A s \in Sides : ~Bis(m[s]) /\ Own(s, m[s], want[s]) /\ line[s] = Silence
  BY <1>2, <1>4 DEF Bis, Own, Sides
<1>8. WordsFit /\ NoUpgrade /\ RatesOwn
  BY <1>2, <1>7 DEF WordsFit, NoUpgrade, RatesOwn, Sides
<1>9. RoadAgreed /\ RoadHeard
  BY <1>2, <1>7, SignalFacts DEF RoadAgreed, RoadHeard, Sides
<1> QED
  BY <1>6, <1>8, <1>9 DEF WordsInv

\* Every block of either station keeps the invariant.
LEMMA NextInv ==
  ASSUME WordsInv, [Next]_vars
  PROVE  WordsInv'
<1>1. CASE UNCHANGED vars
  BY <1>1 DEF vars, WordsInv, TypeOK, Station, WordsFit, NoUpgrade, RatesOwn, Own,
     RoadAgreed, RoadHeard, Bis
<1>2. ASSUME NEW s \in Sides, v22_originate(s) \/ v22_answer(s)
      PROVE  WordsInv'
  BY <1>2, OrgNode0Inv, OrgNode1Inv, OrgNode3Inv, OrgNode4Inv, OrgNode5Inv, OrgNode6Inv,
     AnsNode0Inv, AnsNode3Inv, AnsNode4Inv DEF v22_originate, v22_answer
<1>3. ASSUME NEW s \in Sides, connect(s)
      PROVE  WordsInv'
  BY <1>3, Node2400AInv, Node2400BInv, Node2400CInv, Node2400DInv, Node1200_12Inv,
     Node1200_13Inv DEF connect
<1>4. ASSUME NEW s \in Sides, v22_retrain(s)
      PROVE  WordsInv'
  BY <1>4, Retrain0Inv, Retrain1Inv, Retrain2Inv, Retrain3Inv, Retrain4Inv, Retrain5Inv,
     Retrain6Inv, Retrain7Inv DEF v22_retrain
<1> QED
  BY <1>1, <1>2, <1>3, <1>4, DataInv, RequestInv, DeleteInv DEF Next

\* A station exchanges words with its host at the rate its line is set to,
\* never leaves the rate it was created for upwards, and takes the road to 2400
\* bit/s only together with the other one (v22mod.c, v22_process).
THEOREM WordsSafe == Spec => []WordsInv
<1>1. WordsInv /\ [Next]_vars => WordsInv'
  BY NextInv
<1> QED
  BY <1>1, InitInv, PTL DEF Spec

\* Two stations in data mode, neither of which came out of a retrain by its
\* timeout, have one rate, whichever detections of S1 and of ones were missed.
THEOREM RatesMeet == Spec => []OneRate
<1>1. WordsInv => OneRate
  <2> SUFFICES ASSUME WordsInv, \A s \in Sides : m[s].proto = "data" /\ ~m[s].blind
               PROVE  m["org"].txr = m["ans"].txr
    BY DEF OneRate
  <2>1. \A s \in Sides : m[s].txr \in Rate /\ (m[s].txr = 2400 => Bis(m[Peer(s)]))
    BY DEF WordsInv, TypeOK, Station, RoadHeard
  <2>2. \A s \in Sides : Bis(m[s]) => m[s].txr = 2400
    BY DEF Bis, Sides
  <2> QED
    BY <2>1, <2>2 DEF Sides, Peer, Rate
<1> QED
  BY <1>1, WordsSafe, PTL

=============================================================================
