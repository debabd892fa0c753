------------------------------ MODULE V22Call ------------------------------
(***************************************************************************)
(* A V.22bis call: two stations of src/pump/v22, each running one protocol *)
(* routine per block of 20 ms (v22_process, V22FP_modem and then           *)
(* v22_originate, v22_answer, v22_retrain or v22_data), and the line.      *)
(*                                                                         *)
(* A step is one block of one station; the stations take turns.  A station *)
(* hears what the other sent in its last block, unless the line drops it.  *)
(* The detectors of the signal processing may miss what they look for and  *)
(* fire on nothing else.  Times are in blocks; node is connect_substate,   *)
(* g is gtimer, and the other fields keep the names of the source.         *)
(***************************************************************************)
EXTENDS Integers

CONSTANTS
  Scaled(_),       \* a duration of the source in ms, in blocks
  Deadline,        \* node_deadline
  LossMax,         \* carrier_loss_ms
  LossBack,        \* V22_DATA_CARRIER_BACK
  Bps,             \* the rates a station may be created for
  Hosts,           \* which of the two hosts go on after an ERROR
  MaxDrops,        \* bound: blocks the line drops
  MaxPoor          \* bound: blocks of poor signal quality

\* The durations of the source that are given in ms.
Durations == { 59, 97, 99, 135, 230, 416, 449, 536, 599, 600, 755, 790, 799,
               1300, 1470, 1926, 1999, 3000 }

ASSUME V22Assumption ==
  /\ \A ms \in Durations : Scaled(ms) \in Nat
  /\ {Deadline, LossMax, LossBack} \subseteq Nat \ {0} /\ LossBack <= LossMax
  /\ {MaxDrops, MaxPoor} \subseteq Nat /\ Bps \subseteq {1200, 2400}
  /\ \A h \in Hosts : {h.org, h.ans} \subseteq BOOLEAN

VARIABLES
  m,               \* struct v22fp and its hdx, of each station
  dp,              \* what v22_process returned
  want,            \* the rate user words are exchanged at, 0 for not at all
  patient,         \* whether the host goes on after an ERROR
  line,            \* what each station sent in its last block
  turn, drops, poor

vars == << m, dp, want, patient, line, turn, drops, poor >>

Sides == {"org", "ans"}
Peer(s) == IF s = "org" THEN "ans" ELSE "org"

\* What is on the line: silence, the answer tone, unscrambled ones, S1,
\* scrambled ones and data, the last two with their rate.
Sig(kind, rate) == [kind |-> kind, rate |-> rate]
Silence == Sig("silence", 0)
AnswerTone == Sig("tone", 0)
USB1 == Sig("USB1", 1200)
S1 == Sig("S1", 1200)
Ones(rate) == Sig("ones", rate)
User(rate) == Sig("user", rate)

-----------------------------------------------------------------------------
(***************************************************************************)
(* The station.  v22_create passes no answer tone (params bit 10) and no   *)
(* start in data mode (bit 11), so the nodes these lead to never run.      *)
(***************************************************************************)

Created(s, bps) ==
  [ proto |-> s, node |-> 0, bps |-> bps, g |-> 0, r08 |-> 0, ones |-> 0,
    trained |-> FALSE, loss |-> 0, r38 |-> 0, txr |-> bps, rxr |-> bps,
    status |-> 1, blind |-> FALSE ]

Init ==
  /\ \E bps \in [Sides -> Bps] : m = [s \in Sides |-> Created(s, bps[s])]
  /\ dp = [s \in Sides |-> "OK"] /\ want = [s \in Sides |-> 0]
  /\ patient \in Hosts
  /\ line = [s \in Sides |-> Silence]
  /\ turn = "org" /\ drops = 0 /\ poor = 0

\* A host that gives up at the first ERROR deletes the datapump.
Running(s) == dp[s] # "ERROR" \/ patient[s]

\* ReadGTimer; beyond the longest deadline it need not be told apart.
Tick(h) == [h EXCEPT !.g = IF @ > Deadline THEN @ ELSE @ + 1]
SatInc(n, bound) == IF n > bound THEN n ELSE n + 1

\* The detectors, for a block in which x was heard.
Possible(b) == IF b THEN BOOLEAN ELSE {FALSE}
Hears(s) == {line[Peer(s)]} \cup (IF drops < MaxDrops THEN {Silence} ELSE {})
CarrierDetect(x) == x.kind \in {"S1", "ones", "user"}
Detect_v22(x) == Possible(x \in {USB1, AnswerTone})
Detect_S1(x) == Possible(x = S1)
\* Idle user data is ones too.
Detect_1sAnyRate(x, rate) == Possible(x.kind \in {"ones", "user"})
Detect_1s(x, rate) == Possible(x \in {Ones(rate), User(rate)})

DpStatus(st) ==
  CASE st \in {0, 1} -> "OK" [] st \in {3, 4} -> "CONNECT" [] OTHER -> "ERROR"
Wanted(st, w) ==
  CASE st = 1 -> 0 [] st = 3 -> 2400 [] st = 4 -> 1200 [] OTHER -> w

\* The end of V22FP_modem, and v22_process.
V22FP_modem(s, x, h, sig) ==
  /\ m' = [m EXCEPT ![s] =
       IF h.status \in {3, 4} \cup 6 .. 8
       THEN [h EXCEPT !.proto = "data", !.node = 0] ELSE h]
  /\ dp' = [dp EXCEPT ![s] = DpStatus(h.status)]
  /\ want' = [want EXCEPT ![s] = Wanted(h.status, @)]
  /\ line' = [line EXCEPT ![s] = sig]
  /\ drops' = IF x = line[Peer(s)] THEN drops ELSE drops + 1
  /\ turn' = Peer(s)
  /\ UNCHANGED patient

At(s, proto, node) ==
  /\ turn = s /\ Running(s) /\ m[s].proto = proto /\ m[s].node = node

\* A routine of the handshake starts with status 1.
Hand(s) == [m[s] EXCEPT !.status = 1]
Timed(h, limit, st) == IF h.g > limit THEN [h EXCEPT !.status = st] ELSE h
Fresh(h, node) == [h EXCEPT !.g = 0, !.r08 = 0, !.ones = 0, !.node = node]

-----------------------------------------------------------------------------
(***************************************************************************)
(* v22_originate.                                                          *)
(***************************************************************************)

ORG_NODE_0(s) ==
  /\ At(s, "org", 0)
  /\ \E x \in Hears(s) :
       V22FP_modem(s, x, [Fresh(Hand(s), 1) EXCEPT !.txr = 1200, !.rxr = 1200],
                   Silence)
  /\ UNCHANGED poor

ORG_NODE_1(s) ==
  /\ At(s, "org", 1)
  /\ \E x \in Hears(s) : \E found \in Detect_v22(x) :
       LET h == IF found THEN [Hand(s) EXCEPT !.g = 0, !.node = 3] ELSE Hand(s)
       IN V22FP_modem(s, x, Timed(Tick(h), Deadline, 17), Silence)
  /\ UNCHANGED poor

ORG_NODE_3(s) ==
  /\ At(s, "org", 3)
  /\ \E x \in Hears(s) : \E found \in Detect_v22(x) :
       LET n == IF found THEN m[s].r08 + 1 ELSE m[s].r08
           h == IF n > Scaled(135)
                THEN [Hand(s) EXCEPT !.g = 0, !.r08 = 0, !.node = 4]
                ELSE [Hand(s) EXCEPT !.r08 = n]
       IN V22FP_modem(s, x, Timed(Tick(h), Deadline, 19), Silence)
  /\ UNCHANGED poor

ORG_NODE_4(s) ==
  /\ At(s, "org", 4)
  /\ \E x \in Hears(s) :
       LET h == Tick(Hand(s))
       IN V22FP_modem(s, x, IF h.g > Scaled(416)
                            THEN [h EXCEPT !.node = 5] ELSE h, Silence)
  /\ UNCHANGED poor

\* How long S1 has been heard; a run too short to count is forgotten.
CountS1(n, s1) ==
  IF s1 THEN SatInc(n, Scaled(59)) ELSE IF n <= Scaled(59) THEN 0 ELSE n

\* What nodes 5 and 6 learn from a block.
Listened(h, x, s1, ones) ==
  IF x = Silence THEN h
  ELSE [h EXCEPT !.r08 = CountS1(@, s1),
                 !.ones = IF ones THEN SatInc(@, Scaled(230)) ELSE @]

ORG_NODE_5(s) ==
  /\ At(s, "org", 5)
  /\ \E x \in Hears(s) : \E s1 \in Detect_S1(x), ones \in Detect_1s(x, 1200) :
       LET h == Tick(Listened(Hand(s), x, s1, ones))
       IN V22FP_modem(s, x, IF h.g > Scaled(536)
                            THEN [h EXCEPT !.node = 6] ELSE h,
                      IF h.bps = 1200 THEN Ones(1200) ELSE S1)
  /\ UNCHANGED poor

ORG_NODE_6(s) ==
  /\ At(s, "org", 6)
  /\ \E x \in Hears(s) : \E s1 \in Detect_S1(x), ones \in Detect_1s(x, 1200) :
       LET h == Listened(Hand(s), x, s1, ones)
           k == CASE h.r08 > Scaled(59) /\ ~s1 -> Fresh(h, 8)
                  [] ~(h.r08 > Scaled(59) /\ ~s1) /\ h.ones > Scaled(230) ->
                       Fresh(h, 12)
                  [] OTHER -> Timed(Tick(h), Scaled(1926), 20)
       IN V22FP_modem(s, x, k, Ones(1200))
  /\ UNCHANGED poor

-----------------------------------------------------------------------------
(***************************************************************************)
(* v22_answer.                                                             *)
(***************************************************************************)

ANS_NODE_0(s) ==
  /\ At(s, "ans", 0)
  /\ \E x \in Hears(s) :
       V22FP_modem(s, x, [Fresh(Hand(s), 3) EXCEPT !.txr = 1200, !.rxr = 1200],
                   USB1)
  /\ UNCHANGED poor

\* Unlike the calling station, it also forgets a short run of ones.
AnsListened(h, x, s1, ones) ==
  LET k == Listened(h, x, s1, ones)
  IN IF x # Silence /\ ~ones /\ k.ones <= Scaled(59)
     THEN [k EXCEPT !.ones = 0] ELSE k

ANS_NODE_3(s) ==
  /\ At(s, "ans", 3)
  /\ \E x \in Hears(s) : \E s1 \in Detect_S1(x), ones \in Detect_1s(x, 1200) :
       LET h == AnsListened(Hand(s), x, s1, ones)
           bis == h.r08 > Scaled(59) /\ ~s1 /\ h.bps = 2400
           k == CASE bis -> Fresh(h, 4)
                  [] ~bis /\ h.ones > Scaled(230) -> Fresh(h, 12)
                  [] OTHER -> Timed(Tick(h), Deadline, 21)
       IN V22FP_modem(s, x, k, IF m[s].g > Scaled(1470) THEN AnswerTone ELSE USB1)
  /\ UNCHANGED poor

ANS_NODE_4(s) ==
  /\ At(s, "ans", 4)
  /\ \E x \in Hears(s) :
       LET h == Tick(Hand(s))
       IN V22FP_modem(s, x, IF h.g > Scaled(97)
                            THEN [h EXCEPT !.node = 8] ELSE h, S1)
  /\ UNCHANGED poor

-----------------------------------------------------------------------------
(***************************************************************************)
(* connect_2400 and connect_1200, of either station.                       *)
(***************************************************************************)

AtEither(s, node) == At(s, s, node)

\* The start of a retrain by this station.
StartRetrain(h) ==
  [h EXCEPT !.proto = "retrain", !.node = 1, !.r38 = 1, !.status = 11]

NoCarrierSilent(h) == [h EXCEPT !.loss = SatInc(@, LossMax)]
NoCarrier(h) ==
  LET k == [h EXCEPT !.loss = SatInc(@, LossMax)]
  IN IF k.loss > LossMax THEN [k EXCEPT !.status = 16] ELSE k

\* The end of connect_2400: a carrier that comes back starts a retrain.
Carrier2400(h, x) ==
  CASE CarrierDetect(x) /\ h.loss # 0 -> [StartRetrain(h) EXCEPT !.loss = 0]
    [] CarrierDetect(x) /\ h.loss = 0 -> h
    [] OTHER -> NoCarrier(h)

\* The end of connect_1200: blocks without carrier add up.
Carrier1200(h, x) == IF CarrierDetect(x) THEN h ELSE NoCarrier(h)

NODE_2400A(s) ==
  /\ AtEither(s, 8)
  /\ \E x \in Hears(s) :
       LET h == Tick(Hand(s))
           k == IF h.g > Scaled(449) THEN [h EXCEPT !.node = 9, !.rxr = 2400]
                ELSE h
       IN V22FP_modem(s, x, Carrier2400(k, x), Ones(1200))
  /\ UNCHANGED poor

NODE_2400B(s) ==
  /\ AtEither(s, 9)
  /\ \E x \in Hears(s) :
       LET h == Tick(Hand(s))
           k == IF h.g > Scaled(600) THEN [h EXCEPT !.node = 10, !.txr = 2400]
                ELSE h
       IN V22FP_modem(s, x, Carrier2400(k, x), Ones(1200))
  /\ UNCHANGED poor

\* Nodes 10 and 12: wait, and connect if it has trained by then.
Trained(h, found, limit, st) ==
  LET k == Tick([h EXCEPT !.trained = @ \/ found])
  IN CASE k.g > limit /\ k.trained -> [k EXCEPT !.status = st]
       [] k.g > limit /\ ~k.trained -> [k EXCEPT !.g = 0, !.node = @ + 1]
       [] OTHER -> k

NODE_2400C(s) ==
  /\ AtEither(s, 10)
  /\ \E x \in Hears(s) : \E found \in Detect_1s(x, 2400) :
       V22FP_modem(s, x, Carrier2400(Trained(Hand(s), found, Scaled(790), 3), x),
                   Ones(2400))
  /\ UNCHANGED poor

\* Nodes 11 and 13: connect as soon as it trains.
TrainingForEver(h, found, st, err) ==
  Tick(IF found THEN [h EXCEPT !.status = st] ELSE h)
Training(h, found, st, err) ==
  Timed(Tick(IF found THEN [h EXCEPT !.status = st] ELSE h), Deadline, err)

NODE_2400D(s) ==
  /\ AtEither(s, 11)
  /\ \E x \in Hears(s) : \E found \in Detect_1s(x, 2400) :
       V22FP_modem(s, x, Carrier2400(Training(Hand(s), found, 3, 23), x),
                   Ones(2400))
  /\ UNCHANGED poor

NODE_1200_12(s) ==
  /\ AtEither(s, 12)
  /\ \E x \in Hears(s) : \E found \in Detect_1s(x, 1200) :
       V22FP_modem(s, x, Carrier1200(Trained(Hand(s), found, Scaled(755), 4), x),
                   Ones(1200))
  /\ UNCHANGED poor

NODE_1200_13(s) ==
  /\ AtEither(s, 13)
  /\ \E x \in Hears(s) : \E found \in Detect_1s(x, 1200) :
       V22FP_modem(s, x, Carrier1200(Training(Hand(s), found, 4, 24), x),
                   Ones(1200))
  /\ UNCHANGED poor

-----------------------------------------------------------------------------
(***************************************************************************)
(* v22_retrain.                                                            *)
(***************************************************************************)

Retraining(s, node) == At(s, "retrain", node)
Re(s) == [m[s] EXCEPT !.status = 2]
Rates(h, tx, rx) == [h EXCEPT !.txr = tx, !.rxr = rx]

\* S1 of the other station has been heard, and is over.
HeardOut(h, s1, next) ==
  CASE s1 -> [h EXCEPT !.r08 = @ + 1]
    [] ~s1 /\ h.r08 # 0 -> [h EXCEPT !.g = 0, !.r08 = 0, !.node = next]
    [] OTHER -> h

\* The time to hear S1 is up: data mode again, and no CONNECT says so.
BackToDataKeeps(h) == [h EXCEPT !.proto = "data", !.node = 0, !.blind = TRUE]
BackToData(h) ==
  [Rates(h, 2400, 2400) EXCEPT !.proto = "data", !.node = 0, !.blind = TRUE]

\* Asked for by the other station: wait for the end of its S1, up to 1.3 s.
RETRAIN_0(s) ==
  /\ Retraining(s, 0)
  /\ \E x \in Hears(s) : \E s1 \in Detect_S1(x) :
       LET h == Tick(HeardOut(Re(s), s1, 1))
       IN V22FP_modem(s, x, IF h.g > Scaled(1300)
                            THEN BackToData(h) ELSE h, Ones(1200))
  /\ UNCHANGED poor

RETRAIN_1(s) ==
  /\ Retraining(s, 1)
  /\ \E x \in Hears(s) :
       V22FP_modem(s, x, Tick(Rates(Fresh(Re(s), 2), 1200, 1200)), S1)
  /\ UNCHANGED poor

RETRAIN_2(s) ==
  /\ Retraining(s, 2)
  /\ \E x \in Hears(s) : \E s1 \in Detect_S1(x) :
       LET h == Tick(IF s1 THEN [Re(s) EXCEPT !.r08 = @ + 1] ELSE Re(s))
       IN V22FP_modem(s, x, IF h.g > Scaled(99)
                            THEN [h EXCEPT !.node = IF h.r38 = 1 THEN 3 ELSE 4]
                            ELSE h, S1)
  /\ UNCHANGED poor

\* Asked for by this station: wait for the answer.  Without one it reports
\* CONNECT 2400 after 1.3 s.
ConnectAnyway(h) == [Rates(h, 2400, 2400) EXCEPT !.status = 3, !.blind = TRUE]

RETRAIN_3(s) ==
  /\ Retraining(s, 3)
  /\ \E x \in Hears(s) : \E s1 \in Detect_S1(x) :
       LET h == Tick(HeardOut(Re(s), s1, 4))
       IN V22FP_modem(s, x, IF h.g > Scaled(1300)
                            THEN ConnectAnyway(h) ELSE h, Ones(1200))
  /\ UNCHANGED poor

\* Nodes 4 to 6 last their time, and set the rates tx and rx at its end.
RetrainStep(s, node, limit, tx, rx, sig) ==
  /\ Retraining(s, node)
  /\ \E x \in Hears(s) :
       LET h == Tick(Re(s))
       IN V22FP_modem(s, x, IF h.g > limit
                            THEN [Rates(h, tx, rx) EXCEPT !.node = node + 1]
                            ELSE h, sig)
  /\ UNCHANGED poor

RETRAIN_4(s) == RetrainStep(s, 4, Scaled(449), m[s].txr, 2400, Ones(1200))
RETRAIN_5(s) == RetrainStep(s, 5, Scaled(599), 2400, m[s].rxr, Ones(1200))
RETRAIN_6(s) == RetrainStep(s, 6, Scaled(799), m[s].txr, m[s].rxr, Ones(2400))

\* It connects when it has trained, or when its time is up.
Retrained(h, found) ==
  CASE found -> [h EXCEPT !.status = 3, !.blind = FALSE]
    [] ~found /\ h.g > Scaled(1999) -> [h EXCEPT !.status = 3, !.blind = TRUE]
    [] OTHER -> h

RETRAIN_7(s) ==
  /\ Retraining(s, 7)
  /\ \E x \in Hears(s) : \E found \in Detect_1s(x, 2400) :
       V22FP_modem(s, x, Retrained(Tick(Re(s)), found), Ones(2400))
  /\ UNCHANGED poor

-----------------------------------------------------------------------------
(***************************************************************************)
(* v22_data.                                                               *)
(***************************************************************************)

\* The signal is poor for too long.
Quality(h, bad) ==
  LET k == [h EXCEPT !.r08 = IF bad THEN @ + 1 ELSE 0]
  IN IF k.r08 > Scaled(3000) THEN StartRetrain(k) ELSE k

\* The carrier is lost for too long, or back after too long.
CarrierData(h, x) ==
  CASE CarrierDetect(x) /\ h.loss > LossBack /\ h.rxr = 2400 ->
         [StartRetrain(h) EXCEPT !.loss = 0]
    [] CarrierDetect(x) /\ ~(h.loss > LossBack /\ h.rxr = 2400) ->
         [h EXCEPT !.loss = 0]
    [] OTHER -> NoCarrier(h)

RetrainRequest(s) ==
  /\ At(s, "data", 0) /\ m[s].rxr = 2400 /\ line[Peer(s)] = S1
  /\ V22FP_modem(s, S1, [Rates(Fresh(m[s], 0), 1200, 1200) EXCEPT
                           !.proto = "retrain", !.r38 = 0, !.status = 9],
                 User(m[s].txr))
  /\ UNCHANGED poor

v22_data(s) ==
  /\ At(s, "data", 0)
  /\ \E x \in Hears(s) : \E bad \in Possible(poor < MaxPoor /\ m[s].rxr = 2400) :
       LET h == [m[s] EXCEPT !.status = 0]
           k == IF h.rxr = 2400 THEN Quality(h, bad) ELSE h
       IN /\ V22FP_modem(s, x, CarrierData(k, x), User(h.txr))
          /\ poor' = IF bad THEN poor + 1 ELSE poor

\* v22_delete: the host has given up, and the line is silent.
v22_delete(s) ==
  /\ turn = s /\ ~Running(s)
  /\ line' = [line EXCEPT ![s] = Silence] /\ turn' = Peer(s)
  /\ UNCHANGED << m, dp, want, patient, drops, poor >>

-----------------------------------------------------------------------------

v22_originate(s) ==
  \/ ORG_NODE_0(s) \/ ORG_NODE_1(s) \/ ORG_NODE_3(s) \/ ORG_NODE_4(s)
  \/ ORG_NODE_5(s) \/ ORG_NODE_6(s)
v22_answer(s) == ANS_NODE_0(s) \/ ANS_NODE_3(s) \/ ANS_NODE_4(s)
connect(s) ==
  \/ NODE_2400A(s) \/ NODE_2400B(s) \/ NODE_2400C(s) \/ NODE_2400D(s)
  \/ NODE_1200_12(s) \/ NODE_1200_13(s)
v22_retrain(s) ==
  \/ RETRAIN_0(s) \/ RETRAIN_1(s) \/ RETRAIN_2(s) \/ RETRAIN_3(s)
  \/ RETRAIN_4(s) \/ RETRAIN_5(s) \/ RETRAIN_6(s) \/ RETRAIN_7(s)

Next ==
  \E s \in Sides :
    \/ v22_originate(s) \/ v22_answer(s) \/ connect(s) \/ v22_retrain(s)
    \/ RetrainRequest(s) \/ v22_data(s) \/ v22_delete(s)

Spec == Init /\ [][Next]_vars
\* Every step is a block and passes the turn on: the hosts go on calling.
Calling == turn' = Peer(turn)
FairSpec == Spec /\ WF_turn(Calling)

-----------------------------------------------------------------------------

Rate == {1200, 2400}

Station(s, h) ==
  /\ h.proto \in {s, "data", "retrain"} /\ h.node \in 0 .. 13 /\ h.r08 \in Nat
  /\ h.g \in 0 .. Deadline + 1 /\ h.loss \in 0 .. LossMax + 1
  /\ {h.bps, h.txr, h.rxr} \subseteq Rate
  /\ h.trained \in BOOLEAN /\ h.blind \in BOOLEAN

Signals == {Silence, AnswerTone, USB1, S1} \cup {Ones(r) : r \in Rate}
             \cup {User(r) : r \in Rate}

TypeOK ==
  /\ DOMAIN m = Sides /\ \A s \in Sides : Station(s, m[s])
  /\ want \in [Sides -> {0} \cup Rate]
  /\ dp \in [Sides -> {"OK", "CONNECT", "ERROR"}]
  /\ line \in [Sides -> Signals] /\ turn \in Sides

\* In data mode both directions have one rate, and it is the one v22_process
\* exchanges words with the host at, although retrains change the rates in
\* several steps and may leave them by a timeout without a CONNECT.
WordsFit ==
  \A s \in Sides :
    m[s].proto = "data" => want[s] = m[s].txr /\ m[s].txr = m[s].rxr

\* A station created for 1200 never goes to 2400: v22_originate does not ask
\* for its own rate before it follows S1 (v22mod.c:1888), and it is only right
\* because the other station answers S1 with S1 and nothing else.
NoUpgrade ==
  \A s \in Sides :
    m[s].bps = 1200 => m[s].txr = 1200 /\ m[s].rxr = 1200 /\ m[s].proto # "retrain"

\* The rates that a station is set to wherever it is in the handshake and in
\* a retrain, and what it then exchanges with the host.
Own(s, h, w) ==
  /\ h.proto = "data" => h.node = 0 /\ w = h.txr /\ h.txr = h.rxr
  /\ h.proto = s =>
       /\ h.node = 0 => h.txr = h.bps /\ h.rxr = h.bps
       /\ h.node \in 1 .. 8 \cup 12 .. 13 => h.txr = 1200 /\ h.rxr = 1200
       /\ h.node = 9 => h.txr = 1200 /\ h.rxr = 2400
       /\ h.node \in 10 .. 11 => h.txr = 2400 /\ h.rxr = 2400
       /\ h.node < 10 => ~h.trained
  /\ h.proto = "retrain" =>
       /\ h.node \in 0 .. 7
       /\ h.node = 0 => w = 2400
       /\ h.node >= 5 => h.rxr = 2400
       /\ h.node >= 6 => h.txr = 2400
RatesOwn == \A s \in Sides : Own(s, m[s], want[s])

\* A station that has taken the road to 2400 bit/s; it never leaves it.
Bis(h) ==
  \/ h.proto = "retrain"
  \/ h.proto = "data" /\ h.txr = 2400
  \/ h.proto = "ans" /\ h.node = 4
  \/ h.proto \in Sides /\ h.node \in 8 .. 11

\* The road is taken by the two stations only if both were created for it:
\* the answering station asks for its own rate, and the calling one is sent
\* S1 only by an answering one that has heard S1 of it.  r08 counts the S1
\* that is heard, but the answer tone in node 3 of the calling station.
RoadAgreed ==
  /\ \A s \in Sides : Bis(m[s]) => m[s].bps = 2400
  /\ m["org"].bps = 1200 =>
       \A s \in Sides :
         /\ ~Bis(m[s]) /\ line[s] # S1
         /\ m[s].proto = s /\ ~(s = "org" /\ m[s].node = 3) => m[s].r08 = 0

\* A station that has trained at 2400 has heard it from one on that road.
RoadHeard ==
  \A s \in Sides :
    /\ line[s] \in {Ones(2400), User(2400)} => Bis(m[s])
    /\ \/ m[s].proto = s /\ m[s].node \in 10 .. 11 /\ m[s].trained
       \/ m[s].proto = "data" /\ m[s].txr = 2400 /\ ~m[s].blind
       => Bis(m[Peer(s)])

\* The safety of the stations, and what it rests on.
WordsInv ==
  /\ TypeOK /\ WordsFit /\ NoUpgrade
  /\ RatesOwn /\ RoadAgreed /\ RoadHeard

\* Two stations in data mode have one rate, whichever detections of S1 and of
\* ones each of them missed, unless one of them came out of a retrain only
\* because its time was up.
OneRate ==
  (\A s \in Sides : m[s].proto = "data" /\ Running(s) /\ ~m[s].blind) =>
     m["org"].txr = m["ans"].txr

\* Every handshake ends in data mode or an error, and every retrain that the
\* host lets go on ends in data mode.
CallSettles ==
  \A s \in Sides :
    (m[s].proto # "data" /\ Running(s)) ~>
      \/ m[s].proto = "data" \/ ~Running(s)
      \/ m[s].proto = s /\ dp[s] = "ERROR"

\* A station in data mode whose peer has hung up, or still trains for another
\* rate, is not left there for ever: the peer joins it, or one of the hosts is
\* told.
NotLeftAlone ==
  \A s \in Sides :
    (m[s].proto = "data" /\ (m[Peer(s)].proto = Peer(s) \/ ~Running(Peer(s)))) ~>
      \/ dp[s] = "ERROR"
      \/ Running(Peer(s)) /\ (m[Peer(s)].proto # Peer(s) \/ dp[Peer(s)] = "ERROR")

=============================================================================
