------------------------- MODULE DpWrapper_proofs --------------------------
(***************************************************************************)
(* For every ring size, fragment, pair of rates and sequence of host       *)
(* calls, dp_wrapper_run delays the line by exactly one fragment.          *)
(***************************************************************************)
EXTENDS DpWrapper, TLAPS

\* The starting state has no wrapper, so nothing is held and nothing heard.
LEMMA InitRingInv == Init => RingInv
  BY GeometryAssumption, BoundAssumption
  DEF Init, RingInv, TypeOK, BlocksCounted, Latency, RingPositions, Silence,
      Objects

\* dp_wrapper_create puts the rings where Cursors wants them.
LEMMA CreateOkRingInv ==
  ASSUME RingInv, NEW f \in DpFrags, NEW hs \in Rates, NEW ds \in Rates,
         CreateOk(f, hs, ds)
  PROVE  RingInv'
<1> DEFINE H == HostFrag(f, hs, ds)
<1>1. H \in 1 .. DPW_MAX_FRAG
  BY GeometryAssumption DEF CreateOk
<1> HIDE DEF H
<1>2. ResetRings(H)
  BY DEF CreateOk, H
<1>3. heap' \subseteq Objects
  BY DEF CreateOk, RingInv, TypeOK, Objects, Wanted
<1>4. TypeOK'
  BY <1>1, <1>2, <1>3, GeometryAssumption
  DEF CreateOk, ResetRings, RingInv, TypeOK, RingPositions, Silence
<1>5. Cursors' /\ InputHeld' /\ OutputHeld'
  BY <1>1, <1>2, GeometryAssumption
  DEF ResetRings, Cursors, InputHeld, OutputHeld, Answer, RingPositions,
      Silence
<1>6. BlocksCounted'
  BY <1>1, <1>2, GeometryAssumption
  DEF CreateOk, ResetRings, RingInv, BlocksCounted
<1>7. Latency'
  BY <1>2 DEF ResetRings, Latency
<1> QED
  BY <1>4, <1>5, <1>6, <1>7 DEF RingInv

\* One loop step of dp_wrapper_run.
LEMMA RunStepRingInv ==
  ASSUME RingInv, NEW st \in Statuses, RunStep(st)
  PROVE  RingInv'
<1> DEFINE n == Chunk
           data == Stored(in_data, in_wr, n, fed)
<1>1. /\ live /\ Cursors /\ InputHeld /\ OutputHeld /\ TypeOK
      /\ running /\ count > 0 /\ BlocksCounted
  BY DEF RingInv, BlocksCounted, RunStep
<1>2. /\ n \in 1 .. host_frag
      /\ n <= count
      /\ in_wr + n <= 2 * host_frag
  BY <1>1, GeometryAssumption DEF Chunk, Min2, Cursors, TypeOK
<1>3. /\ in_data' = data
      /\ in_wr' = Wrap(in_wr + n)
      /\ out_rd' = Wrap(out_rd + n)
      /\ heard' = [k \in 1 .. n |-> out_data'[out_rd + k - 1]]
      /\ count' = count - n
      /\ fed' = fed + n
      /\ UNCHANGED << heap, live, host_frag, running, asked >>
  BY DEF RunStep
<1>4. IF FragmentReady(n)
        THEN /\ Process(data, st)
             /\ in_total' = Consumed(in_total + n)
             /\ out_total' = out_total + host_frag - n
        ELSE /\ st = 0
             /\ in_total' = in_total + n
             /\ out_total' = out_total - n
             /\ UNCHANGED << out_data, status, blocks, posted,
                             in_dp_pos, out_dp_pos >>
  BY DEF RunStep
<1> HIDE DEF n
<1>5. data \in [RingPositions -> Int]
  BY <1>1, <1>2 DEF Stored, TypeOK, RingPositions
<1>6. \A i \in RingPositions :
        data[i] = IF i \in in_wr .. in_wr + n - 1
                    THEN fed + (i - in_wr) ELSE in_data[i]
  BY DEF Stored
<1> HIDE DEF data
<1>7. CASE ~FragmentReady(n)
  <2>1. /\ in_total + n < host_frag
        /\ in_total' = in_total + n
        /\ out_total' = out_total - n
        /\ UNCHANGED << out_data, status, blocks, posted, in_dp_pos, out_dp_pos >>
    BY <1>1, <1>2, <1>4, <1>7, GeometryAssumption
    DEF FragmentReady, TypeOK, Cursors
  <2>2. in_wr' = in_wr + n /\ out_rd' = out_rd + n
    BY <2>1, <1>1, <1>2, <1>3, GeometryAssumption DEF Wrap, Cursors, TypeOK
  <2>3. Cursors'
    BY <2>1, <2>2, <1>1, <1>2, <1>3, GeometryAssumption DEF Cursors, TypeOK
  <2>4. InputHeld'
    <3> SUFFICES ASSUME NEW i \in 0 .. in_total' - 1
                 PROVE  data[in_dp_pos + i] = fed' - in_total' + i
      BY <2>1, <1>3 DEF InputHeld
    <3>1. /\ in_dp_pos + i \in RingPositions
          /\ in_dp_pos + i \in in_wr .. in_wr + n - 1 <=> i >= in_total
          /\ i < in_total => i \in 0 .. in_total - 1
      BY <2>1, <1>1, <1>2, GeometryAssumption DEF Cursors, TypeOK, RingPositions
    <3>2. CASE i >= in_total
      <4>1. data[in_dp_pos + i] = fed + ((in_dp_pos + i) - in_wr)
        BY <3>1, <3>2, <1>6
      <4> QED
        BY <4>1, <2>1, <1>1, <1>2, <1>3, GeometryAssumption
        DEF Cursors, TypeOK
    <3>3. CASE i < in_total
      <4>1. data[in_dp_pos + i] = in_data[in_dp_pos + i]
        BY <3>1, <3>3, <1>1, <1>6 DEF TypeOK
      <4>2. data[in_dp_pos + i] = fed - in_total + i
        BY <4>1, <3>1, <3>3, <1>1 DEF InputHeld
      <4> QED
        BY <4>2, <2>1, <1>1, <1>2, <1>3, GeometryAssumption
        DEF Cursors, TypeOK
    <3> QED
      BY <3>2, <3>3, <2>1, <1>1, <1>2 DEF TypeOK
  <2>5. OutputHeld'
    <3>1. fed' - in_total' = fed - in_total
      BY <2>1, <1>1, <1>2, <1>3, GeometryAssumption DEF TypeOK
    <3> QED
      BY <2>1, <3>1, <1>1, <1>3 DEF OutputHeld, Answer
  <2>6. \A k \in 1 .. n :
          /\ out_data[out_rd + k - 1] = Answer(fed + (k - 1) - host_frag)
          /\ Answer(fed + (k - 1) - host_frag) \in Int
    <3> SUFFICES ASSUME NEW k \in 1 .. n
                 PROVE  /\ out_data[out_rd + k - 1]
                             = Answer(fed + (k - 1) - host_frag)
                        /\ Answer(fed + (k - 1) - host_frag) \in Int
      OBVIOUS
    <3>1. in_total + (k - 1) \in 0 .. host_frag - 1
      BY <2>1, <1>1, <1>2, GeometryAssumption DEF Cursors, TypeOK
    <3>2. out_rd + k - 1 = in_dp_pos + (in_total + (k - 1))
      BY <1>1, <1>2, GeometryAssumption DEF Cursors, TypeOK
    <3>3. fed + (k - 1) - host_frag
            = fed - in_total - host_frag + (in_total + (k - 1))
      BY <1>1, <1>2, GeometryAssumption DEF Cursors, TypeOK
    <3>4. fed + (k - 1) - host_frag \in Int
      BY <1>1, <1>2, GeometryAssumption DEF Cursors, TypeOK
    <3> QED
      BY <3>1, <3>2, <3>3, <3>4, <1>1 DEF OutputHeld, Answer, Silence
  <2>7. /\ heard' \in Seq(Int) /\ Len(heard') = n
        /\ \A k \in 1 .. n : heard'[k] = Answer(fed + (k - 1) - host_frag)
    BY <2>1, <2>6, <1>2, <1>3
  <2>8. Latency'
    BY <2>7, <1>1, <1>2, <1>3, GeometryAssumption
    DEF Latency, Answer, TypeOK, Cursors
  <2>9. BlocksCounted'
    <3>1. in_total' + count' = in_total + count
      BY <2>1, <1>1, <1>2, <1>3, GeometryAssumption DEF TypeOK, Cursors
    <3>2. blocks * host_frag \in Int
      BY <1>1 DEF TypeOK, Cursors
    <3> QED
      BY <2>1, <3>1, <3>2, <1>1, <1>2, <1>3, GeometryAssumption
      DEF BlocksCounted, TypeOK, Cursors
  <2>10. TypeOK'
    BY <2>1, <2>2, <2>3, <2>7, <1>1, <1>2, <1>3, <1>5, GeometryAssumption
    DEF TypeOK, Cursors
  <2> QED
    BY <2>3, <2>4, <2>5, <2>8, <2>9, <2>10 DEF RingInv
<1>8. CASE FragmentReady(n)
  <2>1. /\ in_total + n >= host_frag
        /\ in_total' = in_total + n - host_frag
        /\ out_total' = out_total + host_frag - n
        /\ Process(data, st)
    <3>1. /\ Process(data, st)
          /\ in_total' = Consumed(in_total + n)
          /\ out_total' = out_total + host_frag - n
      BY <1>4, <1>8
    <3>2. in_total' = in_total + n - host_frag
      BY <3>1, <1>1, <1>2, GeometryAssumption DEF Consumed, TypeOK
    <3>3. in_total + n >= host_frag
      BY <1>8 DEF FragmentReady
    <3> QED
      BY <3>1, <3>2, <3>3
  <2>2. /\ in_dp_pos' = host_frag - in_dp_pos
        /\ out_dp_pos' = in_dp_pos
        /\ blocks' = blocks + 1
        /\ posted' = IF st # 0 THEN posted + 1 ELSE posted
        /\ status' = IF st # 0 THEN st ELSE status
        /\ status' \in Statuses
    BY <2>1, <1>1, GeometryAssumption
    DEF Process, Kept, Flip, Cursors, TypeOK
  <2>3. \A i \in RingPositions :
          out_data'[i] = IF i \in out_dp_pos .. out_dp_pos + host_frag - 1
                           THEN data[in_dp_pos + (i - out_dp_pos)]
                           ELSE out_data[i]
    BY <2>1 DEF Process
  <2>4. out_data' \in [RingPositions -> Int]
    <3>1. \A i \in RingPositions :
            i \in out_dp_pos .. out_dp_pos + host_frag - 1
              => in_dp_pos + (i - out_dp_pos) \in RingPositions
      BY <1>1, GeometryAssumption DEF Cursors, TypeOK, RingPositions
    <3>2. \A i \in RingPositions : data[i] \in Int /\ out_data[i] \in Int
      BY <1>1, <1>5 DEF TypeOK
    <3> QED
      BY <3>1, <3>2, <2>1 DEF Process
  <2>5. /\ in_wr' = in_dp_pos' + in_total'
        /\ out_rd' = in_wr'
        /\ in_total' >= 0
        /\ in_dp_pos = host_frag => in_total' = 0
    BY <2>1, <2>2, <1>1, <1>2, <1>3, GeometryAssumption
    DEF Wrap, Cursors, TypeOK
  <2>6. Cursors'
    BY <2>1, <2>2, <2>5, <1>1, <1>2, <1>3, GeometryAssumption
    DEF Cursors, TypeOK
  <2>7. \A i \in 0 .. host_frag - 1 : data[in_dp_pos + i] = fed - in_total + i
    <3> SUFFICES ASSUME NEW i \in 0 .. host_frag - 1
                 PROVE  data[in_dp_pos + i] = fed - in_total + i
      OBVIOUS
    <3>1. /\ in_dp_pos + i \in RingPositions
          /\ in_dp_pos + i \in in_wr .. in_wr + n - 1 <=> i >= in_total
          /\ i < in_total => i \in 0 .. in_total - 1
      BY <2>1, <1>1, <1>2, GeometryAssumption DEF Cursors, TypeOK, RingPositions
    <3>2. CASE i >= in_total
      <4>1. data[in_dp_pos + i] = fed + ((in_dp_pos + i) - in_wr)
        BY <3>1, <3>2, <1>6
      <4> QED
        BY <4>1, <1>1, <1>2, GeometryAssumption DEF Cursors, TypeOK
    <3>3. CASE i < in_total
      <4>1. data[in_dp_pos + i] = in_data[in_dp_pos + i]
        BY <3>1, <3>3, <1>1, <1>6 DEF TypeOK
      <4> QED
        BY <4>1, <3>1, <3>3, <1>1 DEF InputHeld
    <3> QED
      BY <3>2, <3>3, <1>1 DEF TypeOK
  <2>8. InputHeld'
    <3> SUFFICES ASSUME NEW i \in 0 .. in_total' - 1
                 PROVE  data[in_dp_pos' + i] = fed' - in_total' + i
      BY <1>3 DEF InputHeld
    <3>1. /\ in_dp_pos = 0 /\ in_dp_pos' = host_frag
          /\ in_dp_pos' + i \in RingPositions
          /\ in_dp_pos' + i \in in_wr .. in_wr + n - 1
      BY <2>1, <2>2, <2>5, <1>1, <1>2, GeometryAssumption
      DEF Cursors, TypeOK, RingPositions
    <3>2. data[in_dp_pos' + i] = fed + ((in_dp_pos' + i) - in_wr)
      BY <3>1, <1>6
    <3> QED
      BY <3>1, <3>2, <2>1, <1>1, <1>2, <1>3, GeometryAssumption
      DEF Cursors, TypeOK
  <2>9. \A i \in 0 .. host_frag - 1 :
          out_data'[out_dp_pos + i] = fed - in_total + i
    BY <2>3, <2>7, <1>1, GeometryAssumption DEF Cursors, TypeOK, RingPositions
  <2>10. OutputHeld'
    BY <2>1, <2>2, <2>9, <1>1, <1>2, <1>3, GeometryAssumption
    DEF OutputHeld, Cursors, TypeOK, Answer
  <2>11. \A k \in 1 .. n :
          /\ out_data'[out_rd + k - 1] = Answer(fed + (k - 1) - host_frag)
          /\ Answer(fed + (k - 1) - host_frag) \in Int
    <3> SUFFICES ASSUME NEW k \in 1 .. n
                 PROVE  /\ out_data'[out_rd + k - 1]
                             = Answer(fed + (k - 1) - host_frag)
                        /\ Answer(fed + (k - 1) - host_frag) \in Int
      OBVIOUS
    <3>1. /\ fed + (k - 1) - host_frag \in Int
          /\ fed + (k - 1) - host_frag
               = fed - in_total - host_frag + (in_total + (k - 1))
          /\ out_rd + k - 1 = in_dp_pos + (in_total + (k - 1))
      BY <1>1, <1>2, GeometryAssumption DEF Cursors, TypeOK
    <3>2. CASE in_total + (k - 1) < host_frag
      <4>1. /\ in_total + (k - 1) \in 0 .. host_frag - 1
            /\ out_rd + k - 1 \in RingPositions
            /\ out_rd + k - 1 \notin out_dp_pos .. out_dp_pos + host_frag - 1
        BY <3>2, <1>1, <1>2, GeometryAssumption
        DEF Cursors, TypeOK, RingPositions
      <4>2. out_data'[out_rd + k - 1] = out_data[out_rd + k - 1]
        BY <4>1, <2>3
      <4> QED
        BY <4>1, <4>2, <3>1, <1>1 DEF OutputHeld, Answer, Silence
    <3>3. CASE in_total + (k - 1) >= host_frag
      <4> DEFINE i == in_total + (k - 1) - host_frag
      <4>1. /\ i \in 0 .. host_frag - 1
            /\ in_dp_pos = 0 /\ out_dp_pos = host_frag
            /\ out_rd + k - 1 = out_dp_pos + i
            /\ fed + (k - 1) - host_frag = fed - in_total + i
            /\ fed - in_total + i >= 0
        BY <3>3, <1>1, <1>2, GeometryAssumption DEF Cursors, TypeOK
      <4> QED
        BY <4>1, <3>1, <2>9 DEF Answer
    <3> QED
      BY <3>2, <3>3, <1>1, <1>2, GeometryAssumption DEF Cursors, TypeOK
  <2>12. /\ heard' \in Seq(Int) /\ Len(heard') = n
         /\ \A k \in 1 .. n : heard'[k] = Answer(fed + (k - 1) - host_frag)
    BY <2>11, <1>2, <1>3
  <2>13. Latency'
    BY <2>12, <1>1, <1>2, <1>3, GeometryAssumption
    DEF Latency, Answer, TypeOK, Cursors
  <2>14. BlocksCounted'
    <3>1. in_total' + count' = in_total + count - host_frag
      BY <2>1, <1>1, <1>2, <1>3, GeometryAssumption DEF TypeOK, Cursors
    <3>2. /\ blocks * host_frag \in Int
          /\ (blocks + 1) * host_frag = blocks * host_frag + host_frag
      BY <1>1 DEF TypeOK, Cursors
    <3>3. blocks' * host_frag' + in_total' + count' < asked' + host_frag'
      <4>1. blocks' * host_frag' = blocks * host_frag + host_frag
        BY <2>2, <3>2, <1>3
      <4>2. blocks * host_frag + in_total + count < asked + host_frag
        BY <1>1 DEF BlocksCounted
      <4>3. /\ in_total' \in Int /\ count' \in Int /\ in_total \in Int
            /\ count \in Int /\ asked \in Int /\ host_frag \in Int
        BY <2>1, <1>1, <1>2, <1>3, GeometryAssumption DEF TypeOK, Cursors
      <4> QED
        BY <4>1, <4>2, <4>3, <3>1, <3>2, <1>3
    <3>4. posted' <= blocks' /\ (status' = 0 <=> posted' = 0)
      BY <2>2, <1>1 DEF BlocksCounted, TypeOK
    <3> QED
      BY <3>3, <3>4, <1>1, <1>3 DEF BlocksCounted
  <2>15. TypeOK'
    BY <2>1, <2>2, <2>4, <2>5, <2>6, <2>12, <1>1, <1>2, <1>3, <1>5,
       GeometryAssumption
    DEF TypeOK, Cursors
  <2> QED
    BY <2>6, <2>8, <2>10, <2>13, <2>14, <2>15 DEF RingInv
<1> QED
  BY <1>7, <1>8

(***************************************************************************)
(* RingInv is preserved by every step: create and loop steps by the two    *)
(* lemmas above, the rest because they leave the rings alone.              *)
(***************************************************************************)
LEMMA NextRingInv == RingInv /\ [Next]_vars => RingInv'
<1> SUFFICES ASSUME RingInv, [Next]_vars
             PROVE  RingInv'
  OBVIOUS
<1>1. CASE \E f \in DpFrags, hs \in Rates, ds \in Rates : CreateOk(f, hs, ds)
  BY <1>1, CreateOkRingInv
<1>2. CASE \E f \in DpFrags, hs \in Rates, ds \in Rates : CreateFails(f, hs, ds)
  <2>1. heap' \subseteq Objects
    BY <1>2 DEF CreateFails, AfterDelete, RingInv, TypeOK, Objects
  <2>2. UNCHANGED << live, host_frag, ringVars, runVars >>
    BY <1>2 DEF CreateFails
  <2> QED
    BY <2>1, <2>2
    DEF RingInv, TypeOK, Cursors, InputHeld, OutputHeld, BlocksCounted,
        Latency, ringVars, runVars
<1>3. CASE Delete
  BY <1>3
  DEF Delete, AfterDelete, RingInv, TypeOK, BlocksCounted, Latency,
      ringVars, runVars
<1>4. CASE \E c \in 0 .. MaxCount : RunCall(c)
  <2> PICK c \in 0 .. MaxCount : RunCall(c)
    BY <1>4
  <2>1. TypeOK'
    BY BoundAssumption DEF RunCall, RingInv, TypeOK, ringVars
  <2>2. Cursors' /\ InputHeld' /\ OutputHeld'
    BY DEF RunCall, RingInv, Cursors, InputHeld, OutputHeld, ringVars
  <2>3. BlocksCounted'
    <3>1. /\ in_total < host_frag /\ in_total \in Nat /\ host_frag \in Nat
          /\ c \in Nat
      BY BoundAssumption, GeometryAssumption
      DEF RunCall, RingInv, Cursors, TypeOK
    <3> QED
      BY <3>1 DEF RunCall, BlocksCounted, ringVars
  <2>4. Latency'
    BY DEF RunCall, Latency
  <2> QED
    BY <2>1, <2>2, <2>3, <2>4 DEF RingInv
<1>5. CASE Step
  BY <1>5, RunStepRingInv DEF Step
<1>6. CASE RunReturn
  BY <1>6
  DEF RunReturn, RingInv, TypeOK, Cursors, InputHeld, OutputHeld,
      BlocksCounted, Latency, ringVars
<1>7. CASE UNCHANGED vars
  BY <1>7
  DEF RingInv, TypeOK, Cursors, InputHeld, OutputHeld, BlocksCounted,
      Latency, vars, ringVars, runVars
<1> QED
  BY <1>1, <1>2, <1>3, <1>4, <1>5, <1>6, <1>7 DEF Next

\* The rings' invariant holds in every reachable state of the adapter.
THEOREM RingInvariant == Spec => []RingInv
  BY InitRingInv, NextRingInv, PTL DEF Spec

(***************************************************************************)
(* dp_wrapper_run delays the host by exactly one fragment, losing,         *)
(* repeating and reordering nothing, whatever fragment sizes it is called  *)
(* with: the promise of the comment on `out.total' in dp_wrapper_create.   *)
(***************************************************************************)
THEOREM OneFragmentLatency == Spec => []Latency
<1>1. RingInv => Latency
  BY DEF RingInv
<1> QED
  BY <1>1, RingInvariant, PTL

(***************************************************************************)
(* The two rings of dp_wrapper_run always balance between loop steps: the  *)
(* test for a whole fragment never lags behind by a block.                 *)
(***************************************************************************)
THEOREM Balanced == Spec => []RingsBalanced
<1>1. RingInv => RingsBalanced
  BY DEF RingInv, RingsBalanced, Cursors
<1> QED
  BY <1>1, RingInvariant, PTL

(***************************************************************************)
(* For a call of any size: dp_wrapper_run returns 0 only when no block had *)
(* anything to report, and a call for n samples loses fewer than           *)
(* n / host_frag statuses to later ones.                                   *)
(***************************************************************************)
THEOREM FewStatusesLost == Spec => []StatusesReported
<1>1. RingInv => StatusesReported
  <2> SUFFICES ASSUME RingInv, running
               PROVE  /\ status = 0 <=> posted = 0
                      /\ posted > 1 => (posted - 1) * host_frag < asked
    BY DEF StatusesReported
  <2>1. /\ live /\ posted <= blocks /\ (status = 0 <=> posted = 0)
        /\ blocks * host_frag + in_total + count < asked + host_frag
    BY DEF RingInv, BlocksCounted
  <2>2. /\ posted \in Nat /\ blocks \in Nat /\ in_total \in Nat
        /\ count \in Nat /\ asked \in Nat /\ host_frag \in Nat
    BY <2>1 DEF RingInv, TypeOK
  <2>3. /\ posted * host_frag <= blocks * host_frag
        /\ posted * host_frag \in Nat /\ blocks * host_frag \in Nat
        /\ (posted - 1) * host_frag = posted * host_frag - host_frag
    BY <2>1, <2>2
  <2>4. posted * host_frag - host_frag < asked
    BY <2>1, <2>2, <2>3
  <2> QED
    BY <2>1, <2>3, <2>4
<1> QED
  BY <1>1, RingInvariant, PTL

=============================================================================
