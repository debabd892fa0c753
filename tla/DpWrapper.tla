----------------------------- MODULE DpWrapper -----------------------------
(***************************************************************************)
(* src/core/dp_wrapper.c: the adapter between the fragments the host hands *)
(* to a classic datapump (Bell 103, V.22, V.23, V.32) and the fixed        *)
(* fragments that datapump's process callback wants.                       *)
(*                                                                         *)
(* A sample is represented by its position in the host's input stream, and *)
(* an output sample by the position of the input the datapump answered     *)
(* with it, so "the sample the host hears" can be related to "the sample   *)
(* the host said".  The rate converters (RcFixed) keep this labelling: a   *)
(* block of host_frag samples goes in and a block of host_frag comes out.  *)
(*                                                                         *)
(* One step of the loop in dp_wrapper_run is one action; the host calls    *)
(* RunCall, and gets the status back in RunReturn.                         *)
(***************************************************************************)
EXTENDS Integers, FiniteSets, Sequences

CONSTANTS
  DpFrags,        \* fragment sizes a family's create function asks for
  Rates,          \* sample rates a host or a datapump may name (0 included)
  ConverterPairs, \* the <<from, to>> pairs dpw_create_for knows
  DPW_MAX_FRAG,   \* half a ring, in samples
  Statuses,       \* DPSTAT_* codes process may return; 0 is DPSTAT_OK
  MaxCount,       \* largest count the host passes to one call (a bound)
  MaxSamples      \* samples the host feeds in one session (a bound)

Silence == -1

\* Samples of host rate that make one datapump fragment.
HostFrag(dp_frag, host_srate, dp_srate) == (dp_frag * host_srate) \div dp_srate

\* The early returns of dp_wrapper_create.
Refused(dp_frag, host_srate, dp_srate) ==
  \/ dp_frag = 0
  \/ host_srate = 0
  \/ dp_srate = 0
  \/ dp_frag > DPW_MAX_FRAG

(***************************************************************************)
(* The caller's precondition, stated by dp_wrapper.h and not checked by    *)
(* the code: a fragment scaled to the host rate fits half a ring.          *)
(***************************************************************************)
ASSUME GeometryAssumption ==
  /\ DPW_MAX_FRAG \in Nat \ {0}
  /\ DpFrags \subseteq Nat
  /\ Rates \subseteq Nat
  /\ \A f \in DpFrags, hs \in Rates, ds \in Rates :
       ~Refused(f, hs, ds) => HostFrag(f, hs, ds) \in 1 .. DPW_MAX_FRAG

ASSUME BoundAssumption ==
  /\ MaxCount \in Nat
  /\ MaxSamples \in Nat
  /\ 0 \in Statuses
  /\ Statuses \subseteq Int
  /\ ConverterPairs \subseteq Rates \X Rates

RingPositions == 0 .. 2 * DPW_MAX_FRAG - 1

VARIABLES
  heap,        \* what this wrapper has allocated and not yet freed
  live,        \* dp_wrapper_create has returned a wrapper
  host_frag,
  in_wr, in_total, in_dp_pos, in_data,       \* struct dpw_ring in
  out_rd, out_total, out_dp_pos, out_data,   \* struct dpw_ring out
  running,     \* a dp_wrapper_run call is in progress
  count,       \* samples of the call still to move
  status,      \* the status that call will return
  fed,         \* samples the host has handed over since create
  asked,       \* history: the count the current call was made with
  blocks,      \* history: process callbacks made by the current call
  posted,      \* history: those of them that returned a status to report
  heard        \* history: the samples the last loop step copied out

ringVars == << in_wr, in_total, in_dp_pos, in_data,
               out_rd, out_total, out_dp_pos, out_data >>
runVars  == << running, count, status, fed, asked, blocks,
               posted, heard >>
vars     == << heap, live, host_frag, ringVars, runVars >>

Objects == {"wrapper", "rc_to_dp", "rc_to_host"}

-----------------------------------------------------------------------------
(***************************************************************************)
(* Construction and destruction.                                           *)
(***************************************************************************)

\* dp_wrapper_delete: both converters, when they exist, then the wrapper.
AfterDelete(objects) == objects \ Objects

\* The output ring without its one-fragment head start.
ResetRingsNoLead(frag) ==
  /\ host_frag' = frag
  /\ in_wr' = 0 /\ in_total' = 0 /\ in_dp_pos' = 0
  /\ in_data' = [i \in RingPositions |-> Silence]
  /\ out_rd' = 0 /\ out_total' = frag /\ out_dp_pos' = 0
  /\ out_data' = [i \in RingPositions |-> Silence]
  /\ fed' = 0 /\ heard' = << >>

ResetRings(frag) ==
  /\ host_frag' = frag
  /\ in_wr' = 0 /\ in_total' = 0 /\ in_dp_pos' = 0
  /\ in_data' = [i \in RingPositions |-> Silence]
  /\ out_rd' = 0 /\ out_total' = frag /\ out_dp_pos' = frag
  /\ out_data' = [i \in RingPositions |-> Silence]
  /\ fed' = 0 /\ heard' = << >>

\* The converters a create call has to build before it can succeed.
Wanted(host_srate, dp_srate) ==
  IF host_srate = dp_srate THEN {} ELSE {"rc_to_dp", "rc_to_host"}

Creatable(host_srate, dp_srate) ==
  \/ host_srate = dp_srate
  \/ /\ << host_srate, dp_srate >> \in ConverterPairs
     /\ << dp_srate, host_srate >> \in ConverterPairs

CreateOk(dp_frag, host_srate, dp_srate) ==
  /\ ~live
  /\ ~Refused(dp_frag, host_srate, dp_srate)
  /\ Creatable(host_srate, dp_srate)
  /\ live' = TRUE
  /\ heap' = heap \cup {"wrapper"} \cup Wanted(host_srate, dp_srate)
  /\ ResetRings(HostFrag(dp_frag, host_srate, dp_srate))
  /\ UNCHANGED << running, count, status, asked, blocks, posted >>

(***************************************************************************)
(* The failing paths.  rc_to_dp is attempted first; when it is missing     *)
(* (unsupported pair or no memory) the reverse one is not tried, and both  *)
(* failures go through dp_wrapper_delete.                                  *)
(***************************************************************************)
CreateFails(dp_frag, host_srate, dp_srate) ==
  /\ ~live
  /\ ~Refused(dp_frag, host_srate, dp_srate)
  /\ host_srate # dp_srate
  /\ \/ heap' = AfterDelete(heap \cup {"wrapper"})
     \/ /\ << host_srate, dp_srate >> \in ConverterPairs
        /\ heap' = AfterDelete(heap \cup {"wrapper", "rc_to_dp"})
  /\ UNCHANGED << live, host_frag, ringVars, runVars >>

Delete ==
  /\ live
  /\ ~running
  /\ live' = FALSE
  /\ heap' = AfterDelete(heap)
  /\ UNCHANGED << host_frag, ringVars, runVars >>

-----------------------------------------------------------------------------
(***************************************************************************)
(* dp_wrapper_run.                                                         *)
(***************************************************************************)

Min2(a, b) == IF a < b THEN a ELSE b

\* How much one loop step moves: at most a fragment, never past a ring's end.
Chunk == Min2(Min2(count, host_frag),
              Min2(2 * host_frag - in_wr, 2 * host_frag - out_rd))

\* The ring positions' two halves.
Flip(pos) == IF pos # 0 THEN 0 ELSE host_frag

\* A wrap that is one sample late.
WrapLate(pos) == IF pos > 2 * host_frag THEN pos - 2 * host_frag ELSE pos

\* pos % (2 * host_frag), for the positions below 4 * host_frag it is given.
Wrap(pos) == IF pos >= 2 * host_frag THEN pos - 2 * host_frag ELSE pos

\* The ring after n samples labelled first, first + 1, ... go in at pos.
Stored(data, pos, n, first) ==
  [i \in RingPositions |->
     IF i \in pos .. pos + n - 1 THEN first + (i - pos) ELSE data[i]]

RunCall(n) ==
  /\ live /\ ~running
  /\ fed + n <= MaxSamples
  /\ running' = TRUE
  /\ count' = n
  /\ asked' = n
  /\ status' = 0
  /\ blocks' = 0
  /\ posted' = 0
  /\ heard' = << >>
  /\ UNCHANGED << heap, live, host_frag, ringVars, fed >>

\* Every block's status taken, DPSTAT_OK included.
Latest(st) == st

\* The status of the call once a block of it has returned st.
Kept(st) == IF st # 0 THEN st ELSE status

\* The answer of the process callback: st, and one block in the output ring.
Process(data, st) ==
  /\ out_data' =
       [i \in RingPositions |->
          IF i \in out_dp_pos .. out_dp_pos + host_frag - 1
            THEN data[in_dp_pos + (i - out_dp_pos)]
            ELSE out_data[i]]
  /\ status' = Kept(st)
  /\ blocks' = blocks + 1
  /\ posted' = IF st # 0 THEN posted + 1 ELSE posted
  /\ in_dp_pos' = Flip(in_dp_pos)
  /\ out_dp_pos' = Flip(out_dp_pos)

\* A whole fragment has arrived once the chunk is in the input ring.
FragmentReady(n) == in_total + n >= host_frag


\* The input accounting of a block, with its subtraction forgotten.
ConsumedNothing(total) == total

\* What is left in the input ring once the datapump took a fragment.
Consumed(total) == total - host_frag

RunStep(st) ==
  /\ running /\ count > 0
  /\ LET n == Chunk
         data == Stored(in_data, in_wr, n, fed)
         ready == FragmentReady(n)
     IN /\ in_data' = data
        /\ in_wr' = Wrap(in_wr + n)
        /\ IF ready
             THEN /\ Process(data, st)
                  /\ in_total' = Consumed(in_total + n)
                  /\ out_total' = out_total + host_frag - n
             ELSE /\ st = 0
                  /\ in_total' = in_total + n
                  /\ out_total' = out_total - n
                  /\ UNCHANGED << out_data, status, blocks, posted,
                                  in_dp_pos, out_dp_pos >>
        /\ heard' = [k \in 1 .. n |-> out_data'[out_rd + k - 1]]
        /\ out_rd' = Wrap(out_rd + n)
        /\ count' = count - n
        /\ fed' = fed + n
  /\ UNCHANGED << heap, live, host_frag, running, asked >>

RunReturn ==
  /\ running /\ count = 0
  /\ running' = FALSE
  /\ UNCHANGED << heap, live, host_frag, ringVars,
                  count, status, fed, asked, blocks, posted, heard >>

-----------------------------------------------------------------------------
Init ==
  /\ heap = {} /\ live = FALSE /\ host_frag = 0
  /\ in_wr = 0 /\ in_total = 0 /\ in_dp_pos = 0
  /\ in_data = [i \in RingPositions |-> Silence]
  /\ out_rd = 0 /\ out_total = 0 /\ out_dp_pos = 0
  /\ out_data = [i \in RingPositions |-> Silence]
  /\ running = FALSE /\ count = 0 /\ status = 0
  /\ fed = 0 /\ asked = 0 /\ blocks = 0 /\ posted = 0 /\ heard = << >>

Step == \E st \in Statuses : RunStep(st)

Next ==
  \/ \E f \in DpFrags, hs \in Rates, ds \in Rates :
       CreateOk(f, hs, ds) \/ CreateFails(f, hs, ds)
  \/ Delete
  \/ \E n \in 0 .. MaxCount : RunCall(n)
  \/ Step
  \/ RunReturn

Spec == Init /\ [][Next]_vars

\* dp_wrapper_run is a loop: once called it keeps stepping until it returns.
FairSpec == Spec /\ WF_vars(Step) /\ WF_vars(RunReturn)

-----------------------------------------------------------------------------
(***************************************************************************)
(* Properties.                                                             *)
(***************************************************************************)

TypeOK ==
  /\ heap \subseteq Objects
  /\ live \in BOOLEAN /\ running \in BOOLEAN
  /\ host_frag \in 0 .. DPW_MAX_FRAG
  /\ in_wr \in Nat /\ in_total \in Nat /\ in_dp_pos \in Nat
  /\ out_rd \in Nat /\ out_total \in Nat /\ out_dp_pos \in Nat
  /\ in_data \in [RingPositions -> Int]
  /\ out_data \in [RingPositions -> Int]
  /\ count \in Nat /\ asked \in Nat /\ blocks \in Nat /\ posted \in Nat
  /\ fed \in Nat
  /\ status \in Statuses
  /\ heard \in Seq(Int)

(***************************************************************************)
(* The host hears every fragment exactly one fragment late: whatever sizes *)
(* it calls dp_wrapper_run in, each sample copied out answers the sample   *)
(* fed host_frag earlier, and the first host_frag of them are the silence  *)
(* dp_wrapper_create preloads.  No sample is lost, repeated, reordered or  *)
(* read before process has written it.                                     *)
(***************************************************************************)
Latency ==
  \A k \in DOMAIN heard :
    LET answers == fed - Len(heard) + (k - 1) - host_frag
    IN heard[k] = IF answers < 0 THEN Silence ELSE answers

(***************************************************************************)
(* Between two loop steps the samples waiting for the datapump and the     *)
(* samples waiting for the host add up to one fragment, and less than a    *)
(* fragment waits for the datapump: the test `in.total >= host_frag' never *)
(* lags behind by a block.                                                 *)
(***************************************************************************)
RingsBalanced ==
  live => /\ in_total + out_total = host_frag
          /\ in_total < host_frag

(***************************************************************************)
(* What a call of any size reports.  dp_wrapper_run keeps one status, and  *)
(* a block's status replaces an earlier block's (`if (st != 0) status =    *)
(* st'), but: a call returns 0 only when none of its blocks had anything   *)
(* to report, and a call for n samples loses fewer than n / host_frag of   *)
(* the statuses posted to it, so none when n is at most a fragment.        *)
(***************************************************************************)
StatusesReported ==
  running =>
    /\ status = 0 <=> posted = 0
    /\ posted > 1 => (posted - 1) * host_frag < asked

\* Every dp_wrapper_run call returns: each loop step moves some samples.
RunReturns == running ~> ~running

-----------------------------------------------------------------------------
(***************************************************************************)
(* The inductive invariant behind Latency, RingsBalanced and               *)
(* StatusesReported.                                                       *)
(***************************************************************************)

\* What the host must hear at stream position p of the datapump's answers.
Answer(p) == IF p < 0 THEN Silence ELSE p

(***************************************************************************)
(* The datapump works in one half of each ring and the host in the other:  *)
(* the host's two cursors move together, and out.dp_pos is always the half *)
(* that in.dp_pos is not.                                                  *)
(***************************************************************************)
Cursors ==
  /\ host_frag \in 1 .. DPW_MAX_FRAG
  /\ in_dp_pos \in {0, host_frag}
  /\ out_dp_pos = host_frag - in_dp_pos
  /\ in_wr = in_dp_pos + in_total
  /\ out_rd = in_wr
  /\ in_total < host_frag
  /\ in_total + out_total = host_frag
  /\ in_total <= fed

\* The half being filled holds the stream positions since the last block.
InputHeld ==
  \A i \in 0 .. in_total - 1 : in_data[in_dp_pos + i] = fed - in_total + i

\* The half being drained holds the answers to the block before that.
OutputHeld ==
  \A i \in 0 .. host_frag - 1 :
    out_data[in_dp_pos + i] = Answer(fed - in_total - host_frag + i)

\* A call's blocks and the samples it leaves fit in what it found and brought.
BlocksCounted ==
  running =>
    /\ live
    /\ posted <= blocks
    /\ status = 0 <=> posted = 0
    /\ blocks * host_frag + in_total + count < asked + host_frag

RingInv ==
  /\ TypeOK
  /\ live => Cursors /\ InputHeld /\ OutputHeld
  /\ BlocksCounted
  /\ Latency

=============================================================================
