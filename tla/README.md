# slmodem_dsp_re: TLA+ models of its control

The repository is a C reconstruction of a soft modem's signal-processing
library. Most of its lines are filters, equalisers, decoders and tables:
fixed-point arithmetic over long inputs, which the repository tests bit for bit
against the original object. What decides whether a call works is the control
around that arithmetic: state machines, rings of samples, timeouts, the order
in which detectors are asked, and the handshakes with the host. That control is
what these modules model.

Paths below are relative to the repository (`src/callprog/Callprog.c` and so
on); `PROJECT.json` gives the file and lines of every definition.

## 1. The system and its parts

The host (a driver outside the repository) owns a modem object and hands it
fragments of samples. Everything is called synchronously from the host's
thread; there are no threads, locks or interrupts inside the library. What is
hard is what happens across many calls: which residue a call leaves in a ring,
which of several requests made in one block wins, what is left over in an
object that is used again, what a failing step leaves behind, and whether every
wait ends.

| part | source | state | operations | hard behaviour |
|---|---|---|---|---|
| fragment adapter | `core/dp_wrapper.c` | two rings, each split into the host's and the datapump's half; two rate converters | create, delete, run | calls of arbitrary size; wrap of both rings; a status overwritten by a later block |
| rate converter | `core/FixedRC.c` | a flat window of past samples, the phase, the input still owed | create, reset, resample, delete | calls of odd sizes that leave an output half provided for; the window's compaction; output limits |
| call datapump | `call/call.c` | byte rings, `answered`, last message, pulse dialler's fields | create, delete, run; the dialler's callbacks | same rings in bytes; polls that measure time by being called |
| call-progress supervisor | `callprog/Callprog.c` | state, last state, countdown, message; tables shared by all calls | Create, Dial, Progress, Delete | several transitions asked for in one block; fired timeouts that must be re-armed; table entries rewritten for one call and left for the next |
| dialler | `dialer/Dialer.c`, `DialerConfig.c` | the string, position, loop state, silence owed, pulse handshake | create, abort, progress | digits, gaps and pauses cut by buffer ends; abort at any point; a buffer at its limit |
| cadence matcher | `callprog/Cadence.c` | sixty recorded periods, the current run, a failure count | create (also in place), reset, delete, progress | the ring's wrap; silence before the first burst; a count that is never cleared |
| tone filters | `callprog/toneiir.c` and others | filter memories | one verdict per interval | numeric |
| V.8 negotiation | `v8/` | originate and answer state machines, message buffers, timers | create, process, delete | a handshake over a noisy line with timeouts at both ends |
| fax Class 1 | `fax/class1*.c`, `cHDLC*.c`, `cDATA*.c`, `cTOOLS.c`, `fax.c` | one of about twenty states, a countdown, a delayed status, the superframe of early frames | create, delete, command, process | results delivered some blocks after the event; host data that aborts a receive; frames that arrive between two commands |
| fax framers and queues | `fax/faxvmi*.c`, `fifo.c`, `T30frames.c` | queues of octets and frames, bit-stuffing registers, underrun | write, read, process, control | full and empty queues; frames that do not fit; an underrun that is cleared late |
| fax modulations | `fax/V17*`, `V21*`, `V27*`, `V29*` | training sequences, scramblers, equalisers | create, process, control | numeric, with a training sequence around |
| V.32 pump | `pump/v32/` | the half-duplex machine: a state, a timer, a countdown of symbols, four rate words, the deferred control | create, process, control (retrain), delete | two ends that step on detections and on countdowns, over a line with errors; retrains that lower the rate |
| V.22bis pump | `pump/v22/` | a protocol routine and its node, a timer, the two rates, blocks without carrier | create, process, delete | two ends that choose 1200 or 2400 by hearing S1 or not; retrains that end by a timeout |
| other classic pumps | `pump/` (Bell 103, V.23) | a carrier detector | create, process | numeric |
| V.34, V.90, V.92 | `pump/` | phases 1 to 4, INFO exchange | create, process | the same, much longer |
| caller ID, voice, duplex, tone and ring detection | `service/`, `voice/` | byte receiver, byte queues, DLE shielding, debounce counters | create, process, control | queue limits, escape bytes across buffers |
| registry and parameters | `core/dp_init.c`, `dp_param.c` | a table filled at start-up | register, get, set | none |
| signal library | `dsp/` | none worth a state | pure functions | numeric |

How they meet on an outgoing call: the host creates the call datapump, which
creates the supervisor, which creates two cadence matchers (busy and dial tone)
and, when it comes to dial, the dialler. Every block of 48 samples goes to
`CALLPROG_Progress`: each sample to the matchers its state's tables name, then
the block to the answer-tone detector, the silence detector or the dialler.
The dialler reports codes (wait for dial tone, wait for an answer, wait for the
bong, done) that the supervisor turns into states, and drives the line's relay
through callbacks in `call.c`. A message becomes a status for the host, and an
answer makes the host replace the call datapump by V.8 or a fax or modem pump,
the classic ones of which run inside the fragment adapter.

Properties that make the parts correct, in the order they are worth checking:
no sample is lost or repeated (adapter); no busy tone is ignored, no call hangs
and none ends silently (supervisor); each digit is dialled as its country wants
and no two run together, and the relay is let go (dialler); a tone is recognised
by a rhythm the line really had (matcher); one status per command, in order, and
no received frame given twice (Class 1); both ends agree or both give up, at one
rate and with one datapump (V.8, V.22bis, V.32).

## 2. Modules

| module | models | composed with |
|---|---|---|
| `DpWrapper` | `core/dp_wrapper.c` | |
| `FixedRC` | `core/FixedRC.c` | what `DpWrapper` takes a converter for is its `WholeBlocks` |
| `CallProg` | `callprog/Callprog.c`; create, delete, block and status of `call/call.c` | takes the dialler as the script of `DialScript`, the matchers' verdicts as inputs |
| `DialScript` | what the supervisor relies on of the dialler | abstract specification |
| `Dialer` | `dialer/Dialer.c`, the gap table of `DialerConfig.c`, the pulse callbacks of `call/call.c` | refines `DialScript` |
| `Cadence` | `callprog/Cadence.c` | |
| `V8Words` | the messages of V.8: `initTxSequence`, the words of `V8Interface.c`, the masking of modulations and the choice of the datapump | |
| `V8Call` | `v8/V8.c`, `V8Interface.c`, `v8.c`: two ends and the line | extends `V8Words` |
| `V32Rates` | the rate words of `pump/v32`: tables, `common_rate`, fall-back | |
| `V32States` | the step functions of `V32org.c` and `V32ans.c`, state by state | extends `V32Rates` |
| `V32Call` | `v32_process`, the TxHdx and RxHdx routines, data mode, retrain: two stations and the line | extends `V32States` |
| `V22Call` | `pump/v22/v22mod.c`, `v22.c`, the create of `V22.c`: two stations and the line | |
| `FaxClass1` | `fax/class1*.c`, `cHDLC*.c`, `cDATA*.c`, `cTOOLS.c`, the queue of `faxvmififo.c`, `fax.c`, `fifo.c` as used | |
| `MCDpWrapper`, `MCFixedRC`, `MCCallProg`, `MCDialer`, `MCCadence`, `MCV8`, `MCV32`, `MCV22`, `MCFaxClass1` | instances for TLC | |
| `DpWrapper_proofs`, `FixedRC_proofs`, `CallProg_proofs`, `Dialer_proofs`, `Cadence_proofs`, `V32Call_proofs`, `V22Call_proofs`, `FaxClass1_proofs` | theorems and the lemmas they rest on | each extends its component |

Definitions whose names end in a hint of a mistake (`WrapLate`, `SilentKept`)
stand beside the definition they vary. Nothing uses them: they are the variants
a slip in the code would give, and each property of a passing run fails when
one of them takes its neighbour's place.

### DpWrapper

A sample is its position in the host's stream, and an answer of the datapump
carries the position of the sample it answers, so that what the host hears can
be compared with what it said. `RunStep` is one turn of the loop in
`dp_wrapper_run`: copy a chunk in, run the datapump if a fragment is complete,
copy a chunk out. `CreateOk` and `CreateFails` are the paths through
`dp_wrapper_create`; `heap` is what has been allocated. The failing paths all end
in `dp_wrapper_delete`, so no property is about them. The converters are a
block in and a block out. `posted` is history: the statuses of the call's blocks
that were not `DPSTAT_OK`.

### FixedRC

A sample is its position in the input since the reset, -1 before it. An output
is the branch and the samples it is computed from; coefficients and products
are left out. The polyphase loop is `BeginTurn`, one `rc_push` per sample, and
`Output` or `Starved`; `TimesFour` and `OverFour` are one turn of the loops of
modes 0 and 1, of whose rings only the positions are kept (a reset clears two
samples of each and leaves the rest as it was, which the model does not show).
`RcFixed_Create` is modelled for the twenty modes that exist; the call sites pass
modes 2 to 7. It does not check its allocations.
`due`, `fed`, `emitted` and `whole` are history.

### CallProg

One block is `Begin`, one `Sample` per sample, and one finishing action:
`ListenForAnswer`, `ListenForSilence`, `LetPass`, or the dialler's
`DialCallingTone`, `DialOn` and `DialStops`. The finishing action ends with
`Commit`, which takes the pending state and re-arms the countdown. Which
matcher fires on which sample, and whether the block had an answer tone or
silence, is chosen freely wherever the code asks. `tables` is the part of the
static tables that `CALLPROG_Dial` rewrites; it is kept from call to call as in
the code. `happened` and `age` are history.

### Dialer and DialScript

`AnalyseDialString` is a function from a country and a string to a grade and
the last character to be sent. `DialerProgress` is a loop; one action is one
turn of it in one of its states, with `at` the place in the buffer, so a tone,
gap or pulse train can be cut by a buffer end anywhere. The relay is
`hook_on`, moved by `IsPulseDialerReady` (`Polled`), which measures time in
polls of 5 ms. `DialScript` is what `CallProg` assumes: codes once each and in
order, the last one repeated.

### Cadence

One step is one interval of the tone filter (or a sample inside one). The line
makes bursts and gaps of given lengths and may be asked about in the middle of
either, since the host creates and resets the detector when it likes. `past` is
the line's own record of them, against which the detector's is compared.
`fixed_pattern` is never set by the code, so `match_fixed` cannot be reached
and is left out; so is the choice of the filter's coefficients.

### V8Words and V8Call

A slot is the time of a ten-bit word: in it an end sends one word (or a tone) and
receives what the other sent last, and the ends take slots in turn. A word is a
value (`MARK`, `CJ`, a call function, a set of modulations); a message is the
sequence `initTxSequence` builds, sent over and over. The line may damage a word,
which then is noise or one of `Forged`. `v8_hs_hunt`, `v8_hs_collect`, `v8_hs_qca1`,
`v8_hs_cj` and `v8_hs_drain` are the receive substates of `V8.c`; `Listen`,
`Examine`, `AnsamFound` and `PlainTone` are the measurement of the answer tone,
whose filters are inputs. `EndSlot` is the rest of `V8Process` and `v8_process`:
the status, the masking of modulations, and the wait before the change of
datapump. The answering end may also be a modem of another make: mute, a plain
tone, or one that answers quick connect.

`v8_hs_collect` compares a word with `w[idx]` before it looks at the bound of
the store (`V8.c:1465`), and counts a match without a limit. `Collect` does the
same: past `word[]` are the other fields of the sequence, which on the receiving
side nothing initialises (`V8Create` takes the object from `sysdep_malloc`
without clearing it), so that `Held` lets each of them be the word heard or not,
and remembers one that was. `wordidx`, whose value is known, is five fields
further than the bound `MaxPast` goes.

Not modelled: `V8SetMessage` and `V8Control` from outside, op_mode 1, the
extension words. Noted while reading: when the call functions differ, the
modulations are left unmasked (`V8Interface.c:611`), so `SamePump` asks for
matching functions; QCA1a is examined twice with measurements that are not
cleared in between.

### V32Rates, V32States and V32Call

A rate word is a set of bits. `V32States` has one definition per state of the two
step functions: what the station sends, what it listens for, the countdown and
the timer. A step is taken from two places that the step function cannot tell
apart, a receive routine that has found what it looks for and the transmit
routine whose countdown ran out, and both can happen in one block. `V32Call` has
one action per receive routine and one per transmit routine; a block of one
station is one receive routine and then transmit routines until its symbols are
spent. A detector may miss what it looks for in any block and never fires on
anything else. Data mode has a carrier detector, a retrain asked for by the other
end or by a low signal-to-noise ratio, and the deferred control, issued a block
late with options that were never filled in (`V32mod.c:70`), hence a free `opt`.

Reading it showed: the limit of a wait is 12 922 symbols, 5.4 seconds and not the
60 the constant says, because the product is cut to 16 bits (`V32.c:735`); a wait
that a receive routine enters is usually ended by the transmit countdown before
its own timeout; two stations of one rate below 14400 name that rate only, so
that a fallback finds none in common; a countdown that ends P makes E start off
the word boundary (`V32org.c:612`), which `EAligned` excepts; O leaves its
countdown to P (`V32org.c:566`) even when it has just run out in the middle of a
block, so that P, like the answering station's C, may ask for 65 thousand symbols;
a countdown that ends H in the middle of a block makes I last into a second one,
with `RxHdxNull`; user bits taken from the host during a retrain are lost.

Not modelled: rate renegotiation (`V32RNG.c`), the local loop (`V32loop.c`), and
`RxHdxError`, which follows a status after which `v32_process` refuses every
block.

### V22Call

A step is one block of 20 ms of one station, and the stations take turns: the
routine that `hdx->protocol` names runs the node `connect_substate`, and
`V22FP_modem` and `v22_process` turn its status into what the host sees. There is
one action per node: `ORG_NODE_0` to `ORG_NODE_6` of `v22_originate`, `ANS_NODE_0`
to `ANS_NODE_4` of `v22_answer`, `NODE_2400A` to `D` and `NODE_1200_12` and `13` of
the two connect routines, `RETRAIN_0` to `7`, and `v22_data` with its
`RetrainRequest`. The line may drop a block; a detector may miss what it looks for
in any block. `patient` says which hosts go on after an ERROR: `v22_process`
answers ERROR to every block of a retrain, so a host that hangs up on the first
one never sees a retrain end. `blind` is history: the last retrain ended by a
timeout, untrained.

Reading it showed: one block without carrier in `connect_2400` starts a retrain
(`v22mod.c:525`); blocks without carrier in `connect_1200` add up and are never
cleared (`v22mod.c:1159`); a calling station that missed S1 connects at 1200
while the other trains for 2400 until `node_deadline`, a minute later; the time
without carrier wraps in its 16 bits after 32 seconds, far past the 0.7 at which
it is reported (the model lets it stand still instead); user words taken from the
host during a retrain are lost.

Not modelled: the answer tone and the silence behind it, and the start in data
mode, for which `v22_create` never asks; the local and the remote loops, which
nothing starts.

### FaxClass1

A step of the pump is one block of 20 ms: `FAX_process` reads what the host has
written, the handler of the current state runs (one action per handler), and the
status becomes a reply. A command is `FAX_class1_command` with everything it tears
down and builds: the data modem, its transmit FIFO, the V.17 saves. The host
writes frames or a page in pieces, with DLE escapes and ETX, may pause where
`Splits` says and abort a receive at any time. The far end brings carriers and
frames, some of them damaged. `modem_direction`, `current_mod` and `last_nul` are
not initialised by the code, so Init takes them from `Garbage`.
`host.stray`, `host.cut`, `host.left`, `got`, `aired` and `passed` are history.

Not modelled: the sample rings and resampling of `FAX_process`, the octets of
received data, `ACCEPT_RATE`, a second buffer in one block, the signal of the
tones. `_hdlc_emulate_receive_state` first copies the lengths of the bank into an
array of twelve, which nothing bounds (`cHDLCrx.c:632`, `class1.h:676`): model,
runs and theorems speak of banks of at most twelve frames, which is all that array
holds.

## 3. What is checked

Passing runs, all exhaustive on their instance.

`dp_wrapper` (9 567 states): `Latency`, the host hears each answer exactly one
fragment late, whatever sizes it calls with; `StatusesReported`; `RunReturns`. A
call of several fragments does lose statuses: `dp_wrapper_run` returns the last
that is not 0, as `dp_wrapper.h` says. `StatusesReported` bounds the loss for
calls of every size: 0 is returned only when no block had anything to report, and
of a call for n samples fewer than n / host_frag statuses are lost, none when n is
at most a fragment; the residue of earlier calls never adds one. Rates are 8000 and 9600 divided by 1600, so a fragment is 5 or 6
samples in rings for 7. Calls of 0 to 14 samples and 26 samples in all take both
cursors through every residue and more than two wraps.

`rate_converter` (3.6 million states): `LastTaps`, every output is made of the
last samples in order, across every compaction of the window; `OutputInstants`,
the n-th output is at the instant n * down / up; `WholeBlocks`, multiples of
`down` with room for what they become give exactly `up` for `down` after every
call, which is what the callers that ignore the count rely on. Eight
modes: both staged ones, both between 8000 and 9600, both between 8000 and
48000, and 24:5 and 10:3, where a turn takes several samples. The window is 7
samples for 3 or 4 taps, so it is compacted every three or four samples. Calls of
0 to 24 samples, 48 in all (two blocks of the longest), limits of 0 (none), too
few, just enough and plenty. A decimator whose limit is exactly what its block
becomes leaves the end of the first block unread; `WholeBlocks` and
`OutputInstants` together say that the counts are whole all the same and that
what is unread in all never exceeds the input of one output.

`call_progress` (3 195 states): `BusyNeverIgnored`, `TimeoutsOnTime`,
`EndIsFinal`, `DialsOnlyWhenAllowed`, `SilentEndsKnown`, `CallEnds`. A second is 2 samples and a block 3, so each timeout can end on the
first, a middle or the last sample of a block; the five scripts hold every code
the dialler reports. Calls follow each other for ever, blind and not blind.

`dialer` (32 002 states): `DialerInv` (types, the gap between digits, and that
an ended string has let go of the relay and the pulse flag), `PulsesRight` (the
number of breaks of a digit and their length), `DialEnds`, and `ScriptFollowed`,
the refinement of `DialScript`. `DialEnds` has one exception, `EndlessTone`: a
string exactly as long as its buffer (the case of `doc_stringinbounds`) has cleared
the low byte of the tone time with its NUL, and the first DTMF digit it comes to
never ends. Three strings of that length are among those of the run, one of tone
digits, one of pulses only, which ends, and one that comes to its tone digit last. All strings of up to two characters of a 14-letter alphabet with
one letter for each case of the analyser, and ten longer ones, in three
countries that between them take every flag and pulse pattern. A buffer is
40 samples, a tone one and a half buffers.

`cadence` (1 168 112 states): `CadenceInv` (types with the bound of the arrays, and
that only one stretch of tone is on record), `Measured`, `RhythmHeard`, `CountedForLife`, `SteadyHeard`.
`CountedForLife` compares the failure count with history: `found`, the cadences
recognised since the object was allocated or reset, and `deaf`, that it has given up
since then; a creation in place (`src/service/Detector.c` does it) clears neither.
Arrays of 7 periods
(the two-period match needs 7), windows of 2 to 3 intervals, six rhythms
(steady, too long, alternating, broken by a long silence), eight configurations,
and two creations, resets or deletions at any moment.

`v8_call` (29 933 states): `CollectInv`, the message an end accepts is one the
other sends although any word or mark of it may have been damaged, and the counts
of the deadlines stay in range; `LeaveTogether`: both ends ask for the same datapump,
the answering one only after the calling one has accepted JM, and the calling end
never changes datapump while the answering one gives up on CJ; `NegotiationEnds`: from
every state on both ends come to a datapump or an error, except for the calling
end in one of two waits, which it must then be in for ever: past its deadline for JM
before it has sent CJ for its whole time, reporting that it sends CM or CJ, or with a far
end that keeps a plain answer tone. Eleven calls: V.34, V.90, V.92, no common
modulation, different functions, and five far ends of other makes. Deadlines of
30 and 34 slots are two or three exchanges of messages of four words, one word
may be damaged, one overload may happen, and the answer comes up to three slots
late, so that each deadline passes in some call and in others does not.
`MsgWords` is 6, so that a message whose mark is lost runs on into the next, eight
words in a store of seven, and `MaxPast` is two fields, more than a single lost mark can
reach. `Forged` is noise and CJ; with forged marks a message can be accepted after one
hearing (section on disagreements).

`v32_call` (349 753 states): `StationInv` (types, and no transmit routine asked
for more than a block outside the answering state C and the calling state P);
`RatesAgree`, two stations in data mode use one rate that both have;
`ConnectBacked`, no connection is reported that the other end does not send at;
`EOnTime`, E is sent whole, starts on a word boundary and finds the other end
looking for it; `HandshakeEnds`; `NotHalfOpen`. A block is 3 symbols and a rate
word 2; other durations keep the order of the source. A limit of 46 symbols and a
round trip of 4 make countdowns end in the middle of a block as well as with it,
which is what takes P and I through their odd cases. One retrain, four pairs of
rates (all rates, all and 12000, 12000 only, none in common). One block without
carrier ends a connection.

`v22_call` (1 017 039 states): `WordsInv` (types; in data mode both directions and
the words exchanged with the host have one rate, whichever way a retrain ended;
a station made for 1200 never goes to 2400); `OneRate`, two stations in data mode
have one rate unless a retrain of one of them ended untrained; `CallSettles`,
every handshake and retrain ends; `NotLeftAlone`, no station stays in data mode
with a peer that is gone or trains for another rate and no host told. All four
pairs of rates and of hosts. Durations keep the order of the source in 1 to 13
blocks: S1 lasts longer than the run that counts, ones longer than it takes to
believe them, and the waits of a retrain longer than its S1. Two dropped
blocks and two of poor quality, so that each rule that starts a retrain applies
and a retrain can be spoilt; detectors may miss anything any number of times.

`fax_send` (321 296 states): `SessionInv`, the data modem in being is the one the
session takes it for after any sequence of commands, and the host is never asked
for more than `tx_fifo` can take until its page is closed (the room of a full
`tx_fifo` is -1, which asks for a whole `host_rx_buf`: it comes only when no byte
counts any more); `SentWhole`, the
frames and pages the host wrote reach the modem whole and in order; `Answered`, every
command is answered unless one of five named things holds it. Two commands, two
messages or pages each, pauses after two and four bytes, a FIFO of 6, a host
buffer of 9 and a frame queue of 9 octets, which one message does not fit; host limit 4 blocks.

`fax_receive` (1 577 648 states): `NoFrameTwice`; `RepliesKnown`, one reply per
command but for the strays named below; `Answered`. Five commands, six frames of
which one may be damaged, five changes of the line and aborts anywhere: the smallest
instance in which a bank of three is read twice, left by another command, filled
again with one frame and read with the old index, which is then past its end. The
superframe has room for two good frames and a bad one, so that it also overflows.

Fairness. Where the host keeps calling (`WF` of `Block`, `Progress`, `Interval`,
and of the loop step and return in `DpWrapper`) it is the host's scheduling: a
modem driver hands over a fragment for every interrupt of its sound device, and
the library's loops run to their end. `CallProg` adds strong fairness of the
dialler's own steps (`DialStops`, `DialCallingTone`), because a buffer may be
full many times before a digit ends; that it does end is what `DialEnds` shows
of the dialler. Nothing is assumed about the line, the detectors or the host's
resets. `SteadyHeard` is about a detector that is left alone from some point on.
`V8Call` and `V32Call` assume that some end goes on (`WF` of `Next`): both ends'
hosts hand over samples at the rate of the line, so the ends take turns, and what
a detector hears or misses stays free. `V22Call` says the same as `WF` of
`Calling`, the passing of the turn, which every step does. `FaxClass1` assumes only that the pump runs
(`WF` of `Pump`); neither host nor far end has to do anything.

`CHECK_DEADLOCK FALSE` is in `MCDialer`, `MCCadence` and both fax instances, where
the host may have made its last call: after an abort, with no detector, or once
the session is deleted, nothing has to happen.

### Disagreements with the documentation

Each of these runs checks one sentence of the repository and finds it violated;
`PROJECT.json` quotes sentence and line.

| run | what happens |
|---|---|
| `doc_stringinbounds` | a string as long as the buffer is accepted, and its NUL goes behind it |
| `doc_blockbudget` | state C of an answering V.32 station lets its countdown go below zero, or P of a calling one is left one below zero, and a transmit routine takes it for 65 thousand symbols |

Smaller ones need no run. Call progress: a bong tone that times out
(`Callprog.c:161`) ends the call with no message, where
`docs/maintainer/call-progress.md:94` expects one; busy heard after dial tone in
one block (`Callprog.c:332`) is reported while the call goes on to dial; a wait for
dial tone that times out in the block whose earlier sample heard dial tone reports
NO DIAL TONE and dials all the same (`run_timeouts` sets the message before
`request_state` refuses the transition), where `Callprog.c:147` says that all six
timeouts end the call; `CALLPROG_Dial` starts every call in state 1, where
`docs/maintainer/call-progress.md:120` says 1 or 2 by mode, and it enables both
detectors for states 1 and 2 of a call that is not blind, where a comment in
`Callprog.c:374` says that no state does. Dialler: an abort during the first pulsed
digit leaves the host's pulse flag set; every break but the first of a digit is one
tick short. Cadence: the silence before the first burst is compared with later
gaps; the give-up count is a count of bursts that start a measuring, each success
has cost one, and only `cadence_reset` or a new object clears it (`Cadence.c:292`,
`CountedForLife`), where `cadence.h:53` speaks of failures in a row to see any tone
and `cadence.h:81` of silent cycles. V.8: a message is compared with the
words counted since the last difference (`V8.c:1456`), so that one damaged into a
mark makes a short message pass after one hearing, where the comment at
`V8.c:1432` asks for a repetition that ran as far; a plain answer tone is waited
for without end (`V8.c:1278`); a calling end whose deadline for JM has passed goes
on to report that it sends CM (`V8Interface.c:428` tests that first), where
`include/dsplib/v8.h:1014` says that JM has a timeout status of its own; that
deadline is not stopped when JM is accepted, so that an end which accepts it late
is held in the same way in the middle of CJ, and the other end gives up on CJ.
`NegotiationEnds` names these waits, and no others. V.22bis: a retrain that is not answered reports
CONNECT 2400 (`v22mod.c:691`), and one whose S1 is not heard out returns to data
with no report (`v22mod.c:606`).

Fax, each visible in a run as an exception some property names: an index into the
superframe that only FRH resets makes a later FRH wait for ever (`class1.c:753`),
having thrown away a bank as long as the index, or having kept one that is shorter and
given nothing of it (`cHDLCrx.c:658`, `StaleIndex`); or the index gives a banked frame after a later live one
(`class1.c:786`); a damaged frame is banked with length 0 and replayed as OK
(`cHDLCrx.c:682`); an abort in the block in which a frame or the carrier ends gets
two replies (`cHDLCrx.c:240`, `class1.c:1017`); a frame that ends in the block of the
limit is queued although the command failed, and goes out with the next one
(`cHDLCtx.c:250`), as does data that comes in the block in which the nulls time out
(`cDATAtx.c:186`); half a DLE escape survives into the next command
(`cTOOLS.c:153`); a page shorter than a block less its padding holds its command for
ever (`cDATAtx.c:293`); a frame too long for the queue is not sent and nobody is
told (`faxvmififo.c:121`); FTS never leaves its state by itself (`class1.c:429`).

## 4. What is proved

TLAPS proves these for every value of the constants that satisfies the named
assumptions (`GeometryAssumption`, `BoundAssumption`, `TimingAssumption`,
`ScriptAssumption`, `DialerAssumption`, `CadenceAssumption`, `ModeAssumption`,
`WindowAssumption`, `CallAssumption`, `V32Assumption`, `V22Assumption`,
`FaxAssumption`), which TLC evaluates on its instances.

Some of them state what no run lists any more because the proof covers it for
every instance: the type invariants of `FixedRC` and `CallProg`, `RingsBalanced`,
`InBounds`, `RingbackUnreachable`.

`DpWrapper_proofs`: `RingInvariant`, `OneFragmentLatency`, `Balanced`,
`FewStatusesLost` (`StatusesReported`).
`Latency` speaks of the samples just copied out and says nothing of the ring, so
it is not inductive. `RingInv` adds where the four cursors are (`Cursors`: the
datapump is in one half and the host in the other, and the host's two cursors
coincide) and what the halves hold (`InputHeld`, `OutputHeld`). The proof has
the two cases of a loop step, with and without a completed fragment; `BlocksCounted`
relates the blocks of a call to its samples: a call's blocks and what it leaves in
the ring are less than a fragment more than it asked for, since that much may have
been in the ring before. The assumption that matters is that a
fragment at the host's rate fits half a ring, which `dp_wrapper.h` asks of the
caller and the code does not check.

`FixedRC_proofs`: `TypeCorrect`, `StaysInBounds`, `WindowIsLastTaps`,
`InstantsExact`. Both action properties speak of the moment of an output. Between
outputs the samples the next one waits for have to be counted in, and within a
turn some of them are pushed already: `InstantInv` says that up * (fed + still
owed) + phase = first + down * emitted, where a push moves one sample from owed
to fed, a starved turn moves nothing, and an output adds `down` on both sides by
division with remainder. `WindowInv` says the same of the window at every moment;
its case is the push that compacts. `CallInv` adds where the loop stands with
its input and its limit. The proofs need the window to be longer than the filter.
`BlocksStayWhole` (`WholeBlocks`) counts calls instead: `WholeInv` says that the
input of the calls so far is a multiple of `down` and that inside a call what is
still owed lags behind the outputs by a multiple of `down` strictly between -`down`
and `down`, which at the end of a call can only be 0.

`CallProg_proofs`: `CallInvariant` and from it `TypesKept`, `BusyIsHeard`,
`TimeoutsExact`, `RingbackNever`, `EndStays`, `DialAllowed`, `SilentEnds`. Most
of `CallInv` is about the middle of a block: what may be pending there (`Asked`),
that a request to dial has heard what its mode wants (`DialAsked`), that the
message of a request to end says so (`EndExplained`), that the busy verdict is
on record (`BusyKept`). `StatesKept` is what makes the comparison with
`last_state` in `request_state` harmless: it lags behind `state` until the first
commit of a call only. One lemma per action shows that it keeps the invariant.

`Cadence_proofs`: `CadenceInvariant`, `CadenceTypes` (no array is overrun and the
two arrays stay in step), `PeriodsTogether`, `FailuresForLife` (`CountedForLife`).
`OneStretch` needs
the current run to be bounded while periods are held, and the types need
`GaveUp`: a detector that has given up is in silence, so its count cannot rise
past `MaxFailures + 1`. `SpentInv` is the account behind `CountedForLife`: every
cadence recognised has cost a failure (`Paid`), the periods on record have cost one
more, and a detector that has given up has more failures than it may.
`MeasuredRight` and `RhythmTrue` (`Measured`,
`RhythmHeard`) compare the detector with the line: `LineInv` says how the run under
way follows the burst or gap under way (`Follows`: one interval less, since an
edge is noticed by the interval after it) and that the periods on record are the
last ones of the line (`Matches`), of which the line remembers at least two.

`Dialer_proofs`: `DialerHolds`, `DialerSafe` (`DialerInv`), `PulsesTrue`
(`PulsesRight`). `DialInv` is the types, that the walk through the string never
passes the last digit the analyser found and owes no gap when it sends one
(`WalkOK`), when pulses are under way and what relay and host's pulse flag then are
(`PulseOK`), and the times of the break under way, which are those of a flash only during a flash (`TimesOK`).
The breaks of a digit are counted by `CountOK`: one for each pulse that is over,
and one for the pulse that has begun. `PulsesTrue` has the hypothesis that a tick is
shorter than a break: every pulse after the first starts with a tick counted
already, so that with a shorter break only the first would open the line. The
repository's tests use breaks of 67 ms and ticks of 5. `ScriptKept`
(`ScriptFollowed`) is the refinement: the codes still to be reported are those of
`Script`, a table over the positions of the string that is read off the modifiers
alone, and `ScriptInv` places the states of the digit under way in it. Each step
either reports the head of the table's entry and moves to the next position with
one, or passes a character that reports nothing (`SkipsQuietly`), for which the two
entries are equal. That the table exists is the recursion's own least
counterexample. `ScriptsWellFormed` says that every script is one the supervisor
can live with: not empty, and ended by a code that ends the dialling.

`V32Call_proofs`: `StationSafe` (`StationInv`). What can go wrong is a countdown
below zero that a routine of `Counting` takes for symbols. `Rested` says that
there is none but in the two states that are left another's, and is not inductive
by itself: the arms of D and F do nothing until a count of their own has passed, so
that their countdown must not run out first. `Dwelt` ties the two: countdown and
count together stay at the limit but for a block, of which the symbols still owed
are left out; this is where `V32Assumption` needs the limit to be longer than the
72 and the 95 symbols and a block (it is 12 922). `Placed` says which routines run
in which states, and `Unsent` that no more of E is sent than there is of it. There
is one lemma for each group of states, with one case for each arm, and it covers
both callers of the step function: `Ready` is a detection, with the block still to
be sent, or a countdown that has run out.
`RatesSettled` (`RatesAgree`) is about both stations and the line between them. Once
a station is in data mode nothing compares the rates any more, so `RatesInv` follows
each from the word it was settled by. For one station: what it sends and looks for,
and the rates it has set, agree with its registers in every state from R3 on
(`OrgCoded`, `AnsCoded`); one that has no rate in common goes on through its states
all the same (`Unfit`), but never connects, because the status it has posted is
delivered before it can enter data mode (`Doomed`: its B1 is longer than a block,
the part `Sym < Scaled(128)` of `V32Assumption`; a block is 12 symbols). For the
line: E of the calling station is there only while that waits for the other's, and
both carry what their registers say (`OrgLine`, `AnsLine`). For the pair: while the
calling station has a rate that it has not sent yet, or whose E is on the line, the
answering one is not settled and has that rate too (`Shared`), so that when it hears
E it must come to the same (`PairRates`). `Fresh` is what makes that inductive: a
block is heard exactly once, by the other's next turn. TLC checked `RatesInv` on an
instance with every pair of rates before it was proved.
`ConnectionsBacked` (`ConnectBacked`) needs the countdowns of both stations. A
station reports a connection when its B1 ends, and compares its rate with that of
the other at that moment: the calling one must not report before the answering one
has set its own, and the answering one not after the calling one has left data mode
for a retrain. `PaceInv` says why. A connection is posted only in the block that
ends the handshake (`SidePace`). The answering station's B1 starts in the block in
which its E is sent, and the calling one's when E is heard, in its next receive
routine (`EndPace`), so that from then on the two countdowns end within a block of
each other (`InStep`, `OrgPace`); a calling station that is through has not started
again before the answering one is through too (`Caught`, `AnsPace`). `After` is the
countdown as it will stand at the end of the station's block, in which those
comparisons do not depend on how many symbols of the block have been sent. It rests
on `RatesIInv`, whose lemmas say what a routine leads to (`Listened`, `SentOn`,
`Onward`); TLC checked `PaceInv` on the instance of `v32_call` before it was proved.
`EOnBoundary` and `AnsweringEWhole` are two parts of `EOnTime`. A rate word is sent
over and over with no note of where it is; the code computes the wait for E from
countdowns alone, those of O and P, of Q and of R in the calling station, with what
P left kept in `s46`, and that of X2 in the answering one (`V32org.c:612`).
`AlignInv` says that this is right while it happens: in each of those states the
symbols sent beyond whole words are what the countdown has lost, modulo a word, and
in Z what was sent of E and what is left of the countdown are one word. A routine
sends as many symbols as the countdown loses, except in the block in which it ends,
where `Count` is the rest of it (its 16 bits hold a block, the part `Sym < 65536` of
`V32Assumption`), so a countdown below zero says nothing and `AlignInv` is about
those that are not. It needs `Rested`, which rules them out where a word is awaited.
TLC checked `AlignInv` on the instance of `v32_call` and on one with words of a whole
block before it was proved. The rest of `EOnTime` stays with TLC, `EAwaited` and the
`EWhole` of the calling station: that an E finds the other looking for it, and that
no E is heard before state T has sent its own, depends on how the waits of the two
relate from the first tone on.

`V22Call_proofs`: `WordsSafe` (`WordsInv`), `RatesMeet` (`OneRate`). `WordsInv` is
inductive as it is checked: beside the types it has the rates a station may have
(`RatesOwn`), that a station takes the road to 2400 only if both were made for it
(`RoadAgreed`), and that it has trained there only with a peer on that road
(`RoadHeard`). One lemma per node; `Goes` is what the block of a node owes.

`FaxClass1_proofs`: `SessionSafe` (`SessionInv`), `FramesOnce` (`NoFrameTwice`).
`FullInv` is `SafeInv` and `FramesInv`. `SafeInv` adds to `SessionInv` the types of
the queues and of the modem (`ModemOK`) and that a page starts with the rate of its
command and an empty `tx_fifo` (`PageOK`); the argument for the room is that, until
it is closed, a page grows by no more than the host was asked for. `FramesInv` numbers the frames: those given to the
host, those in the bank from the current index on and those to come never share a
number, so that an index left over from another command can give a frame late but
not twice. One lemma per handler and per command.
`RepliesRight` (`RepliesKnown`): a reply comes unasked, or is left over, only
through a state that is none of the command's or a status that was delayed past its
end. `RepliesInv` says that the state of the session always serves the command under
way, that a status is pending only in a state that reports nothing of itself (or
because the command before left it: `stray`), and that a session whose host is in
command mode is at rest. The states in which frames are sent need more: they rest
only when the host has nothing left to write, and `FrameTurn` says whose turn it is.
Outside `PREAMBLE` and `BETWEEN_TX` the host has written nothing that is unread;
inside them what it has begun to write ends the frame in the scratch buffer
(`Closes`). For that the lemmas on escapes say that a message read in any
pieces, however many bytes each block takes, is the message (`UnescapeSplit`,
`EscapedCloses`). They are proved of recursive functions, whose values exist and
are unique by least counterexample. The theorem has the hypothesis `PlainStart`: a
frame does not begin with DLE or ETX. It is needed because a command does not clear
`dle_seen`: after half an escape such an octet would be taken for the end of a
frame. Every T.30 frame begins with the HDLC address 0xFF.
`SentRight` (`SentWhole`) rests on `RepliesInv`: only whose turn it is keeps a
frame from being overwritten in the scratch buffer. `SentInv` follows each byte from
the host to the line, separately for frames and for the page. `FrameFlow`: what V.21 has
been given is what the queue held before and then the frames that fit
(`Fitting`); of the frame that is not over, what is unread closes to the message the
host began when it is heard behind the scratch buffer. `PageFlow`: what the data modem and
`tx_fifo` have of the page is a beginning of it and its padding, and the rest,
heard behind that, closes to the page; `RoomKept` is what makes `FIFO_write` keep all
of it. `Drained` says that the queue is empty whenever a frame can be put there. For a
frame left over from an earlier command that needs the preamble to last two
blocks at least, which the theorem has as a hypothesis: the code's 8000 samples are
50 blocks. TLC checked `RepliesInv` on both fax instances, and `SentInv` on that of
`fax_send`, before they were
proved.

Only model-checked: liveness (`RunReturns`, `CallEnds`, `DialEnds`, `SteadyHeard`,
`HandshakeEnds`, `NotHalfOpen`, `CallSettles`, `NotLeftAlone`, `NegotiationEnds`,
`Answered`), since fairness is out of the prover's reach;
of `EOnTime` of V.32, `EAwaited` and the calling station's `EWhole`; all of `V8Call`,
whose messages are sequences that are compared piece by piece.

## 5. What is left out, and the plan

Left out for good: filters, equalisers, echo cancellers, oscillators, scramblers
and their tables (numeric, and tested bit-exactly by the repository), which are by
far the most lines of `pump/v34`, `pump/v90`, `fax/V*` and `dsp/`; debug output; the
allocator except where a failing create matters.

Next, in this order:

1. Proofs: the rest of `EOnTime` of V.32, which needs the waits of the two
   stations from ranging on; `CollectInv` and `LeaveTogether` of `V8Call`.
2. `call_run`: the byte rings of the call datapump, with an abstract
   one-block delay that both it and `DpWrapper` implement.
3. Two supervisors alive at once, which share the static tables.
4. Rate renegotiation of V.32.
5. The voice queue with its escape bytes; the caller-ID byte receiver.
6. Phases 1 to 4 of V.34. `v34handshak` is one function of five thousand lines
   in which control and signal processing alternate; its INFO exchange and its
   error recovery are the parts a model could reach.
