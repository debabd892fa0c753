------------------------------ MODULE FaxClass1 ------------------------------
(***************************************************************************)
(* src/fax: the fax Class 1 session of one call, from the command of the   *)
(* host (FAX_class1_command) through the state machine of class1.c and the *)
(* frame and data handlers (cHDLCtx.c, cHDLCrx.c, cDATAtx.c, cDATArx.c) to *)
(* the reply that FAX_process returns.                                     *)
(*                                                                         *)
(* A step of the pump is one block of 20 ms: FAX_process reads what the    *)
(* host has written, fax_class1_progress calls the handler of the current  *)
(* state, and the status becomes a reply.  There is one action for each    *)
(* handler.  Times are in blocks.  The modulations are external: a V.21    *)
(* receiver shows a carrier and now and then completes a frame, a data     *)
(* modem connects, and a transmitter takes what a block asks for.          *)
(***************************************************************************)
EXTENDS Integers, Sequences, FiniteSets, SequencesExt

CONSTANTS
  SilenceBefore,  \* blocks of silence before the preamble (400 samples)
  PreambleMin,    \* blocks of flags before the first frame (8000 samples)
  PreambleMax,    \* blocks the host has to give one (40000 samples)
  HostLimit,      \* 250: blocks without data between frames, or in nulls
  S7,             \* s7_timeout, in blocks
  AnswerTone,     \* answer_tone_blocks
  ScrmSilence,    \* silence before the training of a data modem
  Quiet,          \* the argument of FTS and FRS, in blocks
  Train,          \* blocks of training after which a data modem connects
  Codes,          \* the rate codes of the data modems
  BytesPerBlock,  \* tx_bytes_per_block of a rate code
  EtxPad,         \* CLASS1_ETX_PAD_ELEMENTS
  FifoSize,       \* the size of tx_fifo
  HdlcWant,       \* 0x200: bytes asked of the host in an HDLC state
  HostBuffer,     \* 0x1000: the bytes host_rx_buf holds
  QueueSize,      \* the fifo_size of the V.21 transmitter
  FrameLen,       \* octets of a received frame
  SuperSize,      \* elements of superframe
  Messages,       \* the frames the host sends
  Pages,          \* the pages it sends
  Garbage,        \* what the fields that are never initialised may hold
  MaxFrames,      \* bound: frames that reach the V.21 receiver
  Damaged,        \* bound: the frames that may arrive damaged
  MaxTurns,       \* bound: changes of the line
  MaxCommands,    \* bound: commands of the host
  MaxSent,        \* bound: frames or pages the host sends for a command
  Splits          \* bound: where the host may pause in what it writes

NUL == 0
ETX == 3
DLE == 16
CAN == 24

\* The modulation of a rate code: 0 V.27ter, 1 V.29, 2 V.17.
ModOf(code) == IF code \in {24, 48} THEN 0 ELSE IF code \in {72, 96} THEN 1 ELSE 2

ASSUME FaxAssumption ==
  /\ {SilenceBefore, PreambleMin, PreambleMax, HostLimit, AnswerTone, ScrmSilence,
      Quiet, Train, EtxPad, FifoSize, HdlcWant, HostBuffer, QueueSize, FrameLen,
      SuperSize}
       \subseteq Nat \ {0}
  /\ {S7, MaxFrames, MaxTurns, MaxCommands, MaxSent} \subseteq Nat
  /\ Splits \subseteq Nat \ {0} /\ Damaged \subseteq Nat
  /\ Codes \subseteq {24, 48, 72, 73, 74, 96, 97, 98, 121, 122, 145, 146}
  /\ BytesPerBlock \in [Codes -> Nat \ {0}]
  /\ \A m \in Messages : m \in Seq(0..255) /\ Len(m) >= 3
  /\ \A p \in Pages : p \in Seq(0..255)
  /\ Garbage \subseteq [dir : { "none", "rx", "tx" }, mod : 0..2, lastNul : BOOLEAN]

VARIABLES
  c,        \* struct fax_class1
  modem,    \* modem_vmi and vmi_b: the data modem in being, or NoModem
  saves,    \* the coefficient saves of V.17 receivers that are allocated
  fifo,     \* tx_fifo, or NoFifo
  queue,    \* frames in the V.21 transmitter, the first one on the air
  super,    \* superframe: frames banked while the host was not listening
  fx,       \* host_rx_enable and host_rx_want of struct fax_ctx
  host,     \* the host: its mode, its command, what it has still to write
  tty,      \* bytes the host has written and the pump has not read
  line,     \* the signal from the far end, and what it has still in store
  reply,    \* what the last step told the host
  got,      \* history: frames handed to the host
  aired,    \* history: frames V.21 has sent since the command
  passed    \* history: bytes given to the data modem since the command

lower == << modem, saves, fifo, queue >>
vars == << c, lower, super, fx, host, tty, line, reply, got, aired, passed >>

NoModem == [dir |-> "none", mod |-> 0]
NoFifo == << -1 >>
NoFrame == [id |-> 0, good |-> FALSE]
Commands == { "TH", "RH", "TM", "RM", "TS", "RS" }

HdlcTx == { "SILENCE_BEFORE_PREAMBLE", "PREAMBLE", "SEND_HDLC", "BETWEEN_TX" }
HdlcRx == { "LOOK_HDLC", "RECEIVE_HDLC", "BETWEEN_RX", "EMULATE" }
DataTx == { "SILENCE_BEFORE_ONES", "ONES", "TX_DATA", "TX_NULLS" }
DataRx == { "RX_LOOK", "RX_DATA" }
States == HdlcTx \cup HdlcRx \cup DataTx \cup DataRx
            \cup { "IDLE", "ANSWER_TONE", "SEND_SILENCE", "RECEIVE_SILENCE" }
Statuses == { "NO_MESSAGE", "OK", "ERROR", "CONNECT", "NO_CARRIER", "NO_REPLY" }

---------------------------------------------------------------------------
(* Escapes: _handle_hdlc_input and _handle_data_input share dle_seen.       *)

\* A byte b of the host: DLE DLE is a DLE, DLE ETX ends the message, and any
\* other byte after a DLE is dropped with it.  s is dle_seen, whether the
\* message is over, and what was kept of it; bytes behind its end are not read.
Heard(s, b) ==
  IF s.done THEN s
  ELSE IF s.dle
  THEN [ dle |-> FALSE, done |-> b = ETX, buf |-> IF b = DLE THEN Append(s.buf, DLE) ELSE s.buf ]
  ELSE [ dle |-> b = DLE, done |-> FALSE, buf |-> IF b = DLE THEN s.buf ELSE Append(s.buf, b) ]

\* The bytes in of the host, heard one after the other: Heard of p, what the
\* bytes before left, from a set of one so that TLC evaluates p once.
Unescape(s, in) ==
  LET after[i \in 0..Len(in)] ==
        IF i = 0 THEN s
        ELSE CHOOSE t \in { Heard(p, in[i]) : p \in { after[i - 1] } } : TRUE
  IN after[Len(in)]

\* What a host writes for a message: its DLEs doubled, and DLE ETX.
Escaped ==
  [ m \in Messages \cup Pages |->
      LET said[i \in 0..Len(m)] ==
            IF i = 0 THEN << >>
            ELSE said[i - 1] \o (IF m[i] = DLE THEN << DLE, DLE >> ELSE << m[i] >>)
      IN said[Len(m)] \o << DLE, ETX >> ]

\* CLASS1_FLAG_FRAME_END_LATCH: the final bit of the control octet.
Final(f) == (f[2] \div 16) % 2 = 1

\* The elements of superframe that frames take.
Elements(s) == FoldLeft(LAMBDA n, f : n + 1 + (IF f.good THEN FrameLen ELSE 0), 0, s)

---------------------------------------------------------------------------
(* The block: what fax_class1_progress and FAX_process do around a handler. *)

\* What FAX_process reads from the host before the handler runs.  The room in
\* a full tx_fifo comes out as -1, which the unsigned comparison with the size
\* of host_rx_buf turns into all of it.
Asked == IF ~fx.enable THEN 0
         ELSE IF fx.want \in 0..HostBuffer THEN fx.want ELSE HostBuffer
Taken == SubSeq(tty, 1, IF Asked < Len(tty) THEN Asked ELSE Len(tty))
Unread == SubSeq(tty, Len(Taken) + 1, Len(tty))

Ends(status) == status \in { "OK", "ERROR", "NO_CARRIER" }

\* The host reads a reply: a final one ends its command, and what it had not
\* yet written of a message is not data any more.  CONNECT asks it for the
\* next frame, or for the page.
HostHears(status) ==
  IF host.mode = "command" \/ ~(Ends(status) \/ status = "CONNECT")
  THEN host' = host /\ tty' = Unread
  ELSE IF status = "CONNECT"
  THEN /\ host' = [host EXCEPT !.mode = "online",
                     !.owes = host.cmd = "TH" \/ (host.cmd = "TM" /\ host.mode = "waiting")]
       /\ tty' = Unread
  ELSE /\ host' = [host EXCEPT !.mode = "command", !.owes = FALSE, !.script = << >>,
                     !.sent = IF host.cmd = "TH" /\ (host.script # << >> \/ Unread # << >>)
                              THEN Front(@) ELSE @]
       /\ tty' = << >>

\* The rest of the block, after a handler that left the context d, the status
\* st, the frames out for the host, and want as the bytes it would take next:
\* a delayed status that is due replaces the handler's own, data goes to the
\* host only if it was listening when the block began, and the status decides
\* whether it listens from now on.
Block(d, st, out, want) ==
  \E e \in { d } : \E status \in { IF e.dcount = 1 THEN e.delayed ELSE st } :
    /\ c' = [e EXCEPT !.prev = e.state, !.dcount = IF @ > 0 THEN @ - 1 ELSE 0]
    /\ fx' = [ want |-> want,
               enable |-> status = "CONNECT" \/ (status = "NO_MESSAGE" /\ fx.enable) ]
    /\ got' = IF fx.enable THEN got \o out ELSE got
    /\ reply' = IF status \in { "NO_MESSAGE", "NO_REPLY" } THEN "" ELSE status
    /\ HostHears(status)

Running(s) == host.mode # "gone" /\ c.state = s

Delay(d, status) == [d EXCEPT !.dcount = 2, !.delayed = status]
To(d, s) == [d EXCEPT !.state = s]
Restart(d, s) == [d EXCEPT !.state = s, !.countdown = 0]

Carrier == line.sig = "v21"

\* A V.21 frame completes in this block, or none does.  The last flags of a
\* frame may be followed by the end of the carrier in the same block.
Arrivals ==
  { NoFrame } \cup
  IF line.sig \in { "v21", "tail" } /\ line.frames < MaxFrames
  THEN { [id |-> line.frames + 1, good |-> g] :
           g \in IF line.frames + 1 \in Damaged THEN BOOLEAN ELSE { TRUE } }
  ELSE {}

Arrive(f) == line' = IF f = NoFrame THEN line ELSE [line EXCEPT !.frames = f.id]

---------------------------------------------------------------------------
(* The plain states of class1.c.                                           *)

Idle ==
  /\ Running("IDLE")
  /\ Block(c, "NO_MESSAGE", << >>, Len(Taken))
  /\ UNCHANGED << lower, super, line, aired, passed >>

\* cHDLCtx_preamble_state_init: the V.21 transmitter restarts, but what is in
\* its queue stays.
PreambleInit(d) ==
  [d EXCEPT !.state = "SILENCE_BEFORE_PREAMBLE", !.countdown = 0, !.frame = << >>,
            !.done = FALSE, !.latch = FALSE]

AnswerToneState ==
  /\ Running("ANSWER_TONE")
  /\ Block(IF c.countdown < AnswerTone THEN [c EXCEPT !.countdown = @ + 1] ELSE PreambleInit(c),
           "NO_MESSAGE", << >>, Len(Taken))
  /\ UNCHANGED << lower, super, line, aired, passed >>

\* The state does not change at the end: the count goes on below zero, where
\* the model holds it at -1.
SendSilence ==
  /\ Running("SEND_SILENCE")
  /\ Block([c EXCEPT !.countdown = IF @ >= 0 THEN @ - 1 ELSE -1],
           IF c.countdown = 1 THEN "OK" ELSE "NO_MESSAGE", << >>, Len(Taken))
  /\ UNCHANGED << lower, super, line, aired, passed >>

ReceiveSilence ==
  /\ Running("RECEIVE_SILENCE")
  /\ IF Taken # << >>
     THEN Block(To(c, "IDLE"), "OK", << >>, Len(Taken))
     ELSE IF line.sig \in { "v21", "data" }
     THEN Block([c EXCEPT !.quiet = 0], "NO_MESSAGE", << >>, 5)
     ELSE LET q == c.quiet + 1 IN
          IF q >= c.countdown
          THEN Block([To(c, "IDLE") EXCEPT !.quiet = q], "OK", << >>, 0)
          ELSE Block([c EXCEPT !.quiet = q], "NO_MESSAGE", << >>, 0)
  /\ UNCHANGED << lower, super, line, aired, passed >>

---------------------------------------------------------------------------
(* cHDLCtx.c: sending frames on V.21.                                      *)

\* faxvmi_write_frame refuses a frame that its queue has no room for.
Load ==
  LET used[i \in 0..Len(queue)] == IF i = 0 THEN 0 ELSE used[i - 1] + Len(queue[i]) + 3
  IN used[Len(queue)]
Accepts(f) == Load + Len(f) + 3 < QueueSize

\* A block of the V.21 transmitter: the frame on the air ends, and the frame
\* f is queued when there is one.
Transmit(new, f) ==
  /\ queue' = (IF queue = << >> THEN << >> ELSE Tail(queue))
                \o (IF new /\ Accepts(f) THEN << f >> ELSE << >>)
  /\ aired' = IF queue = << >> THEN aired ELSE Append(aired, Head(queue))

\* _handle_hdlc_input on the bytes of this block: the frame in the scratch
\* buffer, and the latch of a final frame when it ends.
HdlcInput(d, in) ==
  LET u == Unescape([dle |-> d.dle, done |-> FALSE, buf |-> d.frame], in) IN
  [d EXCEPT !.dle = u.dle, !.frame = u.buf, !.done = u.done,
            !.latch = @ \/ (u.done /\ Final(u.buf))]

SilenceBeforePreamble ==
  /\ Running("SILENCE_BEFORE_PREAMBLE")
  /\ IF c.countdown >= SilenceBefore
     THEN Block([To(c, "PREAMBLE") EXCEPT !.countdown = 1], "CONNECT", << >>, Len(Taken))
     ELSE Block([c EXCEPT !.countdown = @ + 1], "NO_MESSAGE", << >>, Len(Taken))
  /\ UNCHANGED << lower, super, line, aired, passed >>

\* The host has until PreambleMax to end a frame.  A frame that ends in the
\* very block of the limit is queued although the command fails.
Preamble ==
  /\ Running("PREAMBLE")
  /\ \E in \in { Taken } : \E d \in { IF in # << >> THEN HdlcInput(c, in) ELSE c } :
     LET go == d.countdown >= PreambleMin /\ d.done
         late == d.countdown >= PreambleMax
     IN /\ Block([d EXCEPT !.countdown = @ + 1,
                           !.state = IF late THEN "IDLE" ELSE IF go THEN "SEND_HDLC" ELSE @],
                 IF late THEN "ERROR" ELSE "NO_MESSAGE", << >>, HdlcWant)
        /\ Transmit(go, d.frame)
  /\ UNCHANGED << modem, saves, fifo, super, line, passed >>

\* Variant: the scratch buffer is not emptied after a frame.
SendHdlcKeepsBuffer ==
  /\ Running("SEND_HDLC")
  /\ Transmit(FALSE, c.frame)
  /\ Block(IF queue' = << >> THEN Restart(c, "BETWEEN_TX") ELSE c,
           "NO_MESSAGE", << >>, HdlcWant)
  /\ UNCHANGED << modem, saves, fifo, super, line, passed >>

\* Bytes of the host in this state are read and dropped.
SendHdlcBuffer ==
  /\ Running("SEND_HDLC")
  /\ Transmit(FALSE, c.frame)
  /\ Block(IF queue' = << >> THEN [Restart(c, "BETWEEN_TX") EXCEPT !.frame = << >>] ELSE c,
           "NO_MESSAGE", << >>, HdlcWant)
  /\ UNCHANGED << modem, saves, fifo, super, line, passed >>

\* After a final frame the command ends; after another one the host is asked
\* for the next.  A frame that ends in the block of the limit is queued here
\* too.
SendHdlcBetween ==
  /\ Running("BETWEEN_TX")
  /\ \E in \in { Taken } :
     \E d \in { IF in # << >> /\ c.countdown > 1 THEN HdlcInput(c, in)
                ELSE [c EXCEPT !.done = FALSE] } :
     LET over == c.countdown = 2 /\ c.latch
         late == c.countdown + 1 > HostLimit
     IN /\ Block([d EXCEPT !.countdown = @ + 1, !.done = c.done,
                    !.state = IF late THEN "IDLE" ELSE IF d.done THEN "SEND_HDLC"
                              ELSE IF over THEN "IDLE" ELSE @],
                 IF late THEN "ERROR" ELSE IF over THEN "OK"
                 ELSE IF c.countdown = 2 THEN "CONNECT" ELSE "NO_MESSAGE",
                 << >>, HdlcWant)
        /\ Transmit(d.done, d.frame)
  /\ UNCHANGED << modem, saves, fifo, super, line, passed >>

---------------------------------------------------------------------------
(* cHDLCrx.c: receiving frames on V.21.                                    *)

\* _cHDLCrx_init_from_idle: a delayed status that is pending is dropped, and
\* the state changes only for V.21's own code.
HdlcRxInit(d, code) ==
  [d EXCEPT !.countdown = 0, !.dcount = 0, !.state = IF code = 3 THEN "LOOK_HDLC" ELSE @]

\* Variant: the wait for a carrier has no end.
LookHdlcForEver ==
  /\ Running("LOOK_HDLC")
  /\ IF Taken # << >> THEN Block(To(c, "IDLE"), "OK", << >>, 5)
     ELSE IF Carrier
     THEN Block([Restart(c, "RECEIVE_HDLC") EXCEPT !.cng = FALSE], "CONNECT", << >>, 5)
     ELSE Block(c, "NO_MESSAGE", << >>, 5)
  /\ UNCHANGED << lower, super, line, aired, passed >>

\* A byte of the host aborts: in all receiving states it replaces what the
\* block had for the host by an empty message.
LookHdlc ==
  /\ Running("LOOK_HDLC")
  /\ LET late == S7 # 0 /\ c.countdown + 1 > S7 /\ ~c.cng
         d == IF Carrier THEN [Restart(c, "RECEIVE_HDLC") EXCEPT !.cng = FALSE]
              ELSE [c EXCEPT !.state = IF late THEN "IDLE" ELSE @,
                             !.countdown = IF @ <= S7 THEN @ + 1 ELSE @]
     IN IF Taken # << >>
        THEN Block(To(d, "IDLE"), "OK", << >>, 5)
        ELSE Block(d, IF Carrier THEN "CONNECT" ELSE IF late THEN "NO_CARRIER"
                      ELSE "NO_MESSAGE", << >>, 5)
  /\ UNCHANGED << lower, super, line, aired, passed >>

\* Variant: the loss of the carrier is reported at once as well.
HdlcReceiveReports ==
  /\ Running("RECEIVE_HDLC")
  /\ \E f \in Arrivals :
       LET d1 == IF Carrier THEN c ELSE Delay(To(c, "IDLE"), "NO_CARRIER")
           d2 == IF f = NoFrame THEN d1
                 ELSE Delay(To(d1, "BETWEEN_RX"), IF f.good THEN "OK" ELSE "ERROR")
       IN /\ Block(d2, IF ~Carrier THEN "NO_CARRIER" ELSE "NO_MESSAGE",
                   IF f.good THEN << f >> ELSE << >>, 5)
          /\ Arrive(f)
  /\ UNCHANGED << lower, super, aired, passed >>

\* Variant: a frame is banked although the host has it.
HdlcReceiveBanks ==
  /\ Running("RECEIVE_HDLC")
  /\ \E f \in Arrivals :
       /\ Block(IF f # NoFrame THEN Delay(To(c, "BETWEEN_RX"), IF f.good THEN "OK" ELSE "ERROR")
                ELSE IF Carrier THEN c ELSE Delay(To(c, "IDLE"), "NO_CARRIER"),
                IF c.prev = "BETWEEN_RX" THEN "CONNECT" ELSE "NO_MESSAGE",
                IF f.good THEN << f >> ELSE << >>, 5)
       /\ super' = IF f = NoFrame THEN super ELSE Append(super, f)
       /\ Arrive(f)
  /\ UNCHANGED << lower, aired, passed >>

\* A frame that ends decides the delayed status even when the carrier is lost
\* in the same block.
HdlcReceive ==
  /\ Running("RECEIVE_HDLC")
  /\ \E f \in Arrivals :
       LET d1 == IF Carrier THEN c ELSE Delay(To(c, "IDLE"), "NO_CARRIER")
           d2 == IF f = NoFrame THEN d1
                 ELSE Delay(To(d1, "BETWEEN_RX"), IF f.good THEN "OK" ELSE "ERROR")
       IN /\ IF Taken # << >>
             THEN Block(To(d2, "IDLE"), "OK", << >>, 5)
             ELSE Block(d2, IF c.prev = "BETWEEN_RX" THEN "CONNECT" ELSE "NO_MESSAGE",
                        IF f.good THEN << f >> ELSE << >>, 5)
          /\ Arrive(f)
  /\ UNCHANGED << lower, super, aired, passed >>

\* A frame that comes while the host is not listening is banked, a bad one as
\* a record of length zero, and skipped when the superframe is full.
HdlcReceiveBetween ==
  /\ Running("BETWEEN_RX")
  /\ \E f \in Arrivals :
       LET room == f # NoFrame /\ Elements(Append(super, f)) <= SuperSize
           d == IF Carrier THEN c ELSE To(c, "IDLE")
       IN /\ IF Taken # << >>
             THEN Block(To(d, "IDLE"), "OK", << >>, 5)
             ELSE Block(d, IF Carrier THEN "NO_MESSAGE" ELSE "NO_REPLY", << >>, 5)
          /\ super' = IF room THEN Append(super, f) ELSE super
          /\ Arrive(f)
  /\ UNCHANGED << lower, aired, passed >>

\* The host gets the next banked frame after two blocks.  superframe_read_idx
\* counts the frames already given; when it reaches their number the bank is
\* emptied and the wait starts again.
HdlcEmulate ==
  /\ Running("EMULATE")
  /\ LET n == Len(super)
         due == c.superCount <= 0
         give == due /\ c.superIdx < n
         next == IF give THEN c.superIdx + 1 ELSE c.superIdx
         d == IF give THEN [Delay(To(c, "IDLE"), "OK") EXCEPT !.superIdx = next]
              ELSE IF due THEN To(c, "IDLE") ELSE c
     IN /\ Block([d EXCEPT !.superCount = IF next = n THEN 2 ELSE @ - 1,
                           !.superIdx = IF next = n THEN 0 ELSE @],
                 IF due /\ ~give THEN "NO_REPLY"
                 ELSE IF c.prev # "EMULATE" /\ c.superIdx < n THEN "CONNECT" ELSE "NO_MESSAGE",
                 IF give THEN << super[next] >> ELSE << >>, Len(Taken))
        /\ super' = IF next = n THEN << >> ELSE super
  /\ UNCHANGED << lower, line, aired, passed >>

---------------------------------------------------------------------------
(* cDATAtx.c and cDATArx.c: the data modems.                               *)

Bpb == BytesPerBlock[c.code]

\* _handle_data_input: after DLE ETX a page is padded with zeros and no byte
\* of the host counts any more.
DataInput(in) ==
  LET u == Unescape([dle |-> c.dle, done |-> FALSE, buf |-> << >>], in) IN
  IF c.closed \/ in = << >> THEN [d |-> c, bytes |-> << >>]
  ELSE [ d |-> [c EXCEPT !.dle = u.dle, !.closed = u.done, !.lastNul = Last(in) = NUL],
         bytes |-> u.buf \o (IF u.done THEN [i \in 1..EtxPad |-> NUL] ELSE << >>) ]

\* FIFO_write and FIFO_read.
Written(f, b) ==
  f \o SubSeq(b, 1, IF Len(b) > FifoSize - Len(f) THEN FifoSize - Len(f) ELSE Len(b))
Read(f) == SubSeq(f, 1, IF Len(f) > Bpb THEN Bpb ELSE Len(f))
\* Variant: the read index ends one too far.
RestSkips(f) == SubSeq(f, Len(Read(f)) + 2, Len(f))
Rest(f) == SubSeq(f, Len(Read(f)) + 1, Len(f))

\* The bytes of the host go into tx_fifo, and a block of it to the modem.
Feed(f) ==
  /\ fifo' = Rest(f)
  /\ passed' = passed \o Read(f)
Room == FifoSize - Len(fifo') - 1

SilenceBeforeOnes ==
  /\ Running("SILENCE_BEFORE_ONES")
  /\ Block([c EXCEPT !.countdown = @ + 1,
                     !.state = IF c.countdown + 1 >= ScrmSilence THEN "ONES" ELSE @],
           "NO_MESSAGE", << >>, 0)
  /\ UNCHANGED << lower, super, line, aired, passed >>

\* The host is asked for data from the first block on; data goes out from the
\* second block after the modem connects, once there is a whole block of it.
ScrambledOnes ==
  /\ Running("ONES")
  /\ \E in \in { Taken } : \E u \in { DataInput(in) } : \E f \in { Written(fifo, u.bytes) } :
     LET on == c.enabled \/ c.connect = 1
         ready == IF in = << >> THEN c.ready ELSE Len(f) >= Bpb
         link == IF c.connect > 0 THEN c.connect - 1
                 ELSE IF c.connect = -1 /\ c.counter + 1 >= Train THEN 2 ELSE c.connect
     IN /\ IF on /\ ready THEN Feed(f) ELSE fifo' = f /\ passed' = passed
        /\ Block([u.d EXCEPT !.counter = IF @ < Train THEN @ + 1 ELSE @, !.enabled = on,
                              !.connect = link, !.ready = ready,
                              !.state = IF on /\ ready THEN "TX_DATA" ELSE @],
                 IF c.counter = 0 THEN "CONNECT" ELSE "NO_MESSAGE", << >>, Room)
  /\ UNCHANGED << modem, saves, queue, super, line, aired >>

\* The modem runs dry when tx_fifo had less than a block.  After a zero the
\* host is still expected to go on; after any other byte the page is over.
TxData ==
  /\ Running("TX_DATA")
  /\ \E in \in { Taken } : \E u \in { DataInput(in) } : \E f \in { Written(fifo, u.bytes) } :
        /\ Feed(f)
        /\ IF Len(f) >= Bpb THEN Block(u.d, "NO_MESSAGE", << >>, Room)
           ELSE IF u.d.lastNul THEN Block(Restart(u.d, "TX_NULLS"), "CONNECT", << >>, Room)
           ELSE Block(To(u.d, "IDLE"), "OK", << >>, Room)
  /\ UNCHANGED << modem, saves, queue, super, line, aired >>

\* Variant: the host is waited for without limit.
TxNullsForEver ==
  /\ Running("TX_NULLS")
  /\ IF Taken = << >>
     THEN UNCHANGED << fifo, passed >> /\ Block(c, "NO_MESSAGE", << >>, Room)
     ELSE \E u \in { DataInput(Taken) } :
          /\ Feed(Written(fifo, u.bytes))
          /\ Block(To(u.d, "TX_DATA"), "NO_MESSAGE", << >>, Room)
  /\ UNCHANGED << modem, saves, queue, super, line, aired >>

\* A byte in the block of the limit takes the state back to TX_DATA although
\* the command fails.
TxNulls ==
  /\ Running("TX_NULLS")
  /\ LET late == c.countdown + 1 > HostLimit
         st == IF late THEN "ERROR" ELSE "NO_MESSAGE"
         n == [c EXCEPT !.countdown = @ + 1]
     IN IF Taken = << >>
        THEN /\ UNCHANGED << fifo, passed >>
             /\ Block(IF late THEN To(n, "IDLE") ELSE n, st, << >>, Room)
        ELSE \E in \in { Taken } : \E u \in { DataInput(in) } :
             /\ Feed(Written(fifo, u.bytes))
             /\ Block([To(u.d, "TX_DATA") EXCEPT !.countdown = @ + 1], st, << >>, Room)
  /\ UNCHANGED << modem, saves, queue, super, line, aired >>

\* V.21 instead of the data carrier is reported to nobody; its frames follow.
RxLookCarrier ==
  /\ Running("RX_LOOK")
  /\ \E up \in BOOLEAN :
       LET here == line.sig = "data"
           n == [c EXCEPT !.countdown = IF @ <= S7 THEN @ + 1 ELSE @]
           d == IF Carrier THEN Restart(n, "RECEIVE_HDLC")
                ELSE IF up THEN To(n, "RX_DATA") ELSE n
           late == S7 # 0 /\ d.countdown > S7 /\ ~here
       IN /\ up => here
          /\ IF Taken # << >> THEN Block(To(d, "IDLE"), "OK", << >>, 5)
             ELSE IF late THEN Block(To(d, "IDLE"), "NO_CARRIER", << >>, 5)
             ELSE Block(d, IF up THEN "CONNECT" ELSE IF Carrier THEN "NO_REPLY"
                           ELSE "NO_MESSAGE", << >>, 5)
  /\ UNCHANGED << lower, super, line, aired, passed >>

\* A byte of the host aborts only in the block that loses the carrier.
RxData ==
  /\ Running("RX_DATA")
  /\ IF line.sig = "data" THEN Block(c, "NO_MESSAGE", << >>, 5)
     ELSE Block(Delay(To(c, "IDLE"), "NO_CARRIER"),
                IF Taken # << >> THEN "OK" ELSE "NO_MESSAGE", << >>, 5)
  /\ UNCHANGED << lower, super, line, aired, passed >>

---------------------------------------------------------------------------
(* fax_class1_command, and the making and unmaking of the data modem.      *)

Held(m) == IF m = [dir |-> "rx", mod |-> 2] THEN 1 ELSE 0

\* _delete_data_rx_modem frees the saves of a V.17 receiver with it,
\* _delete_data_tx_modem frees tx_fifo; each is chosen by modem_direction.
Deleted(dir) ==
  IF modem = NoModem \/ c.dir # dir THEN [modem |-> modem, saves |-> saves, fifo |-> fifo]
  ELSE [ modem |-> NoModem,
         saves |-> IF dir = "rx" THEN saves - Held(modem) ELSE saves,
         fifo  |-> IF dir = "tx" THEN NoFifo ELSE fifo ]

\* _init_transmitter: a transmitter is always made anew.
InitTransmitter(code) ==
  /\ modem' = [dir |-> "tx", mod |-> ModOf(code)]
  /\ saves' = Deleted("rx").saves
  /\ fifo' = << >>

\* Variant: any receiver is restarted.
InitReceiverKeeps(code) ==
  LET now == Deleted("tx")
      kept == now.modem # NoModem
  IN /\ modem' = IF kept THEN now.modem ELSE [dir |-> "rx", mod |-> ModOf(code)]
     /\ saves' = IF kept THEN now.saves ELSE Held([dir |-> "rx", mod |-> ModOf(code)])
     /\ fifo' = now.fifo

\* _init_receiver: a receiver of the same modulation is restarted, any other
\* one is freed first.
InitReceiver(code) ==
  LET now == Deleted("tx")
      kept == now.modem # NoModem /\ c.mod = ModOf(code)
  IN /\ modem' = IF kept THEN now.modem ELSE [dir |-> "rx", mod |-> ModOf(code)]
     /\ saves' = IF kept THEN now.saves
                 ELSE now.saves - Held(now.modem) + Held([dir |-> "rx", mod |-> ModOf(code)])
     /\ fifo' = now.fifo

TH == /\ c' = PreambleInit([c EXCEPT !.code = 3])
      /\ UNCHANGED << modem, saves, fifo >>

TM(code) ==
  /\ c' = [c EXCEPT !.state = "SILENCE_BEFORE_ONES", !.countdown = 0, !.code = code,
                    !.mod = ModOf(code), !.dir = "tx", !.connect = -1, !.enabled = FALSE,
                    !.ready = FALSE, !.closed = FALSE, !.counter = 0]
  /\ InitTransmitter(code)

RM(code) ==
  /\ c' = HdlcRxInit([c EXCEPT !.state = "RX_LOOK", !.code = code, !.mod = ModOf(code),
                               !.dir = "rx"], code)
  /\ InitReceiver(code)

\* FRH goes on with the carrier it has, looks for one, or gives the host what
\* was banked for it.
RH ==
  /\ c' = [ IF c.state = "BETWEEN_RX" /\ c.code = 3 THEN Restart(c, "RECEIVE_HDLC")
            ELSE IF super = << >> THEN HdlcRxInit(c, 3)
            ELSE [To(c, "EMULATE") EXCEPT !.superCount = 2]
            EXCEPT !.code = 3 ]
  /\ UNCHANGED << modem, saves, fifo >>

TS == /\ c' = [To(c, "SEND_SILENCE") EXCEPT !.countdown = Quiet]
      /\ UNCHANGED << modem, saves, fifo >>

RS == /\ c' = [To(c, "RECEIVE_SILENCE") EXCEPT !.countdown = Quiet, !.quiet = 0]
      /\ UNCHANGED << modem, saves, fifo >>

\* A command of the host.  All but FRH empty the superframe.
Command(cmd, code) ==
  /\ host.mode = "command" /\ host.count < MaxCommands
  /\ CASE cmd = "TH" -> TH [] cmd = "TM" -> TM(code) [] cmd = "RM" -> RM(code)
       [] cmd = "RH" -> RH [] cmd = "TS" -> TS [] cmd = "RS" -> RS
  /\ super' = IF cmd = "RH" THEN super ELSE << >>
  /\ host' = [host EXCEPT !.mode = "waiting", !.cmd = cmd, !.count = @ + 1, !.sent = << >>,
                          !.aborted = FALSE, !.cut = c.dle, !.left = queue,
                          !.stray = c.dcount > 0]
  /\ reply' = "" /\ aired' = << >> /\ passed' = << >>
  /\ UNCHANGED << queue, fx, tty, line, got >>

Args(cmd) == IF cmd \in { "TM", "RM" } THEN Codes ELSE { 3 }

---------------------------------------------------------------------------
(* External: the host, which follows the protocol, and the line.           *)

Say(script, n, sent) ==
  /\ tty' = tty \o SubSeq(script, 1, n)
  /\ host' = [host EXCEPT !.script = SubSeq(script, n + 1, Len(script)),
                          !.owes = FALSE, !.sent = sent]
  /\ reply' = ""
  /\ UNCHANGED << c, lower, super, fx, line, got, aired, passed >>

\* It answers CONNECT with a frame or a page, in one piece or with a pause.
HostStarts ==
  /\ host.mode = "online" /\ host.owes /\ Len(host.sent) < MaxSent
  /\ \E m \in IF host.cmd = "TH" THEN Messages ELSE Pages :
       \E n \in Splits \cup { Len(Escaped[m]) } :
         n <= Len(Escaped[m]) /\ Say(Escaped[m], n, Append(host.sent, m))

HostGoesOn ==
  /\ host.mode = "online" /\ host.script # << >>
  /\ Say(host.script, Len(host.script), host.sent)

HostAborts ==
  /\ host.mode = "online" /\ host.cmd \in { "RH", "RM" } /\ ~host.aborted
  /\ host' = [host EXCEPT !.aborted = TRUE]
  /\ tty' = << CAN >> /\ reply' = ""
  /\ UNCHANGED << c, lower, super, fx, line, got, aired, passed >>

LineTurns ==
  /\ host.mode # "gone" /\ line.turns < MaxTurns
  /\ \E s \in CASE line.sig = "silent" -> { "v21", "data" } [] line.sig = "v21" -> { "tail" }
                [] OTHER -> { "silent" } :
       line' = [line EXCEPT !.sig = s, !.turns = @ + 1]
  /\ reply' = ""
  /\ UNCHANGED << c, lower, super, fx, host, tty, got, aired, passed >>

---------------------------------------------------------------------------
\* fax_class1_create: modem_direction, current_mod and last_in_byte are not
\* set.
Created(ans, g) ==
  [ state |-> IF ans THEN "ANSWER_TONE" ELSE "LOOK_HDLC",
    prev |-> IF ans THEN "ANSWER_TONE" ELSE "LOOK_HDLC",
    countdown |-> 0, delayed |-> "NO_MESSAGE", dcount |-> 0, code |-> 3,
    dir |-> g.dir, mod |-> g.mod, dle |-> FALSE, frame |-> << >>, done |-> FALSE,
    latch |-> FALSE, counter |-> 0, connect |-> -1, enabled |-> FALSE,
    ready |-> FALSE, closed |-> FALSE, lastNul |-> g.lastNul, cng |-> ~ans,
    quiet |-> 0, superCount |-> 0, superIdx |-> 0 ]

\* An answering fax sends its tone and then frames, as FTH would; an
\* originating one calls with CNG and listens, as FRH would.
Caller(ans) ==
  [ mode |-> "waiting", cmd |-> IF ans THEN "TH" ELSE "RH", count |-> 0, owes |-> FALSE,
    script |-> << >>, sent |-> << >>, aborted |-> FALSE, cut |-> FALSE, left |-> << >>,
    stray |-> FALSE ]

Init ==
  /\ \E ans \in BOOLEAN, g \in Garbage : c = Created(ans, g) /\ host = Caller(ans)
  /\ modem = NoModem /\ saves = 0 /\ fifo = NoFifo /\ queue = << >> /\ super = << >>
  /\ fx = [enable |-> FALSE, want |-> 0]
  /\ tty = << >> /\ reply = "" /\ got = << >> /\ aired = << >> /\ passed = << >>
  /\ line = [sig |-> "silent", turns |-> 0, frames |-> 0]

\* FAX_delete, when the call ends.  What the context held is not read again.
Delete ==
  /\ host.mode # "gone"
  /\ modem' = NoModem /\ fifo' = NoFifo
  /\ saves' = Deleted("rx").saves
  /\ c' \in { Created(TRUE, g) : g \in Garbage }
  /\ host' = [Caller(TRUE) EXCEPT !.mode = "gone"]
  /\ fx' = [enable |-> FALSE, want |-> 0]
  /\ line' = [sig |-> "silent", turns |-> 0, frames |-> 0]
  /\ queue' = << >> /\ super' = << >> /\ tty' = << >> /\ reply' = "" /\ got' = << >>
  /\ aired' = << >> /\ passed' = << >>

Pump ==
  \/ Idle \/ AnswerToneState \/ SendSilence \/ ReceiveSilence
  \/ SilenceBeforePreamble \/ Preamble \/ SendHdlcBuffer \/ SendHdlcBetween
  \/ LookHdlc \/ HdlcReceive \/ HdlcReceiveBetween \/ HdlcEmulate
  \/ SilenceBeforeOnes \/ ScrambledOnes \/ TxData \/ TxNulls \/ RxLookCarrier \/ RxData

Next ==
  \/ Pump
  \/ \E cmd \in Commands : \E code \in Args(cmd) : Command(cmd, code)
  \/ HostStarts \/ HostGoesOn \/ HostAborts \/ LineTurns \/ Delete

\* The modem calls FAX_process for every block of the line; nothing obliges
\* the host or the far end to do anything.
Spec == Init /\ [][Next]_vars /\ WF_vars(Pump)

---------------------------------------------------------------------------
(* Properties.                                                             *)

\* The type of every variable.
TypeOK ==
  /\ c.state \in States /\ c.prev \in States /\ c.delayed \in Statuses
  /\ c.dcount \in 0..1 /\ c.code \in Codes \cup { 3 } /\ c.dir \in { "none", "rx", "tx" }
  /\ c.mod \in 0..2 /\ c.countdown \in Int /\ c.quiet \in Nat /\ c.counter \in 0..Train
  /\ c.connect \in -1..2 /\ c.superCount \in Int /\ c.superIdx \in Nat
  /\ { c.dle, c.done, c.latch, c.enabled, c.ready, c.closed, c.lastNul, c.cng } \subseteq BOOLEAN
  /\ modem \in [dir : { "none", "rx", "tx" }, mod : 0..2] /\ saves \in Int
  /\ fx.enable \in BOOLEAN /\ fx.want \in Int
  /\ host.mode \in { "command", "waiting", "online", "gone" } /\ host.cmd \in Commands
  /\ line.sig \in { "silent", "v21", "tail", "data" }
  /\ reply \in { "", "OK", "ERROR", "CONNECT", "NO_CARRIER" }

\* The data modem is the one that the session believes it is wherever its
\* handlers, fax_class1_progress (class1.c:1026) and the deletion reach into
\* it: of the direction and the modulation of the last command, with a tx_fifo
\* exactly when it transmits, and no save of a V.17 receiver outlives it -
\* although direction and modulation are uninitialised before the first one.
ModemFits ==
  /\ modem # NoModem => c.dir = modem.dir /\ c.mod = modem.mod
  /\ host.mode # "gone" =>
       /\ c.state \in DataTx => modem = [dir |-> "tx", mod |-> ModOf(c.code)]
       /\ c.state \in DataRx => modem = [dir |-> "rx", mod |-> ModOf(c.code)]
       /\ c.code # 3 /\ c.dir = "rx" => modem = [dir |-> "rx", mod |-> ModOf(c.code)]
  /\ saves = Held(modem)
  /\ (fifo # NoFifo) = (modem.dir = "tx")

\* The host is never asked for more than tx_fifo can take until its page is
\* over: FIFO_write drops nothing but padding, and the room of a full tx_fifo,
\* which asks for a whole host_rx_buf, comes only when no byte counts any more.
RoomKept ==
  /\ fifo # NoFifo => Len(fifo) <= FifoSize
  /\ host.mode # "gone" /\ c.state \in { "ONES", "TX_DATA", "TX_NULLS" } /\ ~c.closed =>
       Asked + Len(fifo) < FifoSize

\* The safety of the session's own state.
SessionInv == TypeOK /\ ModemFits /\ RoomKept

\* No received frame reaches the host twice, live or out of the superframe.
NoFrameTwice ==
  \A i, j \in DOMAIN got : i # j => got[i].id # got[j].id

\* Those of the frames that an empty queue has room for.
Fitting(frames) ==
  LET kept[i \in 0..Len(frames)] ==
        IF i = 0 THEN << >>
        ELSE IF Len(frames[i]) + 3 < QueueSize THEN Append(kept[i - 1], frames[i])
        ELSE kept[i - 1]
  IN kept[Len(frames)]

\* The messages that the host has written to the end.
Complete ==
  IF host.script = << >> /\ tty = << >> THEN host.sent ELSE Front(host.sent)

\* In a transmission of frames V.21 has been given what the queue still held
\* from before and then every frame the host ended, whole and in order, except
\* one too long for the queue; and the latch that will end the transmission is
\* set exactly when one of them was final.  The exception is a transmission
\* that began with dle_seen set, which eats the first byte.
FramesSent ==
  c.state \in { "SEND_HDLC", "BETWEEN_TX" } /\ host.mode # "gone" /\ ~host.cut =>
    /\ aired \o queue = host.left \o Fitting(Complete)
    /\ c.latch = \E i \in DOMAIN Complete : Final(Complete[i])

\* In a transmission of data the modem gets the bytes of the page in order,
\* none lost to a full tx_fifo, and all of them before OK once the page ended.
PageSent ==
  host.cmd = "TM" /\ host.sent # << >> /\ ~host.cut =>
    /\ IsPrefix(IF fifo = NoFifo THEN passed ELSE passed \o fifo,
                host.sent[1] \o [i \in 1..EtxPad |-> NUL])
    /\ host.mode = "command" /\ reply = "OK" /\ c.closed => IsPrefix(host.sent[1], passed)

\* What the host sends is what the modem gets, frames and pages.
SentWhole == FramesSent /\ PageSent

\* A delayed status is still pending after the end of a command only if the
\* host aborted it in the block in which a frame or the carrier ended, or if
\* the command was itself answered by such a status.
DelayedOwn == host.mode = "command" /\ c.dcount > 0 => host.aborted \/ host.stray

\* The host hears what it did not ask for only from such a delayed status,
\* from the command that such a status answered too early, or from a page that
\* went on after it was reported failed.
UnaskedKnown ==
  host.mode = "command" /\ reply' # "" =>
    c.dcount = 1 \/ host.stray \/ c.state \in { "TX_DATA", "TX_NULLS" }

\* One reply per command: no reply is left over from a command, and none
\* comes that no command asked for, but for these known ones.
RepliesKnown == [][DelayedOwn' /\ UnaskedKnown]_vars

\* What can hold a command for ever: a far end that does not stop, the call
\* tone, a page too short to fill a block or a host that does not send one,
\* and a bank read with an index that was not reset.  An index equal to the
\* new bank's length empties it and waits for ever; one past it ends the wait
\* with no reply, and leaves bank and index to the next FRH.
StaleIndex ==
  \/ c.state = "EMULATE" /\ super = << >>
  \/ /\ c.state = "IDLE" /\ host.cmd = "RH" /\ c.dcount = 0
     /\ super # << >> /\ c.superIdx > Len(super)
Held4Ever ==
  \/ line.sig \in { "v21", "data" }
  \/ c.cng
  \/ S7 = 0
  \/ c.state = "ONES" /\ (host.owes \/ host.script # << >> \/ Len(fifo) < Bpb)
  \/ StaleIndex

\* Every command is answered unless one of these holds it.
Answered ==
  <>[](host.mode \in { "waiting", "online" }) => <>[]Held4Ever
=============================================================================
