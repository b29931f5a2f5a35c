---------------------------- MODULE ModbusFrame ----------------------------
(***************************************************************************)
(* modbus.c: how bytes of the RS485 bus become frames, and frames become   *)
(* answers.                                                                *)
(*                                                                         *)
(* Two interrupt handlers and the main loop share mb_slave_ctx without a   *)
(* lock: the UART's, which hands every byte to slave_recv; the one of      *)
(* TMR0, which counts the half characters of silence; and the main loop,   *)
(* which polls for a finished frame.  The handlers have the same priority, *)
(* so each runs to its end and is one action; the main loop can be         *)
(* interrupted between any two of its accesses, so each is an action.      *)
(*                                                                         *)
(* Data: a byte is <<the number of its frame, its place in it>>.  Time is  *)
(* counted in half characters, the period of TMR0.                         *)
(***************************************************************************)
EXTENDS Integers, Sequences

CONSTANTS
    BufSize,       \* sizeof(mb_slave_ctx.req_buf)
    RefMax,        \* the largest value of the int8_t mb_timer_ref
    Kinds,         \* the kinds of frames on the bus, see Kind
    MaxFrames,     \* bound on the frames the bus carries
    MaxLen,        \* bound on the bytes of a frame
    MaxGap,        \* a well-behaved sender: silence within a frame, at most
    MinSilence     \* and before a frame, at least

\* A frame asks this slave, is broadcast, asks another slave, or its CRC is wrong.
Kind == {"ours", "broadcast", "other", "bad"}

ASSUME BusAssumption ==
    /\ BufSize \in Nat \ {0} /\ RefMax \in Nat \ {0} /\ Kinds \subseteq Kind
    /\ MaxFrames \in Nat /\ MaxLen \in Nat \ {0}
    /\ MaxGap \in Nat /\ MinSilence \in Nat /\ MaxGap < MinSilence

\* When the code tells the frames of well-behaved senders apart.  A byte restarts TMR0,
\* but an interrupt that TMR0 has requested before is served after it, so one period more
\* than the silence has may be counted: a gap of one is at most two, no pause, and six of
\* silence may be seven.
ASSUME TimingAssumption == MaxGap <= 1 /\ MinSilence >= 6

\* In a buffer of one byte every byte would be the first and start the timer again.
ASSUME BufferAssumption == BufSize > 1

VARIABLES
    status,     \* mb_slave_ctx.status
    tcnt,       \* mb_slave_ctx.tcnt, the periods of TMR0 since the last byte
    req,        \* mb_slave_ctx.req_buf up to mb_slave_ctx.req_len
    frame_err,  \* mb_slave_ctx.flag_frame_err
    resp,       \* mb_slave_ctx.slave.response: the frame it answers, 0 if empty
    ref,        \* mb_timer_ref
    running,    \* does TMR0 count?
    pending,    \* its interrupt is requested and not served
    pc,         \* where the main loop is in modbus.c
    store,      \* the next store of modbus_slave_set_idle
    sends,      \* may the main loop still call modbus_slave_uart_send?
    frames,     \* the frames the bus has carried, the last perhaps in part
    put,        \* the bytes of the last frame that have been on the bus
    quiet,      \* the silence since the last byte, up to MinSilence
    polite,     \* have all senders behaved well?
    early,      \* did a byte arrive before modbus_timer_init was done?
    answers     \* the answers sent: the frame handled, the frame answered

ctxVars  == <<status, tcnt, req, frame_err>>
timVars  == <<ref, running, pending>>
mainVars == <<resp, pc, store, sends, answers>>
busVars  == <<frames, put, quiet, polite, early>>
vars     == <<ctxVars, timVars, mainVars, busVars>>

Frame == [kind : Kind, len : 1 .. MaxLen]
Byte  == (1 .. MaxFrames) \X (1 .. MaxLen)
Statuses == {"INIT", "IDLE", "RECV", "CTRL", "FINISH"}
Receiving == status \in {"RECV", "CTRL"}

Init ==
    /\ status = "INIT" /\ tcnt = 0 /\ req = <<>> /\ frame_err = FALSE
    /\ resp = 0
    /\ ref = 0 /\ running = FALSE /\ pending = FALSE
    /\ pc = "timer_irq" /\ store = 1 /\ sends = FALSE
    /\ frames = <<>> /\ put = 0 /\ quiet = MinSilence
    /\ polite = TRUE /\ early = FALSE
    /\ answers = <<>>

-----------------------------------------------------------------------------
(***************************************************************************)
(* modbus_timer_enable and modbus_timer_disable count in an int8_t.        *)
(***************************************************************************)
Incremented(r) == IF r = RefMax THEN -RefMax - 1 ELSE r + 1
Decremented(r) == IF r = -RefMax - 1 THEN RefMax ELSE r - 1

\* Mutation of TimerStops: the timer is left to run.
TimerStopsLate(r) == r < 0
TimerStops(r) == r <= 0

TimerDisable ==
    /\ ref' = Decremented(ref)
    /\ running' = (running /\ ~TimerStops(Decremented(ref)))

\* Mutation of StartsTimer: the first byte does not start the timer.
StartsTimerLate(n) == n = 2
StartsTimer(n) == n = 1

\* The end of slave_recv: the timer, if it ran, runs again from 0, and it is
\* started if n bytes are the first.
TimerAfterRecv(n) ==
    /\ IF StartsTimer(n)
       THEN running' = TRUE /\ ref' = Incremented(ref)
       ELSE UNCHANGED <<running, ref>>
    /\ UNCHANGED pending

-----------------------------------------------------------------------------
(***************************************************************************)
(* The bus.  Senders may do anything; "polite" records whether they have   *)
(* kept to short gaps within a frame, to silence between frames, and to    *)
(* waiting until this slave is done with the frame before.                 *)
(***************************************************************************)
Mid == put > 0 /\ put < frames[Len(frames)].len

\* Time passes.  The interrupt of TMR0 is served within one period.
Elapse ==
    /\ pending => pc = "timer_irq"
    /\ running \/ quiet < MinSilence
    /\ quiet' = IF quiet < MinSilence THEN quiet + 1 ELSE quiet
    /\ pending' = (pending \/ running)
    /\ polite' = (polite /\ (Mid => quiet' <= MaxGap))
    /\ UNCHANGED <<ctxVars, ref, running, mainVars, frames, put, early>>

\* A byte of the frame begun, or the first of a frame; a frame can be cut short.
NextByte ==
    \/ /\ Mid
       /\ put' = put + 1
       /\ UNCHANGED <<frames, polite>>
    \/ /\ Len(frames) < MaxFrames
       /\ \E f \in [kind : Kinds, len : 1 .. MaxLen] : frames' = Append(frames, f)
       /\ put' = 1
       /\ polite' = (/\ polite /\ ~Mid /\ quiet = MinSilence
                     /\ pc = "loop" /\ status \in {"INIT", "IDLE"})

Arrives ==
    /\ NextByte
    /\ quiet' = 0
    /\ early' = (early \/ pc \in {"timer_irq", "timer_stop"})
    /\ UNCHANGED mainVars

ThisByte == <<Len(frames'), put'>>

-----------------------------------------------------------------------------
(***************************************************************************)
(* slave_recv, called by UART2_IRQHandler for one byte.                    *)
(***************************************************************************)
\* Mutation of Starts: bytes behind a finished frame are taken.
StartsBehind(s) == s \in {"INIT", "IDLE", "FINISH"}
Starts(s) == s \in {"INIT", "IDLE"}

\* Mutation of Stored: the end of the buffer is not minded.
StoredOverrun == Append(req, ThisByte)
Stored == IF Len(req) < BufSize THEN Append(req, ThisByte) ELSE req

RecvFirst ==
    /\ Starts(status)
    /\ Arrives
    /\ tcnt' = 0 /\ status' = "RECV" /\ req' = Stored
    /\ TimerAfterRecv(Len(req'))
    /\ UNCHANGED frame_err

RecvMore ==
    /\ status = "RECV"
    /\ Arrives
    /\ tcnt' = 0 /\ req' = Stored
    /\ TimerAfterRecv(Len(req'))
    /\ UNCHANGED <<status, frame_err>>

RecvLate ==
    /\ status = "CTRL"
    /\ Arrives
    /\ tcnt' = 0 /\ frame_err' = TRUE
    /\ TimerAfterRecv(Len(req))
    /\ UNCHANGED <<status, req>>

RecvDrop ==
    /\ ~Starts(status) /\ ~Receiving
    /\ Arrives
    /\ TimerAfterRecv(Len(req))
    /\ UNCHANGED ctxVars

-----------------------------------------------------------------------------
(***************************************************************************)
(* TMR0_IRQHandler                                                         *)
(***************************************************************************)
\* Mutations of the two below: one period is taken for a pause; a frame ends with
\* the first pause.
PausedOneSoon(n) == n >= 1
EndedSoon(n)     == n >= 4

Paused(n) == n >= 3     \* 1.5 characters
Ended(n)  == n >= 7     \* 3.5 characters

Tick == pending /\ pc # "timer_irq" /\ pending' = FALSE

TickIdle ==
    /\ ~Receiving
    /\ Tick
    /\ tcnt' = IF status = "INIT" /\ ~Ended(tcnt + 1) THEN tcnt + 1 ELSE 0
    /\ status' = IF status = "INIT" /\ Ended(tcnt + 1) THEN "IDLE" ELSE status
    /\ UNCHANGED <<req, frame_err, ref, running, mainVars, busVars>>

TickRecv ==
    /\ status = "RECV"
    /\ Tick
    /\ tcnt' = tcnt + 1
    /\ status' = IF Paused(tcnt + 1) THEN "CTRL" ELSE status
    /\ UNCHANGED <<req, frame_err, ref, running, mainVars, busVars>>

TickWait ==
    /\ status = "CTRL" /\ ~Ended(tcnt + 1)
    /\ Tick
    /\ tcnt' = tcnt + 1
    /\ UNCHANGED <<status, req, frame_err, ref, running, mainVars, busVars>>

TickEnd ==
    /\ status = "CTRL" /\ Ended(tcnt + 1)
    /\ Tick
    /\ IF frame_err
       THEN status' = "IDLE" /\ tcnt' = 0 /\ req' = <<>> /\ frame_err' = FALSE
       ELSE status' = "FINISH" /\ tcnt' = tcnt + 1 /\ UNCHANGED <<req, frame_err>>
    /\ TimerDisable
    /\ UNCHANGED <<mainVars, busVars>>

-----------------------------------------------------------------------------
(***************************************************************************)
(* The main loop: modbus_timer_init, then modbus_frame_check for ever.     *)
(***************************************************************************)
EnableTimerIrq ==
    /\ pc = "timer_irq"
    /\ pc' = "timer_stop"
    /\ UNCHANGED <<ctxVars, timVars, resp, store, sends, answers, busVars>>

StopTimer ==
    /\ pc = "timer_stop"
    /\ pc' = "loop"
    /\ running' = FALSE
    /\ UNCHANGED <<ctxVars, ref, pending, resp, store, sends, answers, busVars>>

FrameReady ==
    /\ pc = "loop" /\ status = "FINISH"
    /\ pc' = IF frame_err THEN "set_idle" ELSE "parse"
    /\ UNCHANGED <<ctxVars, timVars, resp, store, sends, answers, busVars>>

NothingReady ==
    /\ pc = "loop" /\ status # "FINISH"
    /\ UNCHANGED vars

\* The frame that is in the buffer from its first to its last byte, or 0.
WholeFrame(buf) ==
    IF buf # <<>> /\ buf = [i \in 1 .. frames[buf[1][1]].len |-> <<buf[1][1], i>>]
    THEN buf[1][1] ELSE 0

\* What modbusUnpackRTU makes of the buffer: anything but a whole frame fails its
\* CRC, or is too short to have one.
Verdict(buf) == IF WholeFrame(buf) = 0 THEN "bad" ELSE frames[WholeFrame(buf)].kind

\* modbusParseRequestRTU: the response changes only for a request it accepts.
\* modbus_frame_check then sends what the response holds, whatever the error, except
\* for MODBUS_ERROR_ADDRESS.
Sends(verdict) == verdict # "other"

ParseRequest ==
    /\ pc = "parse"
    /\ resp' = CASE Verdict(req) = "ours"      -> WholeFrame(req)
                 [] Verdict(req) = "broadcast" -> 0
                 [] OTHER                      -> resp
    /\ sends' = Sends(Verdict(req))
    /\ pc' = "answer"
    /\ UNCHANGED <<ctxVars, timVars, store, answers, busVars>>

Answer ==
    /\ pc = "answer"
    /\ answers' = IF sends /\ resp # 0
                  THEN Append(answers, <<WholeFrame(req), resp>>) ELSE answers
    /\ sends' = FALSE
    /\ pc' = "set_idle"
    /\ UNCHANGED <<ctxVars, timVars, resp, store, busVars>>

\* Mutation of IdleStores: the slave is idle too soon.
IdleStoresReorder == <<"status", "frame_err", "tcnt", "req">>

\* modbus_slave_set_idle, called by the main loop: four stores.
IdleStores == <<"frame_err", "tcnt", "req", "status">>

SetIdle ==
    LET field == IdleStores[store]
    IN  /\ pc = "set_idle"
        /\ frame_err' = IF field = "frame_err" THEN FALSE ELSE frame_err
        /\ tcnt'      = IF field = "tcnt" THEN 0 ELSE tcnt
        /\ req'       = IF field = "req" THEN <<>> ELSE req
        /\ status'    = IF field = "status" THEN "IDLE" ELSE status
        /\ IF store < 4 THEN store' = store + 1 /\ UNCHANGED pc
                        ELSE store' = 1 /\ pc' = "loop"
        /\ UNCHANGED <<timVars, resp, sends, answers, busVars>>

-----------------------------------------------------------------------------
Recv  == RecvFirst \/ RecvMore \/ RecvLate \/ RecvDrop
Timer == TickIdle \/ TickRecv \/ TickWait \/ TickEnd
Main  == EnableTimerIrq \/ StopTimer \/ FrameReady \/ NothingReady
         \/ ParseRequest \/ Answer \/ SetIdle

Next == Elapse \/ Recv \/ Timer \/ Main

Spec     == Init /\ [][Next]_vars
FairSpec == Spec /\ WF_vars(Elapse) /\ WF_vars(Timer) /\ WF_vars(Main)

-----------------------------------------------------------------------------
(***************************************************************************)
(* Properties                                                              *)
(***************************************************************************)
\* The types of the variables; the buffer never overflows.
TypeOK ==
    /\ status \in Statuses
    /\ tcnt \in Nat
    /\ req \in Seq(Byte) /\ Len(req) <= BufSize
    /\ frame_err \in BOOLEAN
    /\ resp \in 0 .. MaxFrames
    /\ ref \in -RefMax - 1 .. RefMax
    /\ running \in BOOLEAN /\ pending \in BOOLEAN
    /\ pc \in {"timer_irq", "timer_stop", "loop", "parse", "answer", "set_idle"}
    /\ store \in 1 .. 4
    /\ sends \in BOOLEAN
    /\ frames \in Seq(Frame) /\ Len(frames) <= MaxFrames
    /\ put \in 0 .. MaxLen
    /\ quiet \in 0 .. MinSilence
    /\ polite \in BOOLEAN /\ early \in BOOLEAN
    /\ answers \in Seq((0 .. MaxFrames) \X (1 .. MaxFrames))

\* While a frame is being received TMR0 runs, whatever has happened to the count of
\* its users: otherwise the frame would never end and the slave be deaf for good.
\* (A byte that arrives before modbus_timer_init is done makes it so.)
Timed == Receiving /\ ~early => running

\* The buffer is empty when a frame may begin, and while the main loop works on a
\* frame, no interrupt takes the frame from it.
Phases ==
    /\ put > 0 => frames # <<>>
    /\ status \in {"INIT", "IDLE"} => req = <<>>
    /\ pc \in {"parse", "answer", "set_idle"} => status = "FINISH"
    /\ pc # "set_idle" => store = 1
    /\ pc = "set_idle" /\ store = 4 => req = <<>>
    /\ pc \in {"timer_irq", "timer_stop"} /\ ~early => status \in {"INIT", "IDLE"}

\* The inductive invariant.
IInv == TypeOK /\ Phases /\ Timed

\* With well-behaved senders TMR0 runs exactly while a frame is received, and its users
\* are counted right.
Balanced ==
    polite =>
        /\ running = Receiving
        /\ ref = IF Receiving THEN 1 ELSE 0

\* The buffer holds bytes that followed one another on the bus, none left out, none
\* of an earlier frame that was already handled.
Follows(b, c) == \/ c[1] = b[1] /\ c[2] = b[2] + 1
                 \/ c[1] = b[1] + 1 /\ c[2] = 1
Unbroken == \A i \in 1 .. Len(req) - 1 : Follows(req[i], req[i + 1])

\* Only bytes with less than two characters of silence between them are joined, and a
\* frame is finished only after at least three characters of silence.
SilenceRespected ==
    [][early \/ /\ req # <<>> /\ Len(req') > Len(req) => quiet <= 3
                /\ status # "FINISH" /\ status' = "FINISH" => quiet >= 6]_ctxVars

\* No interrupt changes the frame the main loop is working on.
Working == pc \in {"parse", "answer"}
BufferHeld == [][Working => req' = req /\ status' = status]_vars

\* With well-behaved senders what the main loop parses is one frame, whole up to the
\* size of the buffer.
Exact ==
    pc = "parse" /\ polite =>
        LET n == Len(frames)
            l == frames[n].len
        IN  req = [i \in 1 .. (IF l <= BufSize THEN l ELSE BufSize) |-> <<n, i>>]

\* Every request of a well-behaved master for this slave that fits the buffer is
\* answered in the end.
Served ==
    \A n \in 1 .. MaxFrames :
        (/\ Len(frames) = n /\ frames[n].kind = "ours" /\ frames[n].len <= BufSize
         /\ put = frames[n].len)
            ~> (~polite \/ early \/ \E i \in DOMAIN answers : answers[i][2] = n)

\* Whatever was on the bus, the slave always becomes ready for the next frame.
Recovers == []<>(status \in {"INIT", "IDLE"} \/ early)

\* slave.h, modbusSlaveGetResponse: "This function can only be used if the last call
\* to modbusParseRequest*() was successful": an answer answers the frame handled.
\* (Asked of the simplest bus: no early byte, and all senders keep to the rules.)
AnswersItsFrame ==
    polite /\ ~early => \A i \in DOMAIN answers : answers[i][1] = answers[i][2]
=============================================================================
