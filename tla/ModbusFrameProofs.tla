------------------------- MODULE ModbusFrameProofs -------------------------
(***************************************************************************)
(* Proofs about ModbusFrame, for every size of the buffer, every width of  *)
(* the timer's user count, and every traffic on the bus.                   *)
(***************************************************************************)
EXTENDS ModbusFrame, TLAPS

\* A sequence of bytes that grows by one.
LEMMA AppendByte ==
    ASSUME NEW s \in Seq(Byte), NEW b \in Byte
    PROVE  Append(s, b) \in Seq(Byte) /\ Len(Append(s, b)) = Len(s) + 1
OBVIOUS

\* The empty buffer.
LEMMA EmptyBuffer ==
    ASSUME NEW S
    PROVE  <<>> \in Seq(S) /\ Len(<<>>) = 0
OBVIOUS

\* The int8_t count of the timer's users stays in its range.
LEMMA CountInRange ==
    ASSUME RefMax \in Nat \ {0}, NEW r \in -RefMax - 1 .. RefMax
    PROVE  /\ Incremented(r) \in -RefMax - 1 .. RefMax
           /\ Decremented(r) \in -RefMax - 1 .. RefMax
BY DEF Incremented, Decremented

\* The byte that arrives is one of the bus's frames, and the bus stays well-formed.
LEMMA ArrivingByte ==
    ASSUME IInv, Arrives
    PROVE  /\ ThisByte \in Byte
           /\ frames' \in Seq(Frame) /\ Len(frames') <= MaxFrames
           /\ put' \in 1 .. MaxLen /\ frames' # <<>>
           /\ quiet' \in 0 .. MinSilence
           /\ polite' \in BOOLEAN /\ early' \in BOOLEAN
           /\ pc \in {"timer_irq", "timer_stop"} => early'
           /\ early => early'
           /\ UNCHANGED mainVars
<1> USE DEF IInv, TypeOK
<1>a. /\ quiet' \in 0 .. MinSilence /\ early' \in BOOLEAN
      /\ pc \in {"timer_irq", "timer_stop"} => early'
      /\ early => early'
      /\ UNCHANGED mainVars
  <2>1. quiet' = 0 /\ UNCHANGED mainVars
        /\ early' = (early \/ pc \in {"timer_irq", "timer_stop"})
    BY DEF Arrives
  <2>2. quiet' \in 0 .. MinSilence
    BY <2>1, BusAssumption DEF BusAssumption
  <2> QED
    BY <2>1, <2>2, Zenon
<1>1. CASE Mid /\ put' = put + 1 /\ UNCHANGED <<frames, polite>>
  <2>1. frames # <<>> /\ put > 0 /\ put < frames[Len(frames)].len
    BY <1>1 DEF Mid, Phases
  <2>2. Len(frames) \in 1 .. MaxFrames /\ Len(frames) \in DOMAIN frames
    BY <2>1, BusAssumption DEF BusAssumption
  <2>3. frames[Len(frames)] \in Frame
    BY <2>2
  <2>4. put' \in 1 .. MaxLen
    BY <1>1, <2>1, <2>3, BusAssumption DEF Frame, BusAssumption
  <2>5. ThisByte \in Byte
    BY <1>1, <2>2, <2>4 DEF ThisByte, Byte
  <2> QED
    BY <1>1, <1>a, <2>1, <2>4, <2>5
<1>2. CASE /\ Len(frames) < MaxFrames
           /\ \E f \in [kind : Kinds, len : 1 .. MaxLen] : frames' = Append(frames, f)
           /\ put' = 1
           /\ polite' = (/\ polite /\ ~Mid /\ quiet = MinSilence
                         /\ pc = "loop" /\ status \in {"INIT", "IDLE"})
  <2>1. PICK f \in [kind : Kinds, len : 1 .. MaxLen] : frames' = Append(frames, f)
    BY <1>2
  <2>2. f \in Frame
    BY BusAssumption DEF BusAssumption, Frame
  <2>3. frames' \in Seq(Frame) /\ Len(frames') = Len(frames) + 1
    BY <2>1, <2>2
  <2>4. 1 \in 1 .. MaxLen /\ Len(frames') \in 1 .. MaxFrames
    BY <1>2, <2>3, BusAssumption DEF BusAssumption
  <2>5. polite' \in BOOLEAN
    BY <1>2
  <2>6. ThisByte \in Byte /\ put' \in 1 .. MaxLen
    BY <1>2, <2>4 DEF ThisByte, Byte
  <2>7. frames' # <<>> /\ Len(frames') <= MaxFrames
    BY <2>3, <2>4
  <2> QED
    BY <1>a, <2>3, <2>5, <2>6, <2>7
<1> QED
  BY <1>1, <1>2 DEF Arrives, NextByte

\* What slave_recv does to the timer.
LEMMA TimerKept ==
    ASSUME IInv, NEW n \in Nat, TimerAfterRecv(n)
    PROVE  /\ ref' \in -RefMax - 1 .. RefMax
           /\ running' \in BOOLEAN /\ pending' \in BOOLEAN
           /\ running => running'
           /\ n = 1 => running'
BY BusAssumption, CountInRange
DEF IInv, TypeOK, BusAssumption, TimerAfterRecv, StartsTimer
-----------------------------------------------------------------------------
\* The program starts with the inductive invariant.
LEMMA InitInv == Init => IInv
<1> SUFFICES ASSUME Init PROVE IInv
  OBVIOUS
<1>1. /\ req \in Seq(Byte) /\ Len(req) <= BufSize
      /\ frames \in Seq(Frame) /\ Len(frames) <= MaxFrames
      /\ answers \in Seq((0 .. MaxFrames) \X (1 .. MaxFrames))
  BY EmptyBuffer, BusAssumption DEF Init, BusAssumption
<1>2. /\ ref \in -RefMax - 1 .. RefMax /\ resp \in 0 .. MaxFrames
      /\ put \in 0 .. MaxLen /\ quiet \in 0 .. MinSilence
  BY BusAssumption DEF Init, BusAssumption
<1>3. /\ running \in BOOLEAN /\ frame_err \in BOOLEAN /\ pending \in BOOLEAN
      /\ sends \in BOOLEAN /\ polite \in BOOLEAN /\ early \in BOOLEAN
  BY DEF Init
<1>4. /\ tcnt \in Nat /\ store \in 1 .. 4 /\ status \in Statuses
      /\ pc \in {"timer_irq", "timer_stop", "loop", "parse", "answer", "set_idle"}
  BY DEF Init, Statuses
<1>5. TypeOK
  BY <1>1, <1>2, <1>3, <1>4 DEF TypeOK
<1>6. Phases /\ Timed
  BY DEF Init, Phases, Timed, Receiving
<1> QED
  BY <1>5, <1>6 DEF IInv

\* A byte, whenever it arrives, leaves the inductive invariant.
LEMMA RecvInv == IInv /\ Recv => IInv'
<1> SUFFICES ASSUME IInv, Recv PROVE IInv'
  OBVIOUS
<1> USE DEF IInv, mainVars
<1>a. /\ Arrives /\ ThisByte \in Byte
      /\ frames' \in Seq(Frame) /\ Len(frames') <= MaxFrames
      /\ put' \in 1 .. MaxLen /\ frames' # <<>>
      /\ quiet' \in 0 .. MinSilence
      /\ polite' \in BOOLEAN /\ early' \in BOOLEAN
      /\ pc \in {"timer_irq", "timer_stop"} => early'
      /\ early => early'
      /\ UNCHANGED mainVars
  <2>1. Arrives
    BY DEF Recv, RecvFirst, RecvMore, RecvLate, RecvDrop
  <2> QED
    BY <2>1, ArrivingByte
<1>b. Stored \in Seq(Byte) /\ Len(Stored) <= BufSize /\ Len(Stored) \in Nat
  BY <1>a, AppendByte, BusAssumption DEF Stored, TypeOK, BusAssumption
<1>c. 0 \in Nat /\ Len(req) \in Nat
  BY DEF TypeOK
<1>1. CASE RecvFirst
  <2>1. status \in {"INIT", "IDLE"} /\ req = <<>>
    BY <1>1 DEF RecvFirst, Starts, Phases
  <2>2. Len(req') = 1 /\ req' = Stored /\ status' = "RECV" /\ tcnt' = 0
    BY <1>1, <1>a, <2>1, BusAssumption DEF RecvFirst, Stored, BusAssumption
  <2>3. TimerAfterRecv(1) /\ UNCHANGED frame_err
    BY <1>1, <2>2 DEF RecvFirst
  <2>4. running' /\ running' \in BOOLEAN /\ pending' \in BOOLEAN
        /\ ref' \in -RefMax - 1 .. RefMax
    BY <2>3, TimerKept
  <2>5. TypeOK'
    <3>1. /\ tcnt' \in Nat /\ status' \in Statuses
          /\ req' \in Seq(Byte) /\ Len(req') <= BufSize
      BY <1>b, <2>2 DEF Statuses
    <3> QED
      BY <1>a, <2>3, <2>4, <3>1 DEF TypeOK
  <2>6. Phases'
    BY <1>a, <2>1, <2>2 DEF Phases
  <2> QED
    BY <2>4, <2>5, <2>6 DEF Timed
<1>2. CASE RecvMore
  <2>1. status = "RECV" /\ req' = Stored /\ tcnt' = 0 /\ UNCHANGED <<status, frame_err>>
        /\ TimerAfterRecv(Len(Stored))
    BY <1>2 DEF RecvMore
  <2>2. /\ running' \in BOOLEAN /\ pending' \in BOOLEAN
        /\ ref' \in -RefMax - 1 .. RefMax
        /\ running => running'
    BY <1>b, <2>1, TimerKept
  <2>3. TypeOK'
    BY <1>a, <1>b, <1>c, <2>1, <2>2 DEF TypeOK
  <2>4. Phases'
    BY <1>a, <2>1 DEF Phases
  <2>5. Timed'
    BY <1>a, <2>1, <2>2 DEF Timed, Receiving, TypeOK
  <2> QED
    BY <2>3, <2>4, <2>5
<1>3. CASE RecvLate
  <2>1. status = "CTRL" /\ tcnt' = 0 /\ frame_err' = TRUE /\ UNCHANGED <<status, req>>
        /\ TimerAfterRecv(Len(req))
    BY <1>3 DEF RecvLate
  <2>2. /\ running' \in BOOLEAN /\ pending' \in BOOLEAN
        /\ ref' \in -RefMax - 1 .. RefMax
        /\ running => running'
    BY <1>c, <2>1, TimerKept
  <2>3. TypeOK'
    BY <1>a, <1>c, <2>1, <2>2 DEF TypeOK
  <2>4. Phases'
    BY <1>a, <2>1 DEF Phases
  <2>5. Timed'
    BY <1>a, <2>1, <2>2 DEF Timed, Receiving, TypeOK
  <2> QED
    BY <2>3, <2>4, <2>5
<1>4. CASE RecvDrop
  <2>1. ~Receiving /\ UNCHANGED <<status, tcnt, req, frame_err>> /\ TimerAfterRecv(Len(req))
    BY <1>4 DEF RecvDrop, ctxVars
  <2>2. /\ running' \in BOOLEAN /\ pending' \in BOOLEAN
        /\ ref' \in -RefMax - 1 .. RefMax
    BY <1>c, <2>1, TimerKept
  <2>3. TypeOK'
    BY <1>a, <2>1, <2>2 DEF TypeOK
  <2>4. Phases'
    BY <1>a, <2>1 DEF Phases
  <2>5. Timed'
    BY <2>1 DEF Timed, Receiving
  <2> QED
    BY <2>3, <2>4, <2>5
<1> QED
  BY <1>1, <1>2, <1>3, <1>4 DEF Recv

\* The timer's interrupt leaves the inductive invariant.
LEMMA TimerInv == IInv /\ Timer => IInv'
<1> SUFFICES ASSUME IInv, Timer PROVE IInv'
  OBVIOUS
<1> USE DEF IInv, mainVars, busVars, Tick
<1>1. CASE TickIdle
  <2>1. /\ ~Receiving /\ pending' = FALSE /\ tcnt' \in Nat
        /\ status' = status \/ (status = "INIT" /\ status' = "IDLE")
        /\ UNCHANGED <<req, frame_err, ref, running, mainVars, busVars>>
    BY <1>1 DEF TickIdle, TypeOK
  <2>2. TypeOK'
    BY <2>1 DEF TypeOK, Statuses
  <2>3. Phases'
    BY <2>1 DEF Phases
  <2> QED
    BY <2>1, <2>2, <2>3 DEF Timed, Receiving
<1>2. CASE TickRecv
  <2>1. /\ status = "RECV" /\ pending' = FALSE /\ tcnt' \in Nat
        /\ status' \in {"RECV", "CTRL"}
        /\ UNCHANGED <<req, frame_err, ref, running, mainVars, busVars>>
    BY <1>2 DEF TickRecv, TypeOK
  <2>2. TypeOK'
    BY <2>1 DEF TypeOK, Statuses
  <2>3. Phases'
    BY <2>1 DEF Phases
  <2> QED
    BY <2>1, <2>2, <2>3 DEF Timed, Receiving
<1>3. CASE TickWait
  <2>1. /\ pending' = FALSE /\ tcnt' \in Nat
        /\ UNCHANGED <<status, req, frame_err, ref, running, mainVars, busVars>>
    BY <1>3 DEF TickWait, TypeOK
  <2> QED
    BY <2>1 DEF TypeOK, Phases, Timed, Receiving
<1>4. CASE TickEnd
  <2>1. /\ status = "CTRL" /\ pending' = FALSE /\ tcnt \in Nat
        /\ UNCHANGED <<mainVars, busVars>>
    BY <1>4 DEF TickEnd, TypeOK
  <2>2. ref' \in -RefMax - 1 .. RefMax /\ running' \in BOOLEAN
    BY <1>4, CountInRange, BusAssumption
    DEF TickEnd, TimerDisable, TypeOK, BusAssumption
  <2>3. CASE frame_err
    <3>1. status' = "IDLE" /\ tcnt' = 0 /\ req' = <<>> /\ frame_err' = FALSE
      BY <1>4, <2>3 DEF TickEnd
    <3>2. req' \in Seq(Byte) /\ Len(req') <= BufSize
      BY <3>1, EmptyBuffer, BusAssumption DEF BusAssumption
    <3>3. tcnt' \in Nat /\ frame_err' \in BOOLEAN /\ status' \in Statuses
      BY <3>1 DEF Statuses
    <3>4. TypeOK'
      BY <2>1, <2>2, <3>2, <3>3 DEF TypeOK
    <3>5. Phases'
      BY <2>1, <3>1 DEF Phases
    <3> QED
      BY <3>1, <3>4, <3>5 DEF Timed, Receiving
  <2>4. CASE ~frame_err
    <3>1. status' = "FINISH" /\ tcnt' = tcnt + 1 /\ UNCHANGED <<req, frame_err>>
      BY <1>4, <2>4 DEF TickEnd
    <3>2. tcnt' \in Nat /\ status' \in Statuses
      BY <2>1, <3>1 DEF Statuses
    <3>3. TypeOK'
      BY <2>1, <2>2, <3>1, <3>2 DEF TypeOK
    <3>4. Phases'
      BY <2>1, <3>1 DEF Phases
    <3> QED
      BY <3>1, <3>3, <3>4 DEF Timed, Receiving
  <2> QED
    BY <2>3, <2>4
<1> QED
  BY <1>1, <1>2, <1>3, <1>4 DEF Timer

\* What is parsed is a frame of the bus, or none.
LEMMA WholeFrameNumber == IInv => WholeFrame(req) \in 0 .. MaxFrames
<1> SUFFICES ASSUME IInv, req # <<>> PROVE req[1][1] \in 0 .. MaxFrames
  BY BusAssumption DEF WholeFrame, BusAssumption
<1>1. req[1] \in Byte
  BY DEF IInv, TypeOK
<1> QED
  BY <1>1, BusAssumption DEF Byte, BusAssumption

\* Each step of the main loop leaves the inductive invariant.
LEMMA MainInv == IInv /\ Main => IInv'
<1> SUFFICES ASSUME IInv, Main PROVE IInv'
  OBVIOUS
<1> USE DEF IInv, ctxVars, timVars, busVars
<1>1. CASE EnableTimerIrq
  BY <1>1 DEF EnableTimerIrq, TypeOK, Phases, Timed, Receiving
<1>2. CASE StopTimer
  BY <1>2 DEF StopTimer, TypeOK, Phases, Timed, Receiving
<1>3. CASE FrameReady
  BY <1>3 DEF FrameReady, TypeOK, Phases, Timed, Receiving
<1>4. CASE NothingReady
  BY <1>4 DEF NothingReady, vars, mainVars, TypeOK, Phases, Timed, Receiving
<1>5. CASE ParseRequest
  <2>1. resp' \in 0 .. MaxFrames /\ sends' \in BOOLEAN
    BY <1>5, WholeFrameNumber, BusAssumption DEF ParseRequest, Sends, TypeOK, BusAssumption
  <2> QED
    BY <1>5, <2>1 DEF ParseRequest, TypeOK, Phases, Timed, Receiving
<1>6. CASE Answer
  <2>1. answers' \in Seq((0 .. MaxFrames) \X (1 .. MaxFrames))
    <3>1. CASE sends /\ resp # 0
      <4>1. resp \in 1 .. MaxFrames
        BY <3>1, BusAssumption DEF TypeOK, BusAssumption
      <4>2. <<WholeFrame(req), resp>> \in (0 .. MaxFrames) \X (1 .. MaxFrames)
        BY <4>1, WholeFrameNumber
      <4> QED
        BY <1>6, <3>1, <4>2 DEF Answer, TypeOK
    <3>2. CASE ~(sends /\ resp # 0)
      BY <1>6, <3>2 DEF Answer, TypeOK
    <3> QED
      BY <3>1, <3>2
  <2>2. /\ pc = "answer" /\ pc' = "set_idle" /\ sends' = FALSE
        /\ UNCHANGED <<ctxVars, timVars, resp, store, busVars>>
    BY <1>6 DEF Answer
  <2>3. TypeOK'
    BY <2>1, <2>2 DEF TypeOK
  <2>4. Phases' /\ Timed'
    BY <2>2 DEF Phases, Timed, Receiving
  <2> QED
    BY <2>3, <2>4
<1>7. CASE SetIdle
  <2>1. /\ pc = "set_idle" /\ status = "FINISH" /\ store \in 1 .. 4
        /\ UNCHANGED <<timVars, resp, sends, answers, busVars>>
    BY <1>7 DEF SetIdle, TypeOK, Phases
  <2>2. CASE store \in {1, 2, 3}
    <3>1. /\ UNCHANGED <<status, pc>> /\ store' = store + 1
          /\ frame_err' = frame_err \/ frame_err' = FALSE
          /\ tcnt' = tcnt \/ tcnt' = 0
      BY <1>7, <2>1, <2>2 DEF SetIdle, IdleStores
    <3>2. store # 3 => req' = req
      BY <1>7, <2>1, <2>2 DEF SetIdle, IdleStores
    <3>3. store = 3 => req' = <<>>
      BY <1>7, <2>1, <2>2 DEF SetIdle, IdleStores
    <3>4. req' \in Seq(Byte) /\ Len(req') <= BufSize
      <4>1. CASE req' = req
        BY <4>1 DEF TypeOK
      <4>2. CASE req' = <<>>
        BY <4>2, EmptyBuffer, BusAssumption DEF BusAssumption
      <4> QED
        BY <3>2, <3>3, <4>1, <4>2
    <3>5. store' \in 1 .. 4 /\ tcnt' \in Nat /\ frame_err' \in BOOLEAN
      <4>1. store' \in 1 .. 4
        BY <2>2, <3>1
      <4>2. tcnt' \in Nat
        BY <3>1 DEF TypeOK
      <4>3. frame_err' \in BOOLEAN
        BY <3>1, Zenon DEF TypeOK
      <4> QED
        BY <4>1, <4>2, <4>3
    <3>6. TypeOK'
      BY <2>1, <3>1, <3>4, <3>5 DEF TypeOK
    <3>7. Phases'
      <4>1. store' = 4 => req' = <<>>
        BY <2>2, <3>1, <3>3
      <4> QED
        BY <2>1, <3>1, <4>1 DEF Phases
    <3> QED
      BY <2>1, <3>1, <3>6, <3>7 DEF Timed, Receiving
  <2>3. CASE store = 4
    <3>1. /\ status' = "IDLE" /\ store' = 1 /\ pc' = "loop"
          /\ UNCHANGED <<req, tcnt, frame_err>>
      BY <1>7, <2>1, <2>3 DEF SetIdle, IdleStores
    <3>2. req = <<>>
      BY <2>1, <2>3 DEF Phases
    <3>3. TypeOK'
      BY <2>1, <3>1 DEF TypeOK, Statuses
    <3>4. Phases'
      BY <2>1, <3>1, <3>2 DEF Phases
    <3> QED
      BY <3>1, <3>3, <3>4 DEF Timed, Receiving
  <2> QED
    BY <2>1, <2>2, <2>3
<1> QED
  BY <1>1, <1>2, <1>3, <1>4, <1>5, <1>6, <1>7 DEF Main

\* So does the passing of time.
LEMMA ElapseInv == IInv /\ Elapse => IInv'
<1> SUFFICES ASSUME IInv, Elapse PROVE IInv'
  OBVIOUS
<1>1. quiet' \in 0 .. MinSilence /\ pending' \in BOOLEAN /\ polite' \in BOOLEAN
  BY BusAssumption DEF Elapse, IInv, TypeOK, BusAssumption
<1> QED
  BY <1>1 DEF Elapse, ctxVars, mainVars, IInv, TypeOK, Phases, Timed, Receiving

LEMMA NextInv == IInv /\ [Next]_vars => IInv'
<1> SUFFICES ASSUME IInv, [Next]_vars PROVE IInv'
  OBVIOUS
<1>1. CASE UNCHANGED vars
  BY <1>1 DEF vars, ctxVars, timVars, mainVars, busVars, IInv, TypeOK, Phases, Timed,
     Receiving
<1> QED
  BY <1>1, RecvInv, TimerInv, MainInv, ElapseInv DEF Next
-----------------------------------------------------------------------------
\* The inductive invariant holds in every state: the types, the bounds of the buffer,
\* and the hand-over of the buffer between the interrupts and the main loop.
THEOREM Invariance == Spec => []IInv
<1> QED
  BY InitInv, NextInv, PTL DEF Spec

\* While a frame is received TMR0 runs: slave_recv, the interrupt of TMR0 and
\* modbus_timer_init between them never leave a frame without its timer, although the
\* count of users wraps, unless a byte arrived before modbus_timer_init was done.
THEOREM ReceptionTimed == Spec => []Timed
<1> QED
  BY Invariance, PTL DEF IInv

\* As long as a frame is received and fits, the last byte of the buffer is the last
\* byte of the bus: why the next byte continues it.
Latest ==
    status = "RECV" /\ req # <<>> /\ Len(req) < BufSize =>
        req[Len(req)] = <<Len(frames), put>>
Stream == Unbroken /\ Latest

\* Storing the byte that arrives continues the buffer.
LEMMA StoreContinues ==
    ASSUME IInv, Stream, Arrives, req' = Stored, status' = "RECV",
           status = "RECV" \/ req = <<>>
    PROVE  Stream'
<1>1. Len(frames) \in Nat /\ put \in Nat /\ frames \in Seq(Frame)
  BY DEF IInv, TypeOK
<1>2. ThisByte = <<Len(frames), put + 1>> \/ ThisByte = <<Len(frames) + 1, 1>>
  <2>1. CASE Mid /\ put' = put + 1 /\ UNCHANGED <<frames, polite>>
    BY <2>1 DEF ThisByte
  <2>2. CASE (\E f \in [kind : Kinds, len : 1 .. MaxLen] : frames' = Append(frames, f))
             /\ put' = 1
    <3>1. PICK f \in [kind : Kinds, len : 1 .. MaxLen] : frames' = Append(frames, f)
      BY <2>2
    <3>2. f \in Frame
      BY BusAssumption DEF BusAssumption, Frame
    <3>3. Len(frames') = Len(frames) + 1
      BY <1>1, <3>1, <3>2
    <3> QED
      BY <2>2, <3>3 DEF ThisByte
  <2> QED
    BY <2>1, <2>2 DEF Arrives, NextByte
<1>3. ThisByte \in Byte /\ ThisByte = <<Len(frames'), put'>>
  BY ArrivingByte DEF ThisByte
<1>4. req \in Seq(Byte) /\ Len(req) \in Nat /\ Len(req) <= BufSize /\ BufSize \in Nat
  BY BusAssumption DEF IInv, TypeOK, BusAssumption
<1>5. CASE Len(req) < BufSize
  <2>1. /\ req' = Append(req, ThisByte)
        /\ Len(req') = Len(req) + 1
        /\ req'[Len(req) + 1] = ThisByte
        /\ \A i \in 1 .. Len(req) : req'[i] = req[i]
    BY <1>3, <1>4, <1>5 DEF Stored
  <2>2. ASSUME NEW i \in 1 .. Len(req') - 1
        PROVE  Follows(req'[i], req'[i + 1])
    <3>1. CASE i < Len(req)
      <4>1. i \in 1 .. Len(req) - 1 /\ i \in 1 .. Len(req) /\ i + 1 \in 1 .. Len(req)
        BY <1>4, <2>1, <3>1
      <4>2. req'[i] = req[i] /\ req'[i + 1] = req[i + 1]
        BY <2>1, <4>1
      <4>3. Follows(req[i], req[i + 1])
        BY <4>1 DEF Stream, Unbroken
      <4> QED
        BY <4>2, <4>3
    <3>2. CASE i = Len(req)
      <4>1. req # <<>> /\ status = "RECV"
        BY <1>4, <3>2, EmptyBuffer
      <4>2. req'[i] = <<Len(frames), put>>
        BY <1>4, <1>5, <2>1, <3>2, <4>1 DEF Stream, Latest
      <4>3. req'[i + 1] = ThisByte
        BY <2>1, <3>2
      <4>4. Follows(<<Len(frames), put>>, ThisByte)
        BY <1>1, <1>2 DEF Follows
      <4> QED
        BY <4>2, <4>3, <4>4
    <3> QED
      BY <1>4, <2>1, <3>1, <3>2
  <2>3. Unbroken'
    BY <2>2 DEF Unbroken
  <2>4. Latest'
    BY <1>3, <2>1 DEF Latest
  <2> QED
    BY <2>3, <2>4 DEF Stream
<1>6. CASE ~(Len(req) < BufSize)
  <2>1. req' = req
    BY <1>6 DEF Stored
  <2>2. Unbroken'
    BY <2>1 DEF Stream, Unbroken
  <2>3. Latest'
    BY <1>6, <2>1 DEF Latest
  <2> QED
    BY <2>2, <2>3 DEF Stream
<1> QED
  BY <1>5, <1>6

\* A step that stores no byte keeps the buffer, or empties it, and never goes back to
\* receiving.
LEMMA OthersKeep ==
    ASSUME Stream,
           \/ req' = req /\ (status' = "RECV" => UNCHANGED <<status, frames, put>>)
           \/ req' = <<>> /\ status' # "RECV"
    PROVE  Stream'
<1>1. CASE req' = req /\ (status' = "RECV" => UNCHANGED <<status, frames, put>>)
  <2>1. Unbroken'
    BY <1>1 DEF Stream, Unbroken
  <2>2. Latest'
    BY <1>1 DEF Stream, Latest
  <2> QED
    BY <2>1, <2>2 DEF Stream
<1>2. CASE req' = <<>> /\ status' # "RECV"
  <2>1. Len(req') = 0
    BY <1>2, EmptyBuffer
  <2>2. Unbroken'
    BY <2>1 DEF Unbroken
  <2> QED
    BY <1>2, <2>2 DEF Stream, Latest
<1> QED
  BY <1>1, <1>2

LEMMA StreamInv == IInv /\ Stream /\ [Next]_vars => Stream'
<1> SUFFICES ASSUME IInv, Stream, [Next]_vars PROVE Stream'
  OBVIOUS
<1>1. CASE RecvFirst
  <2>1. Arrives /\ req' = Stored /\ status' = "RECV" /\ req = <<>>
    BY <1>1 DEF RecvFirst, Starts, IInv, Phases
  <2> QED
    BY <2>1, StoreContinues
<1>2. CASE RecvMore
  <2>1. Arrives /\ req' = Stored /\ status' = "RECV" /\ status = "RECV"
    BY <1>2 DEF RecvMore
  <2> QED
    BY <2>1, StoreContinues
<1>3. CASE RecvLate \/ RecvDrop
  <2>1. req' = req /\ status' # "RECV"
    BY <1>3 DEF RecvLate, RecvDrop, Receiving, ctxVars
  <2> QED
    BY <2>1, OthersKeep
<1>4. CASE Elapse
  <2>1. req' = req /\ UNCHANGED <<status, frames, put>>
    BY <1>4 DEF Elapse, ctxVars
  <2> QED
    BY <2>1, OthersKeep
<1>5. CASE TickIdle \/ TickRecv \/ TickWait
  <2>1. req' = req /\ (status' = "RECV" => UNCHANGED <<status, frames, put>>)
    BY <1>5 DEF TickIdle, TickRecv, TickWait, Receiving, busVars
  <2> QED
    BY <2>1, OthersKeep
<1>6. CASE TickEnd
  <2>1. (req' = req \/ req' = <<>>) /\ status' # "RECV"
    BY <1>6 DEF TickEnd
  <2> QED
    BY <2>1, OthersKeep
<1>7. CASE Main
  <2>1. CASE SetIdle
    <3>1. pc = "set_idle" /\ status = "FINISH" /\ store \in 1 .. 4
      BY <2>1 DEF SetIdle, IInv, TypeOK, Phases
    <3>2. req' = req \/ req' = <<>>
      BY <2>1, <3>1 DEF SetIdle
    <3>3. status' # "RECV"
      BY <2>1, <3>1 DEF SetIdle
    <3> QED
      BY <3>2, <3>3, OthersKeep
  <2>2. CASE ~SetIdle
    <3>1. req' = req /\ UNCHANGED <<status, frames, put>>
      BY <1>7, <2>2 DEF Main, EnableTimerIrq, StopTimer, FrameReady, NothingReady,
         ParseRequest, Answer, ctxVars, busVars, vars
    <3> QED
      BY <3>1, OthersKeep
  <2> QED
    BY <2>1, <2>2
<1>8. CASE UNCHANGED vars
  <2>1. req' = req /\ UNCHANGED <<status, frames, put>>
    BY <1>8 DEF vars, ctxVars, busVars
  <2> QED
    BY <2>1, OthersKeep
<1> QED
  BY <1>1, <1>2, <1>3, <1>4, <1>5, <1>6, <1>7, <1>8 DEF Next, Recv, Timer

\* The buffer never joins bytes that did not follow one another on the bus: neither
\* across a frame that was handled, nor across a byte that was dropped, whenever the
\* interrupts strike.
THEOREM UnbrokenStream == Spec => []Unbroken
<1>1. Init => Stream
  <2> SUFFICES ASSUME Init PROVE Stream
    OBVIOUS
  <2>1. req = <<>> /\ Len(req) = 0
    BY EmptyBuffer DEF Init
  <2> QED
    BY <2>1 DEF Stream, Unbroken, Latest
<1>2. Stream => Unbroken
  BY DEF Stream
<1> QED
  BY <1>1, <1>2, StreamInv, Invariance, PTL DEF Spec

\* No interrupt takes or changes the frame that the main loop parses and answers.
THEOREM BufferIsHeld == Spec => BufferHeld
<1>1. IInv /\ [Next]_vars => [Working => req' = req /\ status' = status]_vars
  <2> SUFFICES ASSUME IInv, Next, Working PROVE req' = req /\ status' = status
    OBVIOUS
  <2>1. status = "FINISH" /\ pc \in {"parse", "answer"}
    BY DEF IInv, Phases, Working
  <2>2. CASE Elapse
    BY <2>2 DEF Elapse, ctxVars
  <2>3. CASE Recv
    BY <2>1, <2>3 DEF Recv, RecvFirst, RecvMore, RecvLate, RecvDrop, Starts, ctxVars
  <2>4. CASE Timer
    BY <2>1, <2>4 DEF Timer, TickIdle, TickRecv, TickWait, TickEnd
  <2>5. CASE Main
    BY <2>1, <2>5 DEF Main, EnableTimerIrq, StopTimer, FrameReady, NothingReady,
       ParseRequest, Answer, SetIdle, ctxVars
  <2> QED
    BY <2>2, <2>3, <2>4, <2>5 DEF Next
<1> QED
  BY <1>1, Invariance, PTL DEF Spec, BufferHeld
-----------------------------------------------------------------------------
(***************************************************************************)
(* What the count of TMR0 says of the silence on the bus, and that senders *)
(* who keep to the rules are understood, for every number, length and kind *)
(* of frames.                                                              *)
(***************************************************************************)
\* The periods since the last byte, the one whose interrupt is still to be served
\* included.
Due == tcnt + (IF pending THEN 1 ELSE 0)

\* They are the silence, or one more: the byte may have come late in a period.
Measured ==
    Receiving /\ ~early =>
        /\ Due >= quiet
        /\ Due <= quiet + 1 \/ quiet = MinSilence
        /\ status = "RECV" => tcnt <= 2

\* While a frame is received, the main loop waits for it.
LEMMA ReceivingInLoop ==
    ASSUME IInv, Receiving, ~early
    PROVE  pc = "loop" /\ running
BY DEF IInv, TypeOK, Phases, Timed, Receiving

\* The numbers the timer's periods are compared with.
LEMMA CountTypes ==
    ASSUME IInv
    PROVE  /\ tcnt \in Nat /\ quiet \in Nat /\ quiet <= MinSilence
           /\ MaxGap \in Nat /\ MinSilence \in Nat /\ MaxGap < MinSilence
BY BusAssumption DEF IInv, TypeOK, BusAssumption

\* A period is requested, and served later.
LEMMA ElapseMeasured == IInv /\ Measured /\ Elapse => Measured'
<1> SUFFICES ASSUME IInv, Measured, Elapse, Receiving', ~early' PROVE Measured'
  BY DEF Measured
<1>1. UNCHANGED <<status, tcnt, early>> /\ (pending => pc = "timer_irq")
      /\ quiet' = (IF quiet < MinSilence THEN quiet + 1 ELSE quiet)
      /\ pending' = (pending \/ running)
  BY DEF Elapse, ctxVars
<1>2. Receiving /\ ~early
  BY <1>1 DEF Receiving
<1>3. ~pending /\ pending'
  BY <1>1, <1>2, ReceivingInLoop
<1>4. Due = tcnt /\ Due' = tcnt + 1
  BY <1>1, <1>3, CountTypes DEF Due
<1> QED
  BY <1>1, <1>2, <1>4, CountTypes DEF Measured

\* A byte starts the count again.
LEMMA RecvMeasured == IInv /\ Measured /\ Recv => Measured'
<1> SUFFICES ASSUME IInv, Recv, Receiving' PROVE Measured'
  BY DEF Measured
<1>1. ~RecvDrop
  BY DEF RecvDrop, Receiving, ctxVars
<1>2. tcnt' = 0 /\ Arrives
  BY <1>1 DEF Recv, RecvFirst, RecvMore, RecvLate
<1>3. quiet' = 0
  BY <1>2 DEF Arrives
<1>4. Due' = 0 \/ Due' = 1
  BY <1>2 DEF Due
<1> QED
  BY <1>2, <1>3, <1>4 DEF Measured

\* Serving a period leaves their number.
LEMMA TimerMeasured == IInv /\ Measured /\ Timer => Measured'
<1> SUFFICES ASSUME IInv, Measured, Timer, Receiving', ~early' PROVE Measured'
  BY DEF Measured
<1>1. TickRecv \/ TickWait
  BY DEF Timer, TickIdle, TickEnd, Receiving
<1>2. /\ Receiving /\ pending /\ ~pending' /\ tcnt' = tcnt + 1
      /\ UNCHANGED <<quiet, early>>
  BY <1>1 DEF TickRecv, TickWait, Tick, Receiving, busVars
<1>3. Due = tcnt + 1 /\ Due' = tcnt + 1
  BY <1>2, CountTypes DEF Due
<1>4. status' = "RECV" => tcnt + 1 <= 2
  BY <1>1, CountTypes DEF TickRecv, TickWait, Paused
<1> QED
  BY <1>2, <1>3, <1>4 DEF Measured

\* The main loop counts nothing while a frame is received.
LEMMA MainMeasured == IInv /\ Measured /\ Main => Measured'
<1> SUFFICES ASSUME IInv, Measured, Main, Receiving' PROVE Measured'
  BY DEF Measured
<1>1. ~SetIdle
  BY DEF SetIdle, Receiving, IInv, Phases
<1>2. UNCHANGED <<status, tcnt, pending, quiet, early>>
  BY <1>1 DEF Main, EnableTimerIrq, StopTimer, FrameReady, NothingReady, ParseRequest,
     Answer, ctxVars, timVars, busVars, vars
<1> QED
  BY <1>2 DEF Measured, Due, Receiving

LEMMA MeasuredStep == IInv /\ Measured /\ [Next]_vars => Measured'
<1>1. Measured /\ UNCHANGED vars => Measured'
  BY DEF Measured, Due, Receiving, vars, ctxVars, timVars, busVars
<1> QED
  BY <1>1, ElapseMeasured, RecvMeasured, TimerMeasured, MainMeasured DEF Next

LEMMA SilenceMeasured == Spec => []Measured
<1>1. Init => Measured
  BY DEF Init, Measured, Receiving
<1> QED
  BY <1>1, MeasuredStep, Invariance, PTL DEF Spec
-----------------------------------------------------------------------------
\* Only slave_recv puts bytes into the buffer.
LEMMA GrowsByRecv ==
    ASSUME IInv, Next, req # <<>>, Len(req') > Len(req)
    PROVE  RecvMore
<1>1. Len(req) \in Nat
  BY DEF IInv, TypeOK
<1>2. req' # req /\ req' # <<>>
  BY <1>1, EmptyBuffer
<1>3. ~RecvFirst
  BY DEF RecvFirst, Starts, IInv, Phases
<1>4. ~RecvLate /\ ~RecvDrop /\ ~Timer /\ ~Elapse
  BY <1>2 DEF RecvLate, RecvDrop, Timer, TickIdle, TickRecv, TickWait, TickEnd, Elapse,
     ctxVars
<1>5. ~Main
  BY <1>2 DEF Main, EnableTimerIrq, StopTimer, FrameReady, NothingReady, ParseRequest,
     Answer, SetIdle, ctxVars, vars
<1> QED
  BY <1>3, <1>4, <1>5 DEF Next, Recv

\* Only the interrupt of TMR0 finishes a frame.
LEMMA FinishedByTimer ==
    ASSUME IInv, Next, status # "FINISH", status' = "FINISH"
    PROVE  TickEnd
<1>1. ~Recv /\ ~Elapse
  BY DEF Recv, RecvFirst, RecvMore, RecvLate, RecvDrop, Elapse, ctxVars
<1>2. ~Main
  BY DEF Main, EnableTimerIrq, StopTimer, FrameReady, NothingReady, ParseRequest, Answer,
     SetIdle, ctxVars, vars, IInv, Phases
<1> QED
  BY <1>1, <1>2 DEF Next, Timer, TickIdle, TickRecv, TickWait

\* Whatever the senders do and whenever the interrupts come: bytes are joined only
\* across less than two characters of silence, and a frame ends only after three.
THEOREM SilenceKept == Spec => SilenceRespected
<1> DEFINE A == \/ early
                \/ /\ req # <<>> /\ Len(req') > Len(req) => quiet <= 3
                   /\ status # "FINISH" /\ status' = "FINISH" => quiet >= 6
<1>1. IInv /\ Measured /\ [Next]_vars => [A]_ctxVars
  <2> SUFFICES ASSUME IInv, Measured, Next, ~early PROVE A
    BY DEF vars
  <2>1. ASSUME req # <<>>, Len(req') > Len(req) PROVE quiet <= 3
    <3>1. status = "RECV"
      BY <2>1, GrowsByRecv DEF RecvMore
    <3>2. Due >= quiet /\ tcnt <= 2
      BY <3>1 DEF Measured, Receiving
    <3> QED
      BY <3>2, CountTypes DEF Due
  <2>2. ASSUME status # "FINISH", status' = "FINISH" PROVE quiet >= 6
    <3>1. status = "CTRL" /\ pending /\ tcnt + 1 >= 7
      BY <2>2, FinishedByTimer DEF TickEnd, Tick, Ended
    <3>2. Due <= quiet + 1 \/ quiet = MinSilence
      BY <3>1 DEF Measured, Receiving
    <3> QED
      BY <3>1, <3>2, CountTypes, TimingAssumption DEF Due, TimingAssumption
  <2> QED
    BY <2>1, <2>2
<1> QED
  BY <1>1, SilenceMeasured, Invariance, PTL DEF Spec, SilenceRespected
-----------------------------------------------------------------------------
(***************************************************************************)
(* Well-behaved senders.                                                   *)
(***************************************************************************)
\* As much of the frame on the bus as fits the buffer.
Prefix == [i \in 1 .. (IF put <= BufSize THEN put ELSE BufSize) |-> <<Len(frames), i>>]

\* The last byte is one of the last frame.
Placed == frames # <<>> => put \in 1 .. frames[Len(frames)].len

\* Each frame is received from its first byte to its last: no pause is seen in it, and
\* it is finished and handled before the next begins.
Orderly ==
    polite =>
        /\ ~early /\ ~frame_err
        /\ running = Receiving
        /\ pending => Receiving
        /\ ref = IF Receiving THEN 1 ELSE 0
        /\ Mid => status = "RECV" /\ quiet <= MaxGap
        /\ Receiving \/ (status = "FINISH" /\ pc # "set_idle") => put > 0 /\ req = Prefix

\* The two ways in which a byte of a well-behaved sender arrives.
LEMMA PoliteByte ==
    ASSUME IInv, Orderly, Arrives, polite'
    PROVE  /\ polite /\ ~early'
           /\ \/ /\ status = "RECV" /\ Mid /\ put' = put + 1 /\ UNCHANGED frames
              \/ /\ Starts(status) /\ put' = 1 /\ Len(frames') = Len(frames) + 1
<1>1. CASE Mid /\ put' = put + 1 /\ UNCHANGED <<frames, polite>>
  <2>1. polite /\ status = "RECV" /\ ~early
    BY <1>1 DEF Orderly
  <2>2. pc = "loop"
    BY <2>1, ReceivingInLoop DEF Receiving
  <2> QED
    BY <1>1, <2>1, <2>2, Zenon DEF Arrives
<1>2. CASE /\ \E f \in [kind : Kinds, len : 1 .. MaxLen] : frames' = Append(frames, f)
           /\ put' = 1
           /\ polite' = (/\ polite /\ ~Mid /\ quiet = MinSilence
                         /\ pc = "loop" /\ status \in {"INIT", "IDLE"})
  <2>1. polite /\ pc = "loop" /\ status \in {"INIT", "IDLE"}
    BY <1>2, Zenon
  <2>2. ~early'
    BY <2>1, Zenon DEF Arrives, Orderly
  <2>3. PICK f \in [kind : Kinds, len : 1 .. MaxLen] : frames' = Append(frames, f)
    BY <1>2
  <2>4. f \in Frame
    BY BusAssumption DEF BusAssumption, Frame
  <2>5. Len(frames') = Len(frames) + 1
    BY <2>3, <2>4 DEF IInv, TypeOK
  <2> QED
    BY <1>2, <2>1, <2>2, <2>5 DEF Starts
<1> QED
  BY <1>1, <1>2 DEF Arrives, NextByte

\* A byte is put behind the others.
LEMMA RecvOrderly == IInv /\ Orderly /\ Recv => Orderly'
<1> SUFFICES ASSUME IInv, Orderly, Recv, polite' PROVE Orderly'
  BY DEF Orderly
<1>1. Arrives /\ quiet' = 0 /\ pc' = pc
  <2>1. Arrives
    BY DEF Recv, RecvFirst, RecvMore, RecvLate, RecvDrop
  <2> QED
    BY <2>1 DEF Arrives, mainVars
<1>2. polite /\ ~early' /\ ~frame_err /\ ThisByte = <<Len(frames'), put'>>
  BY <1>1, PoliteByte DEF Orderly, ThisByte
<1>3. 0 <= MaxGap /\ BufSize \in Nat /\ BufSize > 1 /\ RefMax \in Nat \ {0}
      /\ req \in Seq(Byte) /\ frames \in Seq(Frame) /\ put \in Nat
      /\ ThisByte \in Byte
  BY <1>1, ArrivingByte, BusAssumption, BufferAssumption
  DEF BusAssumption, BufferAssumption, IInv, TypeOK
<1>4. CASE status = "RECV" /\ Mid /\ put' = put + 1 /\ UNCHANGED frames
  <2>1. /\ status' = "RECV" /\ ~frame_err' /\ req' = Stored /\ TimerAfterRecv(Len(Stored))
    BY <1>2, <1>4 DEF Recv, RecvFirst, RecvMore, RecvLate, RecvDrop, Starts, Receiving
  <2>2. put > 0 /\ req = Prefix /\ running = TRUE /\ ref = 1
    BY <1>2, <1>4 DEF Orderly, Receiving
  <2>3. Len(req) = IF put <= BufSize THEN put ELSE BufSize
    BY <1>3, <2>2 DEF Prefix
  <2>4. Stored = Prefix' /\ Len(Stored) # 1
    <3>1. CASE put < BufSize
      <4>1. Stored = Append(req, ThisByte)
        BY <1>3, <2>3, <3>1 DEF Stored
      <4>2. Prefix' = [i \in 1 .. put + 1 |-> <<Len(frames), i>>]
        BY <1>3, <1>4, <3>1 DEF Prefix
      <4>3. Prefix = [i \in 1 .. put |-> <<Len(frames), i>>]
        BY <1>3, <3>1 DEF Prefix
      <4>4. Append(Prefix, <<Len(frames), put + 1>>)
                = [i \in 1 .. put + 1 |-> <<Len(frames), i>>]
        BY <1>3, <4>3
      <4>5. Stored = Prefix'
        BY <1>2, <1>4, <2>2, <4>1, <4>2, <4>3, <4>4, Zenon
      <4>6. Len(Stored) = put + 1
        BY <1>3, <2>3, <3>1, <4>1
      <4> QED
        BY <1>3, <2>2, <4>5, <4>6
    <3>2. CASE put >= BufSize
      <4>1. Stored = req /\ Len(req) = BufSize
        BY <1>3, <2>3, <3>2 DEF Stored
      <4>2. Prefix' = Prefix
        BY <1>3, <1>4, <3>2 DEF Prefix
      <4> QED
        BY <1>3, <2>2, <4>1, <4>2
    <3> QED
      BY <1>3, <3>1, <3>2
  <2>5. running' = running /\ ref' = ref /\ pending' = pending
    BY <2>1, <2>4 DEF TimerAfterRecv, StartsTimer
  <2>6. put' > 0 /\ req' = Prefix'
    BY <1>3, <1>4, <2>1, <2>4
  <2> QED
    BY <1>1, <1>2, <1>3, <2>1, <2>2, <2>5, <2>6 DEF Orderly, Receiving
<1>5. CASE Starts(status) /\ put' = 1 /\ Len(frames') = Len(frames) + 1
  <2>1. req = <<>> /\ ref = 0
    BY <1>2, <1>5 DEF Starts, IInv, Phases, Orderly, Receiving
  <2>2. Stored = <<ThisByte>> /\ Len(Stored) = 1
    BY <1>3, <2>1 DEF Stored
  <2>3. status' = "RECV" /\ ~frame_err' /\ req' = Stored /\ TimerAfterRecv(1)
    <3>1. RecvFirst
      BY <1>5 DEF Recv, RecvMore, RecvLate, RecvDrop, Starts
    <3> QED
      BY <1>2, <2>2, <3>1 DEF RecvFirst
  <2>4. running' = TRUE /\ ref' = 1 /\ pending' = pending
    BY <1>3, <2>1, <2>3 DEF TimerAfterRecv, StartsTimer, Incremented
  <2>5. Prefix' = [i \in 1 .. 1 |-> <<Len(frames'), i>>]
    BY <1>3, <1>5 DEF Prefix
  <2>6. Prefix' = <<ThisByte>>
    BY <1>2, <1>5, <2>5
  <2>7. req' = Prefix' /\ put' > 0 /\ quiet' <= MaxGap
    BY <1>1, <1>3, <1>5, <2>2, <2>3, <2>6
  <2> QED
    BY <1>2, <2>3, <2>4, <2>7 DEF Orderly, Receiving
<1> QED
  BY <1>1, <1>4, <1>5, PoliteByte

\* Within a frame time passes only up to MaxGap.
LEMMA ElapseOrderly == IInv /\ Orderly /\ Elapse => Orderly'
<1> SUFFICES ASSUME Orderly, Elapse, polite' PROVE Orderly'
  BY DEF Orderly
<1>1. /\ UNCHANGED <<status, req, frame_err, pc, ref, running, frames, put, early>>
      /\ pending' = (pending \/ running)
  BY DEF Elapse, ctxVars, mainVars
<1>2. polite /\ (Mid => quiet' <= MaxGap)
  BY Zenon DEF Elapse
<1>3. Prefix' = Prefix /\ Mid' = Mid
  BY <1>1 DEF Prefix, Mid
<1> QED
  BY <1>1, <1>2, <1>3 DEF Orderly, Receiving

\* So short a silence is not taken for a pause, and what is finished is whole.
LEMMA TimerOrderly == IInv /\ Measured /\ Orderly /\ Timer => Orderly'
<1> SUFFICES ASSUME IInv, Measured, Orderly, Timer, polite' PROVE Orderly'
  BY DEF Orderly
<1>1. pending /\ ~pending' /\ UNCHANGED <<pc, frames, put, quiet, polite, early>>
  BY DEF Timer, TickIdle, TickRecv, TickWait, TickEnd, Tick, mainVars, busVars
<1>2. polite /\ Receiving /\ ~early /\ ~frame_err /\ pc = "loop"
  BY <1>1, ReceivingInLoop DEF Orderly
<1>3. Prefix' = Prefix /\ Mid' = Mid
  BY <1>1 DEF Prefix, Mid
<1>4. put > 0 /\ req = Prefix /\ running = TRUE /\ ref = 1
  BY <1>2 DEF Orderly
<1>5. CASE TickRecv
  <2>1. Mid => tcnt + 1 <= 2
    <3> SUFFICES ASSUME Mid PROVE tcnt + 1 <= 2
      OBVIOUS
    <3>1. quiet <= 1 /\ quiet # MinSilence
      BY <1>2, CountTypes, TimingAssumption DEF Orderly, TimingAssumption
    <3>2. tcnt + 1 <= quiet + 1
      BY <1>1, <1>2, <3>1 DEF Measured, Due
    <3> QED
      BY <3>1, <3>2, CountTypes
  <2>2. Mid => status' = "RECV"
    BY <1>5, <2>1, CountTypes DEF TickRecv, Paused
  <2>3. UNCHANGED <<req, frame_err, ref, running>> /\ status' \in {"RECV", "CTRL"}
    BY <1>5 DEF TickRecv
  <2> QED
    BY <1>1, <1>2, <1>3, <1>4, <2>2, <2>3 DEF Orderly, Receiving
<1>6. CASE TickWait
  BY <1>1, <1>2, <1>3, <1>6 DEF TickWait, Orderly, Receiving
<1>7. CASE TickEnd
  <2>1. status = "CTRL" /\ status' = "FINISH" /\ UNCHANGED <<req, frame_err>>
    BY <1>2, <1>7 DEF TickEnd
  <2>2. ref' = 0 /\ running' = FALSE
    <3>1. Decremented(1) = 0 /\ TimerStops(0)
      BY BusAssumption DEF Decremented, TimerStops, BusAssumption
    <3> QED
      BY <1>4, <1>7, <3>1, Zenon DEF TickEnd, TimerDisable
  <2>3. ~Receiving' /\ Receiving' \in BOOLEAN
    BY <2>1 DEF Receiving
  <2>4. ~Mid
    BY <1>2, <2>1 DEF Orderly
  <2> QED
    BY <1>1, <1>2, <1>3, <1>4, <2>1, <2>2, <2>3, <2>4 DEF Orderly
<1> QED
  BY <1>2, <1>5, <1>6, <1>7 DEF Timer, TickIdle

\* The main loop takes the frame and gives the buffer back.
LEMMA MainOrderly == IInv /\ Orderly /\ Main => Orderly'
<1> SUFFICES ASSUME IInv, Orderly, Main, polite' PROVE Orderly'
  BY DEF Orderly
<1>1. UNCHANGED <<ref, pending, frames, put, quiet, polite, early>>
  BY DEF Main, EnableTimerIrq, StopTimer, FrameReady, NothingReady, ParseRequest, Answer,
     SetIdle, timVars, busVars, vars
<1>2. Prefix' = Prefix /\ Mid' = Mid /\ polite /\ ~early /\ ~frame_err
  BY <1>1 DEF Prefix, Mid, Orderly
<1>3. CASE SetIdle
  <2>1. status = "FINISH" /\ pc = "set_idle"
    BY <1>3 DEF SetIdle, IInv, Phases
  <2>2. status' \in {"FINISH", "IDLE"} /\ ~frame_err'
    BY <1>2, <1>3, <2>1 DEF SetIdle
  <2>3. status' = "FINISH" => pc' = "set_idle"
    BY <1>3, <2>1 DEF SetIdle, IdleStores, IInv, TypeOK
  <2> QED
    BY <1>1, <1>2, <1>3, <2>1, <2>2, <2>3 DEF SetIdle, timVars, Orderly, Receiving
<1>4. CASE StopTimer
  <2>1. status \in {"INIT", "IDLE"}
    BY <1>2, <1>4 DEF StopTimer, IInv, Phases
  <2>2. UNCHANGED <<status, req, frame_err>> /\ running' = FALSE
    BY <1>4 DEF StopTimer, ctxVars
  <2>3. ~Receiving /\ ~Receiving' /\ Receiving' \in BOOLEAN /\ status' # "FINISH"
    BY <2>1, <2>2 DEF Receiving
  <2>4. ~Mid /\ ~pending /\ ref = 0
    BY <1>2, <2>1, <2>3 DEF Orderly
  <2> QED
    BY <1>1, <1>2, <2>2, <2>3, <2>4 DEF Orderly
<1>5. CASE ~SetIdle /\ ~StopTimer
  <2>1. UNCHANGED <<status, req, frame_err, running>>
    BY <1>5 DEF Main, EnableTimerIrq, FrameReady, NothingReady, ParseRequest, Answer,
       ctxVars, timVars, vars
  <2>2. status = "FINISH" /\ pc' # "set_idle" => pc # "set_idle"
    BY <1>5 DEF Main, EnableTimerIrq, FrameReady, NothingReady, ParseRequest, Answer,
       mainVars, vars
  <2> QED
    BY <1>1, <1>2, <2>1, <2>2 DEF Orderly, Receiving
<1> QED
  BY <1>3, <1>4, <1>5

LEMMA OrderlyStep == IInv /\ Measured /\ Orderly /\ [Next]_vars => Orderly'
<1>1. Orderly /\ UNCHANGED vars => Orderly'
  BY DEF Orderly, Prefix, Mid, Receiving, vars, ctxVars, timVars, mainVars, busVars
<1> QED
  BY <1>1, ElapseOrderly, RecvOrderly, TimerOrderly, MainOrderly DEF Next

\* Frames have at least one byte, and the bus carries no more of them than there are.
LEMMA PlacedStep == IInv /\ Placed /\ [Next]_vars => Placed'
<1> SUFFICES ASSUME IInv, Placed, [Next]_vars PROVE Placed'
  OBVIOUS
<1>1. CASE Arrives
  <2>1. CASE Mid /\ put' = put + 1 /\ UNCHANGED <<frames, polite>>
    <3>1. frames # <<>> /\ frames[Len(frames)] \in Frame /\ put \in Nat
      BY <2>1 DEF Mid, IInv, Phases, TypeOK
    <3> QED
      BY <2>1, <3>1 DEF Mid, Placed, Frame
  <2>2. CASE (\E f \in [kind : Kinds, len : 1 .. MaxLen] : frames' = Append(frames, f))
             /\ put' = 1
    <3>1. PICK f \in [kind : Kinds, len : 1 .. MaxLen] : frames' = Append(frames, f)
      BY <2>2
    <3>2. f \in Frame
      BY BusAssumption DEF BusAssumption, Frame
    <3>3. frames'[Len(frames')] = f
      BY <3>1, <3>2 DEF IInv, TypeOK
    <3>4. f.len \in 1 .. MaxLen
      BY <3>2 DEF Frame
    <3> QED
      BY <2>2, <3>3, <3>4, BusAssumption DEF Placed, BusAssumption
  <2> QED
    BY <1>1, <2>1, <2>2 DEF Arrives, NextByte
<1>2. CASE ~Arrives
  <2>1. UNCHANGED <<frames, put>>
    BY <1>2 DEF Next, Recv, RecvFirst, RecvMore, RecvLate, RecvDrop, Timer, TickIdle,
       TickRecv, TickWait, TickEnd, Elapse, Main, EnableTimerIrq, StopTimer, FrameReady,
       NothingReady, ParseRequest, Answer, SetIdle, busVars, vars
  <2> QED
    BY <2>1 DEF Placed
<1> QED
  BY <1>1, <1>2

LEMMA OrderKept == Spec => [](Orderly /\ Placed)
<1>1. Init => Orderly /\ Placed
  <2> SUFFICES ASSUME Init PROVE Orderly /\ Placed
    OBVIOUS
  <2>1. ~Receiving /\ Receiving \in BOOLEAN /\ ~Mid /\ status # "FINISH"
    BY DEF Init, Receiving, Mid
  <2> QED
    BY <2>1 DEF Init, Orderly, Placed
<1> QED
  BY <1>1, OrderlyStep, PlacedStep, SilenceMeasured, Invariance, PTL DEF Spec

\* Whatever the well-behaved senders send: TMR0 runs exactly while a frame is received,
\* and mb_timer_ref is 1 then and 0 otherwise, never drifting.
THEOREM TimerBalanced == Spec => []Balanced
<1>1. Orderly => Balanced
  BY DEF Orderly, Balanced
<1> QED
  BY <1>1, OrderKept, PTL

\* What the main loop parses is the frame of the well-behaved sender, from its first
\* byte to its last or as much as the buffer holds, for frames of every length.
THEOREM FramesExact == Spec => []Exact
<1>1. IInv /\ Orderly /\ Placed => Exact
  <2> SUFFICES ASSUME IInv, Orderly, Placed, pc = "parse", polite
               PROVE  LET n == Len(frames)
                          l == frames[n].len
                      IN  req = [i \in 1 .. (IF l <= BufSize THEN l ELSE BufSize)
                                    |-> <<n, i>>]
    BY DEF Exact
  <2>1. status = "FINISH"
    BY DEF IInv, Phases
  <2>2. put > 0 /\ req = Prefix /\ ~Mid
    BY <2>1 DEF Orderly
  <2>3. frames # <<>> /\ put \in 1 .. frames[Len(frames)].len
    BY <2>2 DEF IInv, Phases, Placed
  <2>4. frames[Len(frames)].len \in Nat
    <3>1. frames[Len(frames)] \in Frame
      BY <2>3 DEF IInv, TypeOK
    <3> QED
      BY <3>1 DEF Frame
  <2>5. put = frames[Len(frames)].len
    BY <2>2, <2>3, <2>4 DEF Mid
  <2> QED
    BY <2>2, <2>5 DEF Prefix
<1> QED
  BY <1>1, OrderKept, Invariance, PTL
=============================================================================
