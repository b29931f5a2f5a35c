------------------------------ MODULE UartRing ------------------------------
(***************************************************************************)
(* utils/ringbuffer.c between UART1_IRQHandler, which writes a byte at a   *)
(* time, and uart_read, with which the main loop takes bytes out for up to *)
(* 100 ms.  Nothing is locked: the handler runs to its end and is one      *)
(* action, the main loop is cut between its accesses to the buffer, and    *)
(* "dlen -= bytes_read" is a load and a store.                             *)
(*                                                                         *)
(* Data: the bytes that are taken in are numbered one after the other,     *)
(* from 0 again after Numbers.                                             *)
(***************************************************************************)
EXTENDS Integers

CONSTANTS
    Size,        \* UART_CACHE_MAX, rb->content_len
    ReadLen,    \* the bytes asked for
    Timeout,    \* ms to wait for them
    Numbers     \* bytes told apart: more than the buffer holds

ASSUME RingAssumption ==
    /\ Size \in Nat \ {0} /\ ReadLen \in Nat \ {0} /\ Timeout \in Nat \ {0}
    /\ Numbers \in Nat /\ Numbers > Size

VARIABLES
    content,    \* rb->content
    head, tail, \* their distance from content; Size is the end of it
    dlen,       \* rb->dlen
    uart_at,    \* where the main loop is in uart_read and ringbuffer_read
    bytes_read, \* of ringbuffer_read
    dlen_load,  \* the load of rb->dlen at its end
    byts_read,  \* of uart_read
    left,       \* ms before uart_read gives up
    next,       \* the number of the next byte taken in
    owed,       \* bytes taken in and not yet read
    raced       \* did a byte come between a load and a store of rb->dlen?

ringVars == <<content, head, tail, dlen>>
readVars == <<uart_at, bytes_read, dlen_load, byts_read, left>>
uartVars == <<ringVars, readVars, next, owed, raced>>

\* ringbuffer_init, in uart_init of debug_init: the interrupt is not enabled yet.
UartInit ==
    /\ content = [i \in 0 .. Size - 1 |-> 0]
    /\ head = 0 /\ tail = 0 /\ dlen = 0
    /\ uart_at = "idle" /\ bytes_read = 0 /\ dlen_load = 0 /\ byts_read = 0 /\ left = 0
    /\ next = 0 /\ owed = 0 /\ raced = FALSE

-----------------------------------------------------------------------------
(***************************************************************************)
(* UART1_IRQHandler, uart_cache_write, ringbuffer_write of one byte        *)
(***************************************************************************)
\* Mutation of Wrapped: the pointer goes back when n bytes just fit.
WrappedSoon(p, n) == IF n >= Size - p THEN 0 ELSE p

\* Where n bytes are put that do not fit before the end.
Wrapped(p, n) == IF n > Size - p THEN 0 ELSE p

\* Mutation of Full: one byte more.
FullLate == dlen > Size
Full == dlen >= Size

\* A full buffer drops the byte.
RecvFull ==
    /\ Full
    /\ UNCHANGED uartVars

RecvByte ==
    /\ ~Full
    /\ content' = [content EXCEPT ![Wrapped(tail, 1)] = next]
    /\ tail' = Wrapped(tail, 1) + 1
    /\ dlen' = dlen + 1
    /\ raced' = (raced \/ uart_at = "store")
    /\ IF raced' THEN owed' = 0 /\ next' = 0
                 ELSE owed' = owed + 1 /\ next' = (next + 1) % Numbers
    /\ UNCHANGED <<head, readVars>>

-----------------------------------------------------------------------------
(***************************************************************************)
(* uart_read, uart_cache_read, ringbuffer_read                             *)
(***************************************************************************)
\* Main.c calls uart_read; the first test of the time comes at once and succeeds.
ReadCall ==
    /\ uart_at = "idle"
    /\ uart_at' = "read" /\ byts_read' = 0 /\ left' = Timeout
    /\ UNCHANGED <<ringVars, bytes_read, dlen_load, next, owed, raced>>

\* A millisecond, by SysTick_Handler.
Elapse ==
    /\ left > 0
    /\ left' = left - 1
    /\ UNCHANGED <<ringVars, uart_at, bytes_read, dlen_load, byts_read, next, owed, raced>>

\* Mutation of Waits: uart_read waits for its bytes as long as it takes.
WaitsOn == TRUE
Waits == left > 0

ReadWait ==
    /\ uart_at = "wait" /\ Waits
    /\ uart_at' = "read"
    /\ UNCHANGED <<ringVars, bytes_read, dlen_load, byts_read, left, next, owed, raced>>

ReadTimeout ==
    /\ uart_at = "wait" /\ ~Waits
    /\ uart_at' = "idle" /\ left' = 0 /\ byts_read' = 0
    /\ UNCHANGED <<ringVars, bytes_read, dlen_load, next, owed, raced>>

ReadNothing ==
    /\ uart_at = "read" /\ dlen = 0
    /\ uart_at' = "wait"
    /\ UNCHANGED <<ringVars, bytes_read, dlen_load, byts_read, left, next, owed, raced>>

\* Mutation of Room: what earlier rounds have put into the caller's buffer is forgotten.
RoomAgain == ReadLen
Room == ReadLen - byts_read

ReadSome ==
    /\ uart_at = "read" /\ dlen > 0
    /\ uart_at' = "copy"
    /\ bytes_read' = IF dlen < Room THEN dlen ELSE Room
    /\ UNCHANGED <<ringVars, dlen_load, byts_read, left, next, owed, raced>>

\* Mutation of HeadAfter: the first part is not subtracted from what remains.
HeadAfterWhole(n) == IF n > Size - head THEN n ELSE head + n

\* A part up to the end of the content, and a part from its start.
HeadAfter(n) == IF n > Size - head THEN n - (Size - head) ELSE head + n

ReadCopy ==
    /\ uart_at = "copy"
    /\ uart_at' = "load"
    /\ head' = HeadAfter(bytes_read)
    /\ owed' = IF raced THEN 0 ELSE owed - bytes_read
    /\ UNCHANGED <<content, tail, dlen, bytes_read, dlen_load, byts_read, left, next, raced>>

ReadLoad ==
    /\ uart_at = "load"
    /\ uart_at' = "store" /\ dlen_load' = dlen
    /\ UNCHANGED <<ringVars, bytes_read, byts_read, left, next, owed, raced>>

\* Mutation of DlenAfter: dlen is not brought up to date.
DlenAfterStale == dlen_load
DlenAfter == dlen_load - bytes_read

\* The end of ringbuffer_read; uart_read returns when it has all it asked for.
ReadStore ==
    /\ uart_at = "store"
    /\ dlen' = DlenAfter
    /\ IF byts_read + bytes_read >= ReadLen
       THEN uart_at' = "idle" /\ left' = 0 /\ byts_read' = 0
       ELSE uart_at' = "wait" /\ UNCHANGED left /\ byts_read' = byts_read + bytes_read
    /\ bytes_read' = 0 /\ dlen_load' = 0
    /\ UNCHANGED <<content, head, tail, next, owed, raced>>

-----------------------------------------------------------------------------
UartRecv == RecvFull \/ RecvByte
UartMain == ReadCall \/ ReadWait \/ ReadTimeout \/ ReadNothing \/ ReadSome
            \/ ReadCopy \/ ReadLoad \/ ReadStore
UartNext == UartRecv \/ Elapse \/ UartMain
UartSpec == UartInit /\ [][UartNext]_uartVars
-----------------------------------------------------------------------------
(***************************************************************************)
(* Properties                                                              *)
(***************************************************************************)
\* The types of the variables.
UartTypeOK ==
    /\ content \in [0 .. Size - 1 -> 0 .. Numbers - 1]
    /\ head \in 0 .. Size /\ tail \in 0 .. Size /\ dlen \in 0 .. Size
    /\ uart_at \in {"idle", "wait", "read", "copy", "load", "store"}
    /\ bytes_read \in 0 .. Size /\ dlen_load \in 0 .. Size
    /\ byts_read \in 0 .. ReadLen
    /\ left \in 0 .. Timeout
    /\ next \in 0 .. Numbers - 1 /\ owed \in 0 .. Size
    /\ raced \in BOOLEAN

Reading == uart_at \in {"copy", "load", "store"}

\* Whatever the interrupt does between the load and the store of dlen: what is read is
\* in the buffer, dlen never falls below 0, and uart_read never writes more than the
\* caller has room for.
InBounds ==
    /\ Reading => bytes_read > 0 /\ bytes_read <= dlen
    /\ ~Reading => bytes_read = 0
    /\ uart_at = "store" => bytes_read <= dlen_load /\ dlen_load <= dlen
    /\ byts_read + bytes_read <= ReadLen

\* The bytes between head and tail, when dlen is still to be brought up to date.
Available == IF uart_at \in {"load", "store"} THEN dlen - bytes_read ELSE dlen

\* Without such a race dlen is what lies between the two pointers, each of which may
\* stand at the end of the buffer or at its start, and all bytes that were taken in
\* and not read.
Aligned ==
    ~raced =>
        /\ owed = Available
        /\ uart_at = "store" => dlen_load = dlen
        /\ tail \in {head + Available, head + Available - Size}

\* Without such a race the bytes come out in the order in which they came in, none
\* lost behind one that was taken, none twice.
Fifo ==
    ~raced => \A i \in 0 .. owed - 1 :
                  content[(head + i) % Size] = (next - owed + i) % Numbers

\* The wait for bytes ends, however many come and however few.
ReadEnds == []<>(uart_at = "idle")

\* A full buffer, which drops what comes, has room again.
Drains == []<>(dlen < Size)
=============================================================================
