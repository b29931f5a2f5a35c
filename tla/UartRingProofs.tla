--------------------------- MODULE UartRingProofs ---------------------------
(***************************************************************************)
(* Proofs about UartRing, for every size of the buffer and of the reads.   *)
(***************************************************************************)
EXTENDS UartRing, TLAPS

\* uart_read goes on only while it has room for more.
Hungry == uart_at \in {"wait", "read"} => byts_read < ReadLen

\* What the interrupt and uart_read keep of the buffer between them.
RingInv == UartTypeOK /\ InBounds /\ Aligned /\ Hungry

\* The next number is a number.
LEMMA NextNumber == ASSUME NEW n \in 0 .. Numbers - 1
                    PROVE  (n + 1) % Numbers \in 0 .. Numbers - 1
<1>1. Numbers \in Nat /\ Numbers > 1
  BY RingAssumption DEF RingAssumption
<1>2. CASE n + 1 = Numbers
  <2>1. (n + 1) % Numbers = 0
    BY <1>1, <1>2
  <2> QED
    BY <2>1, <1>1
<1>3. CASE n + 1 < Numbers
  <2>1. (n + 1) % Numbers = n + 1
    BY <1>1, <1>3
  <2> QED
    BY <2>1, <1>1, <1>3
<1> QED
  BY <1>1, <1>2, <1>3

\* The program starts with the invariant.
LEMMA RingInitInv == UartInit => RingInv
<1> SUFFICES ASSUME UartInit PROVE RingInv
  OBVIOUS
<1>1. /\ Size \in Nat /\ Size > 0 /\ ReadLen \in Nat /\ ReadLen > 0 /\ Timeout \in Nat
      /\ Numbers \in Nat /\ Numbers > Size
  BY RingAssumption DEF RingAssumption
<1>2. /\ 0 \in 0 .. Size /\ 0 \in 0 .. ReadLen /\ 0 \in 0 .. Timeout
      /\ 0 \in 0 .. Numbers - 1
  BY <1>1
<1>3. content \in [0 .. Size - 1 -> 0 .. Numbers - 1]
  BY <1>2 DEF UartInit
<1>4. UartTypeOK
  BY <1>2, <1>3 DEF UartInit, UartTypeOK
<1>5. InBounds
  BY <1>1 DEF UartInit, InBounds, Reading
<1>6. Aligned
  BY <1>1 DEF UartInit, Aligned, Available
<1>7. Hungry
  BY <1>1 DEF UartInit, Hungry
<1> QED
  BY <1>4, <1>5, <1>6, <1>7 DEF RingInv

\* A byte is put where the buffer has room for it.
LEMMA RecvInv == RingInv /\ RecvByte => RingInv'
<1> SUFFICES ASSUME RingInv, RecvByte PROVE RingInv'
  OBVIOUS
<1> USE RingAssumption DEF RingAssumption, RingInv, readVars
<1>1. /\ ~Full
      /\ content' = [content EXCEPT ![Wrapped(tail, 1)] = next]
      /\ tail' = Wrapped(tail, 1) + 1
      /\ dlen' = dlen + 1
      /\ raced' = (raced \/ uart_at = "store")
      /\ raced' => owed' = 0 /\ next' = 0
      /\ ~raced' => owed' = owed + 1 /\ next' = (next + 1) % Numbers
      /\ UNCHANGED <<head, readVars>>
  BY DEF RecvByte
<1>2. dlen < Size /\ dlen \in 0 .. Size
  BY <1>1 DEF Full, UartTypeOK
<1>3. Wrapped(tail, 1) \in 0 .. Size - 1 /\ tail' \in 1 .. Size
  BY <1>1 DEF Wrapped, UartTypeOK
<1>4. content' \in [0 .. Size - 1 -> 0 .. Numbers - 1]
  BY <1>1, <1>3 DEF UartTypeOK
<1>5. next' \in 0 .. Numbers - 1
  BY <1>1, NextNumber DEF UartTypeOK
<1>6. raced' \in BOOLEAN
  <2>1. raced' = (raced \/ uart_at = "store") /\ raced \in BOOLEAN
    BY <1>1 DEF UartTypeOK
  <2> QED
    BY <2>1, Zenon
<1>7. InBounds' /\ Hungry'
  BY <1>1, <1>2 DEF InBounds, Hungry, Reading, UartTypeOK
<1>8. CASE raced'
  BY <1>1, <1>2, <1>3, <1>4, <1>5, <1>6, <1>7, <1>8 DEF UartTypeOK, Aligned
<1>9. CASE ~raced'
  <2>1. ~raced /\ uart_at # "store" /\ owed' = owed + 1
    BY <1>1, <1>9
  <2>2. owed = Available /\ tail \in {head + Available, head + Available - Size}
    BY <2>1 DEF Aligned
  <2>3. Available \in 0 .. dlen /\ Available' = Available + 1
    BY <1>1, <1>2 DEF Available, InBounds, Reading, UartTypeOK
  <2>4. tail' \in {head + Available + 1, head + Available + 1 - Size}
    BY <1>1, <1>2, <2>2, <2>3 DEF Wrapped, UartTypeOK
  <2>5. Aligned'
    <3>1. owed' = Available' /\ uart_at' # "store"
      BY <1>1, <2>1, <2>2, <2>3 DEF readVars
    <3>2. tail' \in {head' + Available', head' + Available' - Size}
      BY <1>1, <1>2, <2>3, <2>4 DEF UartTypeOK
    <3> QED
      BY <3>1, <3>2 DEF Aligned
  <2>6. owed' \in 0 .. Size
    BY <1>2, <2>1, <2>2, <2>3
  <2> QED
    BY <1>1, <1>2, <1>3, <1>4, <1>5, <1>6, <1>7, <2>5, <2>6 DEF UartTypeOK
<1> QED
  BY <1>8, <1>9

\* The bytes are taken out, and the head moves behind them.
LEMMA CopyInv == RingInv /\ ReadCopy => RingInv'
<1> SUFFICES ASSUME RingInv, ReadCopy PROVE RingInv'
  OBVIOUS
<1> USE RingAssumption DEF RingAssumption, RingInv
<1>1. /\ uart_at = "copy" /\ uart_at' = "load"
      /\ head' = HeadAfter(bytes_read)
      /\ raced => owed' = 0
      /\ ~raced => owed' = owed - bytes_read
      /\ UNCHANGED <<content, tail, dlen, bytes_read, dlen_load, byts_read, left, next, raced>>
  BY DEF ReadCopy
<1>2. bytes_read \in 1 .. dlen /\ dlen \in 0 .. Size /\ head \in 0 .. Size
      /\ tail \in 0 .. Size /\ Size \in Nat /\ owed \in 0 .. Size
  BY <1>1 DEF InBounds, Reading, UartTypeOK
<1>3. head' \in 0 .. Size
  BY <1>1, <1>2 DEF HeadAfter
<1>4. InBounds' /\ Hungry'
  BY <1>1 DEF InBounds, Hungry, Reading
<1>5. CASE raced
  BY <1>1, <1>2, <1>3, <1>4, <1>5 DEF UartTypeOK, Aligned
<1>6. CASE ~raced
  <2>1. owed = dlen /\ tail \in {head + dlen, head + dlen - Size}
    BY <1>1, <1>6 DEF Aligned, Available
  <2>2. Available' = dlen - bytes_read
    BY <1>1 DEF Available
  <2>3. owed' = Available' /\ owed' \in 0 .. Size
    BY <1>1, <1>2, <1>6, <2>1, <2>2
  <2>4. tail \in {head' + (dlen - bytes_read), head' + (dlen - bytes_read) - Size}
    BY <1>1, <1>2, <2>1 DEF HeadAfter
  <2>5. Aligned'
    BY <1>1, <2>2, <2>3, <2>4 DEF Aligned
  <2> QED
    BY <1>1, <1>2, <1>3, <1>4, <2>3, <2>5 DEF UartTypeOK
<1> QED
  BY <1>5, <1>6

\* dlen is brought up to date, whatever came since it was loaded.
LEMMA StoreInv == RingInv /\ ReadStore => RingInv'
<1> SUFFICES ASSUME RingInv, ReadStore PROVE RingInv'
  OBVIOUS
<1> USE RingAssumption DEF RingAssumption, RingInv
<1>1. /\ uart_at = "store"
      /\ dlen' = dlen_load - bytes_read
      /\ bytes_read' = 0 /\ dlen_load' = 0
      /\ UNCHANGED <<content, head, tail, next, owed, raced>>
  BY DEF ReadStore, DlenAfter
<1>2. \/ /\ uart_at' = "idle" /\ left' = 0 /\ byts_read' = 0
      \/ /\ byts_read + bytes_read < ReadLen
         /\ uart_at' = "wait" /\ left' = left /\ byts_read' = byts_read + bytes_read
  BY DEF ReadStore, UartTypeOK
<1>3. /\ bytes_read \in 1 .. dlen_load /\ dlen_load \in 0 .. dlen /\ dlen \in 0 .. Size
      /\ byts_read \in 0 .. ReadLen /\ left \in 0 .. Timeout
  BY <1>1 DEF InBounds, Reading, UartTypeOK
<1>4. dlen' \in 0 .. Size /\ byts_read' \in 0 .. ReadLen /\ left' \in 0 .. Timeout
  BY <1>1, <1>2, <1>3
<1>5. UartTypeOK'
  BY <1>1, <1>2, <1>4 DEF UartTypeOK
<1>6. InBounds' /\ Hungry'
  <2>1. ~Reading' /\ uart_at' # "store" /\ bytes_read' = 0
    BY <1>1, <1>2 DEF Reading
  <2>2. byts_read' + bytes_read' <= ReadLen
    <3>1. byts_read' \in 0 .. ReadLen /\ ReadLen \in Nat
      BY <1>4
    <3>2. bytes_read' = 0
      BY <1>1
    <3>3. \A a, b : a \in 0 .. ReadLen /\ b = 0 => a + b <= ReadLen
      OBVIOUS
    <3> QED
      BY <3>1, <3>2, <3>3, Zenon
  <2>3. Hungry'
    BY <1>2 DEF Hungry
  <2> QED
    BY <2>1, <2>2, <2>3 DEF InBounds
<1>7. Aligned'
  <2> SUFFICES ASSUME ~raced PROVE Aligned'
    BY <1>1 DEF Aligned
  <2>1. /\ owed = dlen - bytes_read /\ dlen_load = dlen
        /\ tail \in {head + (dlen - bytes_read), head + (dlen - bytes_read) - Size}
    BY <1>1 DEF Aligned, Available
  <2>2. Available' = dlen - bytes_read
    BY <1>1, <1>2, <2>1 DEF Available
  <2> QED
    BY <1>1, <1>2, <2>1, <2>2 DEF Aligned
<1> QED
  BY <1>5, <1>6, <1>7

\* The rest of uart_read.
LEMMA ReadInv == RingInv /\ (UartMain \/ Elapse \/ RecvFull) => RingInv'
<1> SUFFICES ASSUME RingInv, UartMain \/ Elapse \/ RecvFull PROVE RingInv'
  OBVIOUS
<1> USE RingAssumption
    DEF RingAssumption, RingInv, UartTypeOK, InBounds, Aligned, Hungry, Reading, Available,
        ringVars
<1>1. CASE ReadCall
  BY <1>1 DEF ReadCall
<1>2. CASE ReadWait
  BY <1>2 DEF ReadWait
<1>3. CASE ReadTimeout
  BY <1>3 DEF ReadTimeout
<1>4. CASE ReadNothing
  BY <1>4 DEF ReadNothing
<1>5. CASE ReadSome
  <2>1. /\ uart_at = "read" /\ dlen > 0 /\ uart_at' = "copy"
        /\ bytes_read' = IF dlen < Room THEN dlen ELSE Room
        /\ UNCHANGED <<ringVars, dlen_load, byts_read, left, next, owed, raced>>
    BY <1>5 DEF ReadSome
  <2>2. bytes_read' \in 1 .. dlen /\ bytes_read' <= ReadLen - byts_read
    BY <2>1 DEF Room
  <2>3. dlen \in 0 .. Size /\ bytes_read' \in 0 .. Size
    BY <2>1, <2>2
  <2>4. UartTypeOK'
    BY <2>1, <2>3
  <2>5. InBounds' /\ Hungry'
    <3>1. byts_read \in 0 .. ReadLen /\ ReadLen \in Nat /\ bytes_read' \in Nat
      BY <2>3
    <3>2. byts_read' + bytes_read' <= ReadLen
      <4>1. byts_read' = byts_read
        BY <2>1
      <4>2. \A a : a \in Nat /\ a <= ReadLen - byts_read => byts_read + a <= ReadLen
        BY <3>1
      <4> QED
        BY <4>1, <4>2, <2>2, <3>1, Zenon
    <3>3. bytes_read' > 0 /\ bytes_read' <= dlen'
      BY <2>1, <2>2, <2>3
    <3> QED
      BY <2>1, <3>2, <3>3
  <2>6. Aligned'
    BY <2>1
  <2> QED
    BY <2>4, <2>5, <2>6
<1>6. CASE ReadCopy
  BY <1>6, CopyInv
<1>7. CASE ReadLoad
  BY <1>7 DEF ReadLoad
<1>8. CASE ReadStore
  BY <1>8, StoreInv
<1>9. CASE Elapse
  BY <1>9 DEF Elapse
<1>10. CASE RecvFull
  BY <1>10 DEF RecvFull, uartVars, readVars
<1> QED
  BY <1>1, <1>2, <1>3, <1>4, <1>5, <1>6, <1>7, <1>8, <1>9, <1>10 DEF UartMain

\* Every step keeps the invariant.
LEMMA RingStep == RingInv /\ [UartNext]_uartVars => RingInv'
<1>1. RingInv /\ UNCHANGED uartVars => RingInv'
  BY DEF RingInv, UartTypeOK, InBounds, Aligned, Hungry, Reading, Available, uartVars,
         ringVars, readVars
<1> QED
  BY <1>1, RecvInv, ReadInv DEF UartNext, UartRecv

\* It holds in every reachable state.
LEMMA RingReachable == UartSpec => []RingInv
BY RingInitInv, RingStep, PTL DEF UartSpec

-----------------------------------------------------------------------------
\* The types of the variables: above all, dlen never exceeds the buffer and the pointers
\* never leave it, even after a byte was lost from the count.
THEOREM RingTypes == UartSpec => []UartTypeOK
<1>1. RingInv => UartTypeOK
  BY DEF RingInv
<1> QED
  BY <1>1, RingReachable, PTL

\* Nothing is read that is not in the buffer, and nothing written behind the caller's
\* array, whenever the interrupt comes.
THEOREM ReadsInBounds == UartSpec => []InBounds
<1>1. RingInv => InBounds
  BY DEF RingInv
<1> QED
  BY <1>1, RingReachable, PTL

\* Until the first byte that comes between the load and the store of dlen, the count,
\* the two pointers and the bytes agree.
THEOREM CountAligned == UartSpec => []Aligned
<1>1. RingInv => Aligned
  BY DEF RingInv
<1> QED
  BY <1>1, RingReachable, PTL
-----------------------------------------------------------------------------
(***************************************************************************)
(* The order of the bytes.                                                 *)
(***************************************************************************)
\* Positions in the buffer and numbers of bytes go round at most once.
LEMMA Around ==
    ASSUME NEW n \in Nat, n > 0, NEW x \in Int
    PROVE  /\ 0 <= x /\ x < n => x % n = x
           /\ n <= x /\ x < 2 * n => x % n = x - n
           /\ -n <= x /\ x < 0 => x % n = x + n
OBVIOUS

\* A byte is stored right behind the others, and none of them is overwritten.
LEMMA RecvFifo == RingInv /\ Fifo /\ RecvByte => Fifo'
<1> SUFFICES ASSUME RingInv, Fifo, RecvByte, ~raced', NEW i \in 0 .. owed' - 1
             PROVE  content'[(head' + i) % Size] = (next' - owed' + i) % Numbers
  BY DEF Fifo
<1>1. /\ Size \in Nat /\ Size > 0 /\ Numbers \in Nat /\ Numbers > Size
      /\ head \in 0 .. Size /\ tail \in 0 .. Size /\ owed \in 0 .. Size
      /\ next \in 0 .. Numbers - 1
  BY RingAssumption DEF RingAssumption, RingInv, UartTypeOK
<1>2. /\ ~raced /\ uart_at # "store" /\ dlen < Size
      /\ content' = [content EXCEPT ![Wrapped(tail, 1)] = next]
      /\ owed' = owed + 1 /\ next' = (next + 1) % Numbers /\ head' = head
  <2>1. ~raced /\ uart_at # "store"
    BY Zenon DEF RecvByte
  <2>2. owed' = owed + 1 /\ next' = (next + 1) % Numbers
    BY Zenon DEF RecvByte
  <2>3. /\ ~Full /\ head' = head
        /\ content' = [content EXCEPT ![Wrapped(tail, 1)] = next]
    BY DEF RecvByte, readVars
  <2>4. dlen < Size
    BY <1>1, <2>3 DEF Full, RingInv, UartTypeOK
  <2> QED
    BY <2>1, <2>2, <2>3, <2>4
<1>3. owed < Size /\ tail \in {head + owed, head + owed - Size}
  BY <1>1, <1>2 DEF RingInv, Aligned, Available, InBounds, Reading, UartTypeOK
<1> DEFINE slot(j) == IF head + j < Size THEN head + j ELSE head + j - Size
<1>4. \A j \in 0 .. owed : (head + j) % Size = slot(j)
  <2> TAKE j \in 0 .. owed
  <2>1. head + j \in Int /\ 0 <= head + j /\ head + j < 2 * Size
    BY <1>1, <1>3
  <2> QED
    BY <1>1, <2>1, Around
<1>5. Wrapped(tail, 1) = slot(owed) /\ slot(owed) \in 0 .. Size - 1
  BY <1>1, <1>3 DEF Wrapped
<1>6. content'[slot(owed)] = next
  BY <1>2, <1>5 DEF RingInv, UartTypeOK
<1>7. next' = IF next + 1 < Numbers THEN next + 1 ELSE 0
  BY <1>1, <1>2, Around
<1>8. CASE i = owed
  <2>1. next' - owed' + i = next' - 1 /\ next' - 1 \in Int
    BY <1>1, <1>2, <1>7, <1>8
  <2>2. (next' - owed' + i) % Numbers = next
    BY <1>1, <1>7, <2>1, Around
  <2>3. head' + i = head + owed /\ owed \in 0 .. owed
    BY <1>1, <1>2, <1>8
  <2>4. (head' + i) % Size = slot(owed)
    BY <1>4, <2>3, Zenon
  <2> QED
    BY <1>6, <2>2, <2>4, Zenon
<1>9. CASE i \in 0 .. owed - 1
  <2>1. slot(i) \in 0 .. Size - 1 /\ slot(i) # slot(owed)
    BY <1>1, <1>3, <1>9
  <2>2. content'[slot(i)] = content[slot(i)]
    BY <1>2, <1>5, <2>1 DEF RingInv, UartTypeOK
  <2>3. content[slot(i)] = (next - owed + i) % Numbers
    BY <1>1, <1>2, <1>4, <1>9 DEF Fifo
  <2>4. (next' - owed' + i) % Numbers = (next - owed + i) % Numbers
    <3> DEFINE old == next - owed + i
    <3>1. old \in Int /\ -Numbers <= old /\ old < Numbers - 1
      BY <1>1, <1>3, <1>9
    <3>2. next' - owed' + i = IF next + 1 < Numbers THEN old ELSE old - Numbers
      BY <1>1, <1>2, <1>7, <1>9
    <3>3. next + 1 < Numbers \/ old >= 0
      BY <1>1, <1>3, <1>9
    <3> QED
      BY <1>1, <3>1, <3>2, <3>3, Around
  <2> QED
    BY <1>1, <1>2, <1>4, <1>9, <2>2, <2>3, <2>4
<1> QED
  BY <1>1, <1>2, <1>8, <1>9

\* What is read is the oldest bytes.
LEMMA CopyFifo == RingInv /\ Fifo /\ ReadCopy => Fifo'
<1> SUFFICES ASSUME RingInv, Fifo, ReadCopy, ~raced', NEW i \in 0 .. owed' - 1
             PROVE  content'[(head' + i) % Size] = (next' - owed' + i) % Numbers
  BY DEF Fifo
<1>1. /\ Size \in Nat /\ Size > 0 /\ Numbers \in Nat /\ Numbers > Size
      /\ head \in 0 .. Size /\ owed \in 0 .. Size /\ next \in 0 .. Numbers - 1
  BY RingAssumption DEF RingAssumption, RingInv, UartTypeOK
<1>2. /\ uart_at = "copy" /\ ~raced /\ content' = content /\ next' = next
      /\ head' = HeadAfter(bytes_read) /\ owed' = owed - bytes_read
  BY DEF ReadCopy
<1>3. bytes_read \in 1 .. owed
  BY <1>1, <1>2 DEF RingInv, Aligned, Available, InBounds, Reading, UartTypeOK
<1> DEFINE j == bytes_read + i
<1>4. j \in 0 .. owed - 1 /\ next' - owed' + i = next - owed + j
  BY <1>1, <1>2, <1>3
<1>5. (head' + i) % Size = (head + j) % Size
  <2>1. head + j \in Int /\ 0 <= head + j /\ head + j < 2 * Size
    BY <1>1, <1>3, <1>4
  <2>2. /\ head' + i = head + j \/ head' + i = head + j - Size
        /\ 0 <= head' + i /\ (head' + i = head + j - Size => head + j >= Size)
    BY <1>1, <1>2, <1>3 DEF HeadAfter
  <2>3. CASE head' + i = head + j
    BY <2>3
  <2>4. CASE head' + i = head + j - Size
    <3>1. Size <= head + j
      BY <1>1, <2>1, <2>2, <2>4
    <3>2. (head + j) % Size = head + j - Size
      BY <1>1, <1>4, <2>1, <3>1, Around
    <3>3. head + j - Size \in Int /\ 0 <= head + j - Size /\ head + j - Size < Size
      BY <1>1, <1>4, <2>1, <3>1
    <3>4. (head + j - Size) % Size = head + j - Size
      BY <1>1, <3>3, Around
    <3> QED
      BY <2>4, <3>2, <3>4, Zenon
  <2> QED
    BY <2>2, <2>3, <2>4
<1> QED
  BY <1>2, <1>4, <1>5 DEF Fifo

\* Every other step leaves the bytes and the head alone.
LEMMA FifoStep == RingInv /\ Fifo /\ [UartNext]_uartVars => Fifo'
<1> SUFFICES ASSUME RingInv, Fifo, [UartNext]_uartVars PROVE Fifo'
  OBVIOUS
<1>1. CASE UNCHANGED <<content, head, next, owed, raced>>
  BY <1>1 DEF Fifo
<1>2. RecvByte \/ ReadCopy \/ UNCHANGED <<content, head, next, owed, raced>>
  BY DEF UartNext, UartRecv, UartMain, RecvFull, Elapse, ReadCall, ReadWait, ReadTimeout,
         ReadNothing, ReadSome, ReadLoad, ReadStore, uartVars, ringVars
<1> QED
  BY <1>1, <1>2, RecvFifo, CopyFifo

\* Until the first byte that comes between the load and the store of dlen, the bytes come
\* out in the order in which UART1 received them, none lost, none twice: for a buffer and
\* reads of any size, wherever the pointers wrap.
THEOREM BytesInOrder == UartSpec => []Fifo
<1>1. UartInit => Fifo
  BY DEF UartInit, Fifo
<1> QED
  BY <1>1, FifoStep, RingReachable, PTL DEF UartSpec
=============================================================================
