---------------------------- MODULE PacketStream ----------------------------
(***************************************************************************)
(* How NetCxn cuts the bytes of a socket into packets: the ring buffer     *)
(* (NetBuffer) the reads fill, the headers, the packets that are larger    *)
(* than the ring and get a buffer of their own, and SuspendReceive() and   *)
(* ResumeReceive().  Every byte of the stream is named by its position, so *)
(* that a packet delivered with a byte out of place shows.                 *)
(***************************************************************************)
EXTENDS Naturals, Sequences, SequencesExt

CONSTANTS
    StreamModes,  \* [lens, suspends]: the lengths of the packets the peer
                  \* sends, and whether the application suspends receiving
    RingSize,     \* size of the connection's own read buffer
    HeaderLen,    \* PacketHdr::SerialLen
    MaxBytes,     \* VIO::MAX_NBYTES
    MaxSuspends   \* how often the application suspends receiving

VARIABLES
    stream,       \* the mode, from StreamModes
    rd,           \* the NetCxn's read state: buffer, VIO, packet under way
    flight,       \* the read the kernel has, if any
    delivered,    \* what ProcessReceive() was given: the bytes of each packet
    receiving     \* SuspendReceive, ResumeReceive and their event

streamVars == <<stream, rd, flight, delivered, receiving>>

NoRead == [todo |-> 0, at |-> 0, big |-> FALSE]

\* Position in the stream of the first byte of packet n, and the stream's end.
First(n) == FoldLeft(+, 1, SubSeq(stream.lens, 1, n - 1))
StreamEnd == First(Len(stream.lens) + 1) - 1
BytesOf(n) == [i \in 1 .. stream.lens[n] |-> First(n) + i - 1]

-----------------------------------------------------------------------------
\* NetBuffer: start, end, isFull and the memory they point into.
Buffer(size) == [start |-> 0, end |-> 0, full |-> FALSE, size |-> size,
                 mem |-> [i \in 0 .. size - 1 |-> 0]]

ReadAvail(b) ==
    IF b.full THEN b.size ELSE (b.size + b.end - b.start) % b.size

ContiguousWriteAvail(b) ==
    IF b.full THEN 0
    ELSE IF b.end >= b.start THEN b.size - b.end
    ELSE b.start - b.end

Consume(b, n) ==
    [b EXCEPT !.start = (@ + n) % b.size,
              !.full = IF n > 0 THEN FALSE ELSE @]

\* NetBuffer::Fill.
Fill(b, n) ==
    LET end == (b.end + n) % b.size
    IN  [b EXCEPT !.end = end,
                  !.full = IF n > 0 /\ end = b.start THEN TRUE ELSE @]

\* NetBuffer::CopyTo: the first n bytes, around the end of the memory.
CopyTo(b, n) == [i \in 1 .. n |-> b.mem[(b.start + i - 1) % b.size]]

\* BufferPool::NextPowerOfTwo.
NextPowerOfTwo(v) ==
    CHOOSE p \in {2^i : i \in 0 .. v} : p >= v /\ p < 2 * v

-----------------------------------------------------------------------------
\* Packet::DeSerializeHeader: the size in the header at the start of b.  The
\* bytes there are those of some packet's header, or the size is garbage.
HeaderSize(b) ==
    LET here == {n \in DOMAIN stream.lens : First(n) = b.mem[b.start]}
    IN  IF here = {} THEN 0 ELSE stream.lens[CHOOSE n \in here : TRUE]

\* NetCxn::ReadMoreData: what has been read moves to a buffer that holds the
\* whole packet, and the reads stop at its end.
ReadMoreData(r, len) ==
    LET have == ReadAvail(r.buf)
        big == Buffer(NextPowerOfTwo(len))
    IN  [r EXCEPT !.buf = Fill([big EXCEPT !.mem =
                              [i \in DOMAIN big.mem |->
                                  IF i < have THEN CopyTo(r.buf, have)[i + 1] ELSE 0]],
                              have),
                  !.big = TRUE, !.nbytes = r.ndone + len - have]

\* NetCxn::ReadReadyInternal: packets are delivered while whole ones are in
\* the buffer; after a large one the reads go on in the ring.
RECURSIVE ReadReady(_, _)
ReadReady(r, got) ==
    IF ReadAvail(r.buf) < HeaderLen THEN [r |-> r, got |-> got]
    ELSE LET len == IF r.packet # 0 THEN r.packet ELSE HeaderSize(r.buf)
             bytes == CopyTo(r.buf, len)
             rest == Consume(r.buf, len)
         IN  IF len = 0
             THEN [r |-> [r EXCEPT !.closed = TRUE], got |-> got]
             ELSE IF len <= ReadAvail(r.buf)
             THEN IF r.big
                  THEN [r |-> [r EXCEPT !.buf = Buffer(RingSize), !.big = FALSE,
                                        !.packet = 0, !.nbytes = MaxBytes,
                                        !.broken = @ \/ ReadAvail(rest) # 0],
                        got |-> Append(got, bytes)]
                  ELSE ReadReady([r EXCEPT !.buf = rest, !.packet = 0],
                                 Append(got, bytes))
             ELSE [r |-> IF len > r.buf.size
                         THEN ReadMoreData([r EXCEPT !.packet = len], len)
                         ELSE [r EXCEPT !.packet = len],
                   got |-> got]

\* NetVConnection::ScheduleInternal for the read: none while one is under way,
\* while the buffer has no room, or after the bytes asked for.
NextRead(r) ==
    LET todo == IF r.nbytes - r.ndone < ContiguousWriteAvail(r.buf)
                THEN r.nbytes - r.ndone ELSE ContiguousWriteAvail(r.buf)
    IN  IF r.closed \/ todo = 0 THEN NoRead
        ELSE [todo |-> todo, at |-> r.buf.end, big |-> r.big]

InitStream ==
    /\ stream \in StreamModes
    /\ rd = [buf |-> Buffer(RingSize), big |-> FALSE, packet |-> 0,
             nbytes |-> MaxBytes, ndone |-> 0, closed |-> FALSE,
             broken |-> FALSE, swapped |-> FALSE]
    /\ flight = [todo |-> RingSize, at |-> 0, big |-> FALSE]
    /\ delivered = <<>>
    /\ receiving = [suspended |-> FALSE, reenable |-> FALSE, times |-> 0]

\* HandleIOCompletion for a read of n bytes: they are in the memory the read
\* was issued for; the NetCxn looks at its buffer and the next read is issued.
ReadCompletes(n) ==
    /\ flight # NoRead /\ ~rd.closed
    /\ n \in 1 .. flight.todo /\ rd.ndone + n <= StreamEnd
    /\ LET lands == [i \in DOMAIN rd.buf.mem |->
                        IF flight.big = rd.big /\ i \in flight.at .. flight.at + n - 1
                        THEN rd.ndone + i - flight.at + 1 ELSE rd.buf.mem[i]]
           r == [rd EXCEPT !.buf = Fill([@ EXCEPT !.mem = lands], n),
                           !.ndone = @ + n,
                           !.broken = @ \/ n > rd.nbytes - rd.ndone]
           done == IF receiving.suspended THEN [r |-> r, got |-> <<>>]
                   ELSE ReadReady(r, <<>>)
       IN  /\ rd' = done.r
           /\ delivered' = delivered \o done.got
           /\ flight' = NextRead(done.r)
    /\ UNCHANGED <<stream, receiving>>

\* NetCxn::SuspendReceive and ResumeReceive.
SuspendReceive ==
    /\ stream.suspends /\ ~receiving.suspended /\ receiving.times < MaxSuspends
    /\ receiving' = [suspended |-> TRUE, reenable |-> FALSE,
                     times |-> receiving.times + 1]
    /\ UNCHANGED <<stream, rd, flight, delivered>>

ResumeReceive ==
    /\ receiving.suspended
    /\ receiving' = [receiving EXCEPT !.suspended = FALSE, !.reenable = TRUE]
    /\ UNCHANGED <<stream, rd, flight, delivered>>

\* PACKET_REENABLE_RECEIVE: the packets that arrived meanwhile are delivered
\* and the read is scheduled if the buffer had been full.  Here ReadMoreData
\* may replace the buffer of a read the kernel still has; what that read
\* brings is then not in the buffer that NetCxn looks at.
ReenableReceive ==
    /\ receiving.reenable /\ ~rd.closed
    /\ receiving' = [receiving EXCEPT !.reenable = FALSE]
    /\ LET done == ReadReady(rd, <<>>)
           under == flight # NoRead /\ done.r.big # rd.big
       IN  /\ rd' = [done.r EXCEPT !.swapped = @ \/ under]
           /\ delivered' = delivered \o done.got
           /\ flight' = IF flight # NoRead THEN flight ELSE NextRead(done.r)
    /\ UNCHANGED stream

NextStream ==
    \/ \E n \in 1 .. RingSize * 2 : ReadCompletes(n)
    \/ SuspendReceive \/ ResumeReceive \/ ReenableReceive

SpecStream == InitStream /\ [][NextStream]_streamVars

-----------------------------------------------------------------------------
\* The packets the application receives are those the peer sent, in order,
\* every byte in its place, however the reads cut the stream and wherever the
\* ring wraps around; no assertion of the buffers fails and no sound packet is
\* taken for a malformed one.  One case is excluded, in which bytes are lost:
\* after a suspend, the event of ResumeReceive() found a packet larger than
\* the ring and replaced the buffer of a read under way (swapped).
StreamIntact ==
    IF rd.swapped
    THEN receiving.times > 0 /\ \E n \in DOMAIN stream.lens :
                                    stream.lens[n] > RingSize
    ELSE /\ ~rd.broken /\ ~rd.closed
         /\ \A n \in DOMAIN delivered : delivered[n] = BytesOf(n)

\* The stream never stalls: unless receiving is suspended, as long as packets
\* are outstanding a read is under way, or an event will look at the buffer.
\* The same case is excluded.
StreamNeverStalls ==
    \/ receiving.suspended \/ receiving.reenable \/ rd.swapped
    \/ Len(delivered) = Len(stream.lens)
    \/ flight # NoRead /\ rd.ndone < StreamEnd

\* The rule of NetVConnection::IOInternal: while a read is scheduled the
\* buffer stays the one it reads into, and the bytes asked for are no fewer
\* than it may bring.
ReadBufferRule ==
    flight # NoRead =>
        flight.big = rd.big /\ flight.todo <= rd.nbytes - rd.ndone

\* NetCxn keeps that rule when it switches between its ring and the buffer of
\* a large packet, but for the event of ResumeReceive() (swapped).
ReadBufferStable == rd.swapped \/ ReadBufferRule
=============================================================================
