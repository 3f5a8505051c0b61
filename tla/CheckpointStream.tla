-------------------------- MODULE CheckpointStream --------------------------
(***************************************************************************)
(* A checkpoint file from TrySaveState to LoadState: the stream writer of  *)
(* rsl.cpp cuts the application's data into blocks that end in a checksum, *)
(* over the write ring of apdiskio.cpp; SaveCheckpoint takes the size,     *)
(* closes, writes the header and verifies; the stream reader finds the     *)
(* blocks again.  Any device call may fail, writes in flight reach the     *)
(* file at any time before they are waited for, and a unit of the          *)
(* published file may go bad.  The application stops at the first error    *)
(* it gets.                                                                *)
(***************************************************************************)
EXTENDS Integers, Sequences, FiniteSets

-----------------------------------------------------------------------------
(***************************************************************************)
(* The unbuffered sequential file classes of apdiskio.cpp as operators on  *)
(* records: APSEQWRITE keeps a ring of buffers whose writes are in flight, *)
(* APSEQREAD a ring of reads issued ahead.  A call returns the record and  *)
(* its error code.  The file is a sequence of units; a write in flight     *)
(* takes what its buffer holds when the device gets to it.                 *)
(***************************************************************************)

CONSTANTS
  BufSize,     \* m_cbBufSize and m_readBufSize, in units
  NumWrites,   \* m_numWrites
  NumReads,    \* m_numReads
  ReadCopy     \* c_cbReadCopy, the size of the copy buffer m_rgb

NoIo == -1         \* no write of this buffer is in flight
IoFailed == -2     \* the write failed and nobody has waited for it yet
NullBuf == -1      \* m_pbWrite = NULL

Least(a, b) == IF a < b THEN a ELSE b
Rest(s, n) == SubSeq(s, n + 1, Len(s))
GapUnit == [kind |-> "gap", val |-> 0]

\* Units written over a file at an offset, the file growing as it must.
Overwrite(file, off, data) ==
  [i \in 1..(IF Len(file) > off + Len(data) THEN Len(file) ELSE off + Len(data)) |->
     IF i > off /\ i <= off + Len(data) THEN data[i - off]
     ELSE IF i <= Len(file) THEN file[i] ELSE GapUnit]

SetEndOfFile(file, n) == [i \in 1..n |-> IF i <= Len(file) THEN file[i] ELSE GapUnit]

-----------------------------------------------------------------------------
\* APSEQWRITE::DoInit.  fail says which device call of the next operation
\* fails: none, the issue of a write, or its completion.
SeqWrite ==
  [bufs |-> [i \in 0..NumWrites - 1 |-> [j \in 1..BufSize |-> GapUnit]],
   wait |-> [i \in 0..NumWrites - 1 |-> FALSE],
   flight |-> [i \in 0..NumWrites - 1 |-> NoIo],
   iWrite |-> 0, next |-> 0, pb |-> NullBuf, used |-> 0, file |-> << >>,
   fail |-> "none", overrun |-> FALSE]

\* The device performs a write in flight.
DeviceWrites(w, i) ==
  [w EXCEPT !.file = Overwrite(w.file, w.flight[i], w.bufs[i]), !.flight[i] = NoIo]

\* IssueWrite: the whole buffer, at the current offset.
IssueWrite(w) ==
  IF w.fail = "issue" THEN [w |-> [w EXCEPT !.fail = "none"], ec |-> "io"]
  ELSE [w |-> [w EXCEPT !.flight[w.iWrite] = w.next, !.wait[w.iWrite] = TRUE], ec |-> "ok"]

\* GetOverlappedResultAndCheckSize, after m_fWait has been cleared.
AwaitWrite(w0, i) ==
  LET w == [w0 EXCEPT !.wait[i] = FALSE] IN
  IF w.flight[i] = NoIo THEN [w |-> w, ec |-> "ok"]
  ELSE IF w.flight[i] = IoFailed \/ w.fail = "complete"
  THEN [w |-> [w EXCEPT !.flight[i] = NoIo,
                        !.fail = IF w.flight[i] = IoFailed THEN @ ELSE "none"], ec |-> "io"]
  ELSE [w |-> DeviceWrites(w, i), ec |-> "ok"]

\* PrepareNext: issue the current buffer, go to the next and wait for it.
Issued(w) ==
  IF w.pb = NullBuf THEN [w |-> w, ec |-> "ok"]
  ELSE LET p == IssueWrite(w)
       IN IF p.ec # "ok" THEN p ELSE [p EXCEPT !.w.next = @ + w.used]
Advanced(w) == [w EXCEPT !.iWrite = (@ + 1) % NumWrites]
NextBuffer(w) ==
  LET p == IF w.wait[w.iWrite] THEN AwaitWrite(w, w.iWrite) ELSE [w |-> w, ec |-> "ok"]
  IN IF p.ec # "ok" THEN p
     ELSE [p EXCEPT !.w.pb = w.iWrite, !.w.used = 0]
PrepareNext(w) ==
  LET p == Issued(w) IN IF p.ec # "ok" THEN p ELSE NextBuffer(Advanced(p.w))

\* memcpy into the buffer m_pbWrite points to.
StoreUnits(w, at, data) ==
  IF at + Len(data) > BufSize THEN [w EXCEPT !.overrun = TRUE]
  ELSE [w EXCEPT !.bufs[w.pb] = [j \in 1..BufSize |->
          IF j > at /\ j <= at + Len(data) THEN data[j - at] ELSE @[j]]]

\* WriteInternal: what does not fit goes into the next buffer p.  The count
\* advances even when there is none.
WriteRest(p, rest) ==
  [w |-> [IF p.ec = "ok" THEN StoreUnits(p.w, 0, rest) ELSE p.w EXCEPT !.used = @ + Len(rest)],
   ec |-> p.ec]
WriteFrom(w, data, room) ==
  IF w.used > BufSize \/ Len(data) <= room
  THEN [w |-> [StoreUnits(w, w.used, data) EXCEPT !.used = @ + Len(data)], ec |-> "ok"]
  ELSE WriteRest(PrepareNext([StoreUnits(w, w.used, SubSeq(data, 1, room))
                                EXCEPT !.used = BufSize]), Rest(data, room))
WriteInternal(w0, data) ==
  LET w == IF w0.pb = NullBuf THEN PrepareNext(w0).w ELSE w0
  IN WriteFrom(w, data, BufSize - w.used)

\* Write, in pieces of at most one buffer.
RECURSIVE SeqWriteData(_, _)
SeqWriteData(w, data) ==
  IF Len(data) <= BufSize THEN WriteInternal(w, data)
  ELSE LET p == WriteInternal(w, SubSeq(data, 1, BufSize))
       IN IF p.ec # "ok" THEN p ELSE SeqWriteData(p.w, Rest(data, BufSize))

\* The waits of Flush, buffer by buffer.
RECURSIVE AwaitFrom(_, _)
AwaitFrom(w, i) ==
  IF i = NumWrites THEN [w |-> w, ec |-> "ok"]
  ELSE IF ~w.wait[i] THEN AwaitFrom(w, i + 1)
  ELSE LET p == AwaitWrite(w, i) IN IF p.ec # "ok" THEN p ELSE AwaitFrom(p.w, i + 1)

\* Flush: the current buffer is issued and stays current, every write is
\* waited for, and the file gets its length.
Flush(w) ==
  LET issued == IF w.pb # NullBuf /\ w.used > 0 THEN IssueWrite(w) ELSE [w |-> w, ec |-> "ok"]
      done == AwaitFrom(issued.w, 0)
  IN IF issued.ec # "ok" THEN issued
     ELSE IF done.ec # "ok" THEN done
     ELSE [w |-> [done.w EXCEPT !.file = SetEndOfFile(@, done.w.next + done.w.used)],
           ec |-> "ok"]

\* DoDispose flushes and does not look at the result.
DoDispose(w) == Flush(w).w

\* GetAvailable: the rest of the current buffer, after a PrepareNext when
\* there is none.
GetAvailable(w) ==
  IF w.pb = NullBuf \/ w.used = BufSize THEN PrepareNext(w) ELSE [w |-> w, ec |-> "ok"]

\* CommitAvailable; the room of an overrun buffer wraps around.
CommitAvailable(w, n) ==
  IF w.used <= BufSize /\ n > BufSize - w.used THEN [w |-> w, ec |-> "param"]
  ELSE [w |-> [w EXCEPT !.used = @ + n], ec |-> "ok"]

SeqBytesIssued(w) == w.used + w.next

-----------------------------------------------------------------------------
\* IssueRead: the next buffer of the file, or the mark that there is none.
IssueRead(r, i) ==
  IF r.next >= Len(r.file)
  THEN [r |-> [r EXCEPT !.bufs[i].notEof = FALSE], ec |-> "eof"]
  ELSE IF r.fail = "issue"
  THEN [r |-> [r EXCEPT !.bufs[i].notEof = FALSE, !.fail = "none"], ec |-> "io"]
  ELSE [r |-> [r EXCEPT !.bufs[i] = [notEof |-> TRUE,
                  data |-> SubSeq(r.file, r.next + 1, Least(r.next + BufSize, Len(r.file)))],
                        !.next = @ + BufSize], ec |-> "ok"]

\* Reset's initial reads, which stop at the first one past the end.
RECURSIVE IssueFrom(_, _)
IssueFrom(r, i) ==
  IF i = NumReads THEN [r |-> r, ec |-> "ok"]
  ELSE LET p == IssueRead(r, i)
       IN IF p.ec = "eof" THEN [p EXCEPT !.ec = "ok"]
          ELSE IF p.ec # "ok" THEN p ELSE IssueFrom(p.r, i + 1)

\* Reset: the aligned offset, the units to skip, the reads issued again.
ResetReader(r, pos) ==
  LET p == IssueFrom([r EXCEPT !.skip = pos % BufSize, !.next = pos - (pos % BufSize)], 0)
  IN IF p.ec # "ok" THEN p
     ELSE [p EXCEPT !.r.iRead = -1, !.r.left = << >>]

\* DoInit: the size is taken once, and the reads begin.
SeqRead(file) ==
  ResetReader([file |-> file, next |-> 0, skip |-> 0, iRead |-> -1, left |-> << >>,
               fail |-> "none", wrapped |-> FALSE,
               bufs |-> [i \in 0..NumReads - 1 |-> [notEof |-> FALSE, data |-> << >>]]], 0)

\* ReadNext: the finished buffer is read again, further on, and the next
\* one of the ring becomes current.
Advance(r, at) ==
  LET b == r.bufs[at]
  IN IF b.notEof /\ r.fail = "complete"
     THEN [r |-> [r EXCEPT !.iRead = at, !.fail = "none"], ec |-> "io"]
     ELSE [r |-> [r EXCEPT !.iRead = at, !.left = IF b.notEof THEN b.data ELSE << >>],
           ec |-> "ok"]
ReadNext(r) ==
  LET again == IssueRead(r, r.iRead)
  IN IF r.iRead < 0 THEN Advance(r, 0)
     ELSE IF again.ec = "io" THEN again
     ELSE Advance(again.r, (r.iRead + 1) % NumReads)

\* GetDataPointer: up to cb units, from the buffer or through the copy buffer
\* when they straddle two.  counted: the caller passed pcbRead.
Straddling(r, old, cb, most, counted) ==
  IF cb < most /\ (~counted \/ cb = 0) THEN [r |-> r, ec |-> "eof", out |-> << >>]
  ELSE [r |-> [r EXCEPT !.left = Rest(@, cb - Len(old))], ec |-> "ok",
        out |-> old \o SubSeq(r.left, 1, cb - Len(old))]
AfterSkip(r) ==
  [r EXCEPT !.wrapped = @ \/ r.skip > Len(r.left), !.left = Rest(@, r.skip), !.skip = 0]
FromNext(n, old, most, counted) ==
  IF n.ec # "ok" THEN [r |-> n.r, ec |-> n.ec, out |-> << >>]
  ELSE LET r == AfterSkip(n.r)
       IN Straddling(r, old, Least(most, Len(r.left) + Len(old)), most, counted)
GetDataPointer(r, cb0, counted) ==
  LET had == Len(r.left)
      tooMuch == had < cb0 /\ had > ReadCopy
      cb1 == IF tooMuch THEN had ELSE cb0
      copied == had < cb1 /\ had > 0 /\ cb1 > ReadCopy
  IN IF (tooMuch \/ copied) /\ ~counted THEN [r |-> r, ec |-> "param", out |-> << >>]
     ELSE IF had >= cb1
     THEN [r |-> [r EXCEPT !.left = Rest(@, cb1)], ec |-> "ok", out |-> SubSeq(r.left, 1, cb1)]
     ELSE FromNext(ReadNext(r), r.left, IF copied THEN ReadCopy ELSE cb1, counted)

\* Skip: within the buffer, into the next one, or by a reset that starts
\* from the offset of the reads already issued.
SkipUnits(r, n) ==
  IF Len(r.left) > n THEN [r |-> [r EXCEPT !.left = Rest(@, n)], ec |-> "ok"]
  ELSE IF n < BufSize
  THEN LET p == GetDataPointer([r EXCEPT !.left = << >>], n - Len(r.left), FALSE)
       IN [r |-> p.r, ec |-> p.ec]
  ELSE ResetReader(r, r.next + Len(r.left) + n)

-----------------------------------------------------------------------------
(* The checkpoint file. *)

CONSTANTS
  HeaderLen,     \* CheckpointHeader::GetMarshalLen, in units
  StreamModes,   \* the instances: [blocks, calls, size, fails, bad]
  Chunks         \* the lengths the application writes, reads and skips

\* The block size m_checksumBlockSize is the size of the ring's buffers, and
\* a checksum takes one unit: it is the sequence of the data it covers.
DataOnly == BufSize - 1
DataUnit(n) == [kind |-> "data", val |-> n]
SumUnit(data) == [kind |-> "sum", val |-> data]
SizeUnit(n) == [kind |-> "size", val |-> n]

VARIABLES
  cmode,     \* the instance
  cpc,       \* how far SaveCheckpoint has come, then "load" and "done"
  cwriter,   \* RSLCheckpointStreamWriter and its APSEQWRITE
  cput,      \* how many units the application has written
  csize,     \* header.m_size
  creader,   \* RSLCheckpointStreamReader and its APSEQREAD
  cpos,      \* where in the data the application has read to
  clast,     \* what the last read call returned
  cfails     \* device failures and damage so far

cvars == <<cmode, cpc, cwriter, cput, csize, creader, cpos, clast, cfails>>

-----------------------------------------------------------------------------
\* The room the writer has left in the buffer it was given.
WithAvailable(s, p) == [s EXCEPT !.w = p.w, !.available = BufSize - p.w.used, !.ec = p.ec]

\* Init leaves room for the header, buffer by buffer.
RECURSIVE SkipHeader(_, _)
SkipHeader(s, n) ==
  LET a == WithAvailable(s, GetAvailable(s.w))
      take == Least(n, a.available)
  IN IF n = 0 \/ a.ec # "ok" THEN [a EXCEPT !.written = 0]
     ELSE SkipHeader([a EXCEPT !.w = CommitAvailable(@, take).w], n - take)

StreamWriterInit ==
  SkipHeader([w |-> SeqWrite, available |-> 0, written |-> 0, dataWritten |-> 0,
              checksum |-> << >>, ec |-> "ok", unseen |-> FALSE], HeaderLen)

\* The end of a block: its data is committed and its checksum follows.
SumWritten(s, p) ==
  IF p.ec # "ok" THEN [s EXCEPT !.w = p.w, !.ec = p.ec] ELSE [s EXCEPT !.w = p.w, !.dataWritten = 0]
WriteChecksum(s) ==
  LET c == CommitAvailable(s.w, s.written)
  IN IF c.ec # "ok" THEN [s EXCEPT !.ec = c.ec]
     ELSE SumWritten(s, SeqWriteData(c.w, <<SumUnit(s.checksum)>>))

\* Write, when the buffer or the block is full: commit, the checksum at the
\* end of a block, and the next room.
EndOfBlock(s) ==
  LET c == CommitAvailable(s.w, s.written)
  IN IF c.ec # "ok" THEN [s EXCEPT !.ec = c.ec]
     ELSE IF s.dataWritten = DataOnly THEN WriteChecksum(s) ELSE [s EXCEPT !.w = c.w]
FreshRoom(a) == IF a.ec # "ok" THEN a ELSE [a EXCEPT !.written = 0]
RoomAfter(s) == IF s.ec # "ok" THEN s ELSE FreshRoom(WithAvailable(s, GetAvailable(s.w)))
NextRoom(s) == RoomAfter(EndOfBlock(s))

\* Write, with checksums: as much as the buffer and the block take, again.
RECURSIVE WriteBlocks(_, _)
WriteBlocks(s, data) ==
  LET n == Least(Len(data), Least(s.available - s.written, DataOnly - s.dataWritten))
      part == SubSeq(data, 1, n)
  IN IF data = << >> \/ s.ec # "ok" THEN s
     ELSE IF s.available = s.written \/ s.dataWritten = DataOnly
     THEN WriteBlocks(NextRoom(s), data)
     ELSE WriteBlocks([s EXCEPT
            !.w = StoreUnits(@, s.w.used + s.written, part),
            !.checksum = IF s.dataWritten = 0 THEN part ELSE @ \o part,
            !.dataWritten = @ + n, !.written = @ + n], Rest(data, n))

\* RSLCheckpointStreamWriter::Write; without blocks it is APSEQWRITE's.
StreamWrite(s, blocks, data) ==
  IF blocks THEN WriteBlocks(s, data)
  ELSE LET p == SeqWriteData(s.w, data) IN [s EXCEPT !.w = p.w, !.ec = p.ec]

\* BytesIssued flushes first; with blocks a failure makes it 0, without
\* them the failure is not looked at (unseen).
BytesIssued(s, blocks) ==
  LET f == Flush(s.w)
      open == IF blocks /\ s.dataWritten > 0 THEN s.written + 1 ELSE 0
  IN [s |-> [s EXCEPT !.w = f.w, !.unseen = ~blocks /\ f.ec # "ok"],
      size |-> IF blocks /\ f.ec # "ok" THEN 0 ELSE SeqBytesIssued(f.w) + open]

\* Close: the checksum of the last block, then DoDispose.
Disposed(s) == IF s.ec # "ok" THEN s ELSE [s EXCEPT !.w = DoDispose(@)]
StreamClose(s, blocks) ==
  LET f == Flush(s.w)
  IN IF ~blocks THEN [s EXCEPT !.w = DoDispose(f.w), !.ec = f.ec]
     ELSE Disposed(IF s.dataWritten > 0 THEN WriteChecksum(s) ELSE s)

\* CheckpointHeader::Marshal over the room left for it.
MarshalHeader(file, size) == Overwrite(file, 0, [i \in 1..HeaderLen |-> SizeUnit(size)])

-----------------------------------------------------------------------------
\* CheckpointHeader::UnMarshal from a file: the header must be all there.
HeaderSize(file, blocks) ==
  IF Len(file) < HeaderLen \/ \E i \in 1..HeaderLen : file[i].kind # "size" THEN -1
  ELSE IF blocks THEN file[1].val ELSE Len(file)

\* RSLCheckpointStreamReader::Init: with blocks, the file has the header's
\* size and its last block is more than a checksum.
StreamReaderInit(file, blocks) ==
  LET p == SeqRead(file)
      total == Len(file) - HeaderLen
      last == total % BufSize
      s == [r |-> p.r, block |-> << >>, current |-> 0, readOffset |-> 0,
            next |-> HeaderLen, ec |-> "crc", lost |-> "no"]
      reset == ResetReader(p.r, HeaderLen)
  IN IF HeaderSize(file, blocks) = -1 THEN s
     ELSE IF blocks /\ (Len(file) # HeaderSize(file, blocks) \/ last = 1) THEN s
     ELSE [s EXCEPT !.r = reset.r, !.ec = reset.ec]

\* Size: what Init calculated.
StreamSize(file, blocks) ==
  LET total == Len(file) - HeaderLen IN
  IF ~blocks THEN total
  ELSE (total \div BufSize) * DataOnly
       + (IF total % BufSize > 0 THEN (total % BufSize) - 1 ELSE 0)

\* The loop of ReadNextDataBlock that fills m_dataBlock.
RECURSIVE FillBlock(_, _)
Received(s, p) ==
  IF p.ec = "eof" /\ s.block # << >> THEN [s EXCEPT !.r = p.r, !.ec = "end"]
  ELSE [s EXCEPT !.r = p.r, !.ec = p.ec, !.block = @ \o p.out]
FillBlock(s, n) ==
  IF s.ec = "end" \/ Len(s.block) = n THEN [s EXCEPT !.ec = "ok"]
  ELSE IF s.ec # "ok" THEN s
  ELSE FillBlock(Received(s, GetDataPointer(s.r, n - Len(s.block), TRUE)), n)

\* A defect: the block is not compared with its checksum.
ReadNextDataBlockUnchecked(s0) ==
  LET s == FillBlock([s0 EXCEPT !.block = << >>, !.current = 0, !.readOffset = 0,
                                !.next = @ + BufSize, !.ec = "ok"], BufSize)
  IN IF s.ec # "ok" THEN s ELSE [s EXCEPT !.current = Len(s.block) - 1]

\* ReadNextDataBlock: a block, its last unit the checksum of the others.
VerifyBlock(s, n) ==
  IF s.ec # "ok" THEN [s EXCEPT !.current = Len(s.block)]
  ELSE [s EXCEPT !.current = n,
          !.ec = IF s.block[n + 1] = SumUnit(SubSeq(s.block, 1, n)) THEN "ok" ELSE "crc"]
ReadNextDataBlock(s0) ==
  LET s == FillBlock([s0 EXCEPT !.block = << >>, !.current = 0, !.readOffset = 0,
                                !.next = @ + BufSize, !.ec = "ok"], BufSize)
  IN VerifyBlock(s, Len(s.block) - 1)

\* GetDataPointer and GetData of the stream.
CurrentBlock(s) ==
  IF s.readOffset = s.current THEN ReadNextDataBlock(s) ELSE [s EXCEPT !.ec = "ok"]
GetRaw(s, raw) == [s |-> [s EXCEPT !.r = raw.r, !.ec = raw.ec], out |-> raw.out]
GetFromBlock(s, n) ==
  LET k == Least(n, s.current - s.readOffset)
  IN IF s.ec # "ok" THEN [s |-> s, out |-> << >>]
     ELSE [s |-> [s EXCEPT !.readOffset = @ + k],
           out |-> SubSeq(s.block, s.readOffset + 1, s.readOffset + k)]
StreamGet(s, blocks, n) ==
  IF blocks THEN GetFromBlock(CurrentBlock(s), n) ELSE GetRaw(s, GetDataPointer(s.r, n, TRUE))

\* Skip of the stream: block after block.  Without blocks a long one goes wrong
\* (lost): APSEQREAD::Skip counts from the reads it has issued ahead.
RECURSIVE SkipBlocks(_, _)
SkipBlocks(s0, n) ==
  LET s == CurrentBlock(s0)
      k == Least(n, s.current - s.readOffset)
  IN IF n = 0 THEN s0 ELSE IF s.ec # "ok" THEN s
     ELSE SkipBlocks([s EXCEPT !.readOffset = @ + k], n - k)

StreamSkip(s, blocks, n) ==
  LET raw == SkipUnits(s.r, n) IN
  IF blocks THEN SkipBlocks(s, n)
  ELSE [s EXCEPT !.r = raw.r, !.ec = raw.ec,
                 !.lost = IF Len(s.r.left) <= n /\ n >= BufSize THEN "skip" ELSE @]

\* Seek: the block of the offset, read unless it is the one in memory.  A Reset
\* that fails is not noticed (lost).
StreamSeek(s, offset) ==
  LET n == offset \div DataOnly
      there == s.next = HeaderLen + (1 + n) * BufSize
      reset == ResetReader(s.r, HeaderLen + n * BufSize)
      block == ReadNextDataBlock([s EXCEPT !.next = HeaderLen + n * BufSize, !.current = 0,
                                    !.lost = IF reset.ec = "ok" THEN @ ELSE "seek",
                                    !.r = reset.r])
  IN [(IF there THEN [s EXCEPT !.ec = "ok"] ELSE block) EXCEPT !.readOffset = offset % DataOnly]

-----------------------------------------------------------------------------
Blocks == cmode.blocks
NoReader == [r |-> << >>, ec |-> "none"]
NoRead == [op |-> "none", from |-> 0, to |-> 0, out |-> << >>, ec |-> "ok"]

InitCheckpointStream ==
  /\ cmode \in StreamModes
  /\ cpc = "save"
  /\ cwriter = StreamWriterInit
  /\ cput = 0 /\ csize = 0 /\ cpos = 0 /\ cfails = 0
  /\ creader = NoReader /\ clast = NoRead

\* The device calls that fail in an operation, if any still may.
Failing == IF cfails < cmode.fails THEN {"none", "issue", "complete"} ELSE {"none"}
Armed(w, f) == [w EXCEPT !.fail = f]
Disarmed(w) == [w EXCEPT !.fail = "none"]
Charged(f) == cfails' = IF f = "none" THEN cfails ELSE cfails + 1

\* The device gets to a write in flight, whoever is doing what.
DeviceStep ==
  /\ cpc \in {"save", "close", "fail"}
  /\ \E i \in DOMAIN cwriter.w.flight :
       /\ cwriter.w.flight[i] >= 0
       /\ cwriter' = [cwriter EXCEPT !.w = DeviceWrites(@, i)]
  /\ UNCHANGED <<cmode, cpc, cput, csize, creader, cpos, clast, cfails>>

\* TrySaveState writes; an error makes it return false.
AppWrites ==
  /\ cpc = "save"
  /\ \E n \in Chunks, f \in Failing :
       LET data == [i \in 1..n |-> DataUnit(cput + i)]
           s == StreamWrite([cwriter EXCEPT !.w = Armed(@, f)], Blocks, data)
       IN /\ cput + n <= cmode.size
          /\ cwriter' = [s EXCEPT !.w = Disarmed(@)]
          /\ cput' = cput + n
          /\ cpc' = IF s.ec = "ok" THEN "save" ELSE "fail"
          /\ f # "none" => s.w.fail = "none"
          /\ Charged(f)
  /\ UNCHANGED <<cmode, csize, creader, cpos, clast>>

\* SaveCheckpoint after a TrySaveState that failed: the file is closed and
\* left behind.
AbandonCheckpoint ==
  /\ cpc = "fail"
  /\ cwriter' = StreamClose([cwriter EXCEPT !.ec = "ok"], Blocks)
  /\ cpc' = IF cwriter'.ec = "ok" THEN "false" ELSE "assert"
  /\ UNCHANGED <<cmode, cput, csize, creader, cpos, clast, cfails>>

\* SetBytesIssued.
TakeSize ==
  /\ cpc = "save"
  /\ \E f \in Failing :
       LET b == BytesIssued([cwriter EXCEPT !.w = Armed(@, f)], Blocks)
       IN /\ cwriter' = [b.s EXCEPT !.w = Disarmed(@)]
          /\ csize' = b.size
          /\ f # "none" => b.s.w.fail = "none"
          /\ Charged(f)
  /\ cpc' = "close"
  /\ UNCHANGED <<cmode, cput, creader, cpos, clast>>

\* VerifyCheckpoint: the header and the size, or the process ends.
FinishSave(file, closed) ==
  IF closed = "ok" /\ StreamReaderInit(file, Blocks).ec = "ok" THEN "load" ELSE "assert"

\* Close, the header, VerifyCheckpoint; then the checkpoint is published
\* and a later LoadState opens it.  A unit of it may have gone bad.
CloseAndVerify ==
  /\ cpc = "close"
  /\ \E f \in Failing : \E s \in {StreamClose([cwriter EXCEPT !.w = Armed(@, f)], Blocks)} :
       LET file == MarshalHeader(s.w.file, csize)
       IN /\ f # "none" => s.w.fail = "none"
          /\ cpc' = FinishSave(file, s.ec)
          /\ cwriter' = [s EXCEPT !.w = [SeqWrite EXCEPT !.overrun = s.w.overrun,
                                           !.file = IF cpc' = "load" THEN file ELSE << >>]]
          /\ Charged(f)
  /\ UNCHANGED <<cmode, cput, csize, creader, cpos, clast>>

OpenCheckpoint ==
  /\ cpc = "load" /\ creader = NoReader
  /\ \E bad \in 0..(IF cmode.bad THEN Len(cwriter.w.file) ELSE 0) :
       LET file == IF bad = 0 THEN cwriter.w.file
                   ELSE [cwriter.w.file EXCEPT ![bad] = GapUnit]
       IN /\ creader' = StreamReaderInit(file, Blocks)
          /\ cfails' = IF bad = 0 THEN 0 ELSE 1
          /\ clast' = [NoRead EXCEPT !.op = "open", !.ec = creader'.ec]
          /\ cpc' = IF creader'.ec = "ok" THEN "load" ELSE "done"
  /\ UNCHANGED <<cmode, cwriter, cput, csize, cpos>>

\* One call of the application; after an error it stops, and nothing is known
\* of a call whose count has gone below zero.
Called(s, op, to, out, pos, f) ==
  LET ec == IF s.r.wrapped THEN "fault" ELSE s.ec IN
  /\ f # "none" => s.r.fail = "none"
  /\ creader' = [s EXCEPT !.r = Disarmed(@)]
  /\ clast' = [op |-> op, from |-> cpos, to |-> to, out |-> out, ec |-> ec]
  /\ cpos' = IF ec = "ok" THEN pos ELSE cpos
  /\ cpc' = IF ec = "ok" THEN "load" ELSE "done"
  /\ Charged(f)
  /\ UNCHANGED <<cmode, cwriter, cput, csize>>

Opened == cpc = "load" /\ creader # NoReader

AppReads ==
  /\ Opened
  /\ \E n \in Chunks, f \in Failing :
       LET p == StreamGet([creader EXCEPT !.r = Armed(@, f)], Blocks, n)
       IN Called(p.s, "read", cpos + n, p.out, cpos + Len(p.out), f)

AppSkips ==
  /\ Opened /\ "skip" \in cmode.calls
  /\ \E n \in Chunks, f \in Failing :
       /\ Blocks \/ cpos + n <= StreamSize(creader.r.file, Blocks)
       /\ Called(StreamSkip([creader EXCEPT !.r = Armed(@, f)], Blocks, n), "skip", cpos + n, << >>,
                 cpos + n, f)

AppSeeks ==
  /\ Opened /\ Blocks /\ "seek" \in cmode.calls
  /\ \E offset \in 0..StreamSize(creader.r.file, Blocks), f \in Failing :
       Called(StreamSeek([creader EXCEPT !.r = Armed(@, f)], offset), "seek", offset, << >>,
              offset, f)

NextCheckpointStream ==
  \/ DeviceStep
  \/ AppWrites \/ AbandonCheckpoint \/ TakeSize \/ CloseAndVerify
  \/ OpenCheckpoint \/ AppReads \/ AppSkips \/ AppSeeks

SpecCheckpointStream == InitCheckpointStream /\ [][NextCheckpointStream]_cvars

-----------------------------------------------------------------------------
\* The reader is where the application thinks: no Seek has gone on after a
\* Reset that failed, whose result it drops, and no Skip of a buffer or more
\* was made in a file without blocks, which starts from the wrong offset.
InPlace == creader # NoReader => creader.lost = "no"

\* No write has failed in the Flush of BytesIssued, where a file without
\* blocks does not notice it.
AllSeen == ~cwriter.unseen

\* What LoadState is given is what TrySaveState wrote, unit for unit, or an
\* error: ReadNextDataBlock's checksums and the header's size keep apart a
\* buffer reused under its write, a write that failed and a unit gone bad.
\* Left out: a reader no longer in place, and a file without blocks one of
\* whose writes failed unseen.
NeverWrongData ==
  InPlace /\ AllSeen /\ clast.op = "read" /\ clast.ec = "ok" =>
    /\ clast.out # << >>
    /\ clast.from + Len(clast.out) <= cput
    /\ \A i \in DOMAIN clast.out : clast.out[i] = DataUnit(clast.from + i)

\* A checkpoint that VerifyCheckpoint let through reads back whole: while no
\* read fails and nothing has gone bad since, the end of the stream is
\* reported where the data ends and no other error is, whatever writes failed
\* before the verification.  Left out as above.
VerifiedWhole ==
  cfails = 0 /\ InPlace /\ AllSeen =>
    \/ clast.ec = "ok"
    \/ clast.ec = "eof" /\ clast.op # "open" /\ clast.to >= cput

\* No copy leaves its buffer and no count goes below zero, on the error paths
\* of PrepareNext, WriteInternal and Close and for every seek into the stream,
\* while the reader is in place.
BuffersInBounds ==
  ~cwriter.w.overrun /\ (creader # NoReader /\ InPlace => ~creader.r.wrapped)
=============================================================================
