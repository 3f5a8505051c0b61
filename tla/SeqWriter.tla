------------------------------ MODULE SeqWriter ------------------------------
(***************************************************************************)
(* The sequential file writer of rsl-storage (seqwrite.rs): a caller fills *)
(* the blocks of a ring and a pool of threads writes them behind it, each  *)
(* at its own offset.  A lock region of the code is one step; a thread     *)
(* that waits on the condition variable sleeps until a notify_all.  Bytes  *)
(* are units: unit k of the stream is the number k, 0 is padding.          *)
(***************************************************************************)
EXTENDS Integers, Sequences, FiniteSets, SequencesExt

CONSTANTS
  WSlots,       \* SeqWriterConfig::slots
  WThread,      \* the writer threads
  WBlock,       \* units per block
  WSector,      \* units per sector
  WMaxUnits,    \* bound: the length of the stream
  WChunks,      \* the sizes of the caller's writes
  WFailures,    \* bound: how many device calls fail
  WInline,      \* BlockDevice::inline, a set of the values to start from
  WIgnoresErr   \* TRUE: the caller goes on after a call returned an error

\* SeqWriterConfig::validate.
WValidConfig ==
  /\ Cardinality(WThread) > 0 /\ WSlots >= 2 /\ WSlots >= Cardinality(WThread)
  /\ WBlock > 0 /\ WBlock % WSector = 0

ASSUME SeqWriterAssumption == WValidConfig

VARIABLES
  wring,     \* RingInner: bufs, pending, closed, err
  wcaller,   \* the caller's SeqWriter and where it is in its call
  wworker,   \* per thread: where it is in drain_loop
  wasleep,   \* who waits on the condition variable
  wfile,     \* the file's units
  wfails     \* device calls that may still fail, and whether one did

wvars == <<wring, wcaller, wworker, wasleep, wfile, wfails>>

WNone == [filled |-> -1]                    \* Option::None for a buffer
WFree == -1                                 \* Option::None in pending
WBuffer(data, n) == [filled |-> n, data |-> data]
WFresh == WBuffer([i \in 1..WBlock |-> 0], 0)
WSlot(index) == index % WSlots

\* write_at: the units of a block at an offset, the file growing as it must.
WWriteAt(file, off, data) ==
  [i \in 1..(IF Len(file) > off + Len(data) THEN Len(file) ELSE off + Len(data)) |->
     IF i > off /\ i <= off + Len(data) THEN data[i - off]
     ELSE IF i <= Len(file) THEN file[i] ELSE 0]

WSetLen(file, n) == [i \in 1..n |-> IF i <= Len(file) THEN file[i] ELSE 0]

WData(buf) == SubSeq(buf.data, 1, buf.filled)

\* The call returns an error and check_err, publish or take_slot takes it out
\* of the ring.
WReturnsErr(ring) ==
  /\ wring' = [ring EXCEPT !.err = FALSE]
  /\ wcaller' = [wcaller EXCEPT !.pc = "err", !.errors = @ + 1]

-----------------------------------------------------------------------------
\* Write::write begins with a chunk of the stream.
WWrite ==
  /\ wcaller.pc = "idle" \/ (WIgnoresErr /\ wcaller.pc = "err" /\ ~wcaller.finished)
  /\ \E n \in WChunks :
       /\ wcaller.written + n <= WMaxUnits
       /\ wcaller' = [wcaller EXCEPT !.pc = "available", !.left = n]
  /\ UNCHANGED <<wring, wworker, wasleep, wfile, wfails>>

\* available: check_err, and whether the current buffer must be rotated.
WAvailable ==
  /\ wcaller.pc = "available"
  /\ IF wring.err THEN WReturnsErr(wring)
     ELSE /\ wcaller' = [wcaller EXCEPT !.pc =
                 IF wcaller.cur = WNone THEN "panic"
                 ELSE IF wcaller.cur.filled = WBlock THEN "publish" ELSE "copy"]
          /\ UNCHANGED wring
  /\ UNCHANGED <<wworker, wasleep, wfile, wfails>>

\* publish through the pool: the error, or the buffer into its slot.
WPublishRing(buf, next) ==
  /\ wasleep' = IF wring.err THEN wasleep ELSE {}
  /\ IF wring.err
     THEN /\ wring' = [wring EXCEPT !.err = FALSE]
          /\ wcaller' = [wcaller EXCEPT !.pc = "err", !.errors = @ + 1, !.cur = WNone,
                                        !.finished = (next = "close")]
     ELSE /\ wring' = [wring EXCEPT !.bufs[WSlot(wcaller.index)] = buf,
                                    !.pending[WSlot(wcaller.index)] = wcaller.index]
          /\ wcaller' = [wcaller EXCEPT !.pc = next, !.cur = WNone,
                           !.finished = (next = "close"),
                           !.index = IF next = "take" THEN @ + 1 ELSE @]
  /\ UNCHANGED <<wworker, wfile, wfails>>

\* publish on an inline device: the write happens here and the slot is free
\* again at once.
WPublishInline(buf, next, ok) ==
  /\ ok \/ wfails.left > 0
  /\ wfile' = IF ok THEN WWriteAt(wfile, wcaller.index * WBlock, WData(buf)) ELSE wfile
  /\ wfails' = IF ok THEN wfails ELSE [left |-> wfails.left - 1, failed |-> TRUE]
  /\ wring' = [wring EXCEPT !.bufs[WSlot(wcaller.index)] = buf,
                            !.pending[WSlot(wcaller.index)] = WFree,
                            !.err = @ \/ ~ok]
  /\ wcaller' = [wcaller EXCEPT !.pc = IF ok THEN next ELSE "err",
                   !.errors = IF ok THEN @ ELSE @ + 1, !.cur = WNone,
                   !.finished = (next = "close"),
                   !.index = IF ok /\ next = "take" THEN @ + 1 ELSE @]
  /\ UNCHANGED <<wworker, wasleep>>

WPublishAny(buf, next) ==
  IF wcaller.inline THEN \E ok \in BOOLEAN : WPublishInline(buf, next, ok)
  ELSE WPublishRing(buf, next)

\* rotate: the full buffer is published.
WPublish ==
  /\ wcaller.pc = "publish"
  /\ WPublishAny(wcaller.cur, "take")

\* take_slot's condition: the slot is written out and its buffer is back.
WTakeSlot(s) == wring.pending[s] = WFree /\ wring.bufs[s] # WNone

\* rotate: take_slot, or its wait on the condition variable.
WTake ==
  /\ wcaller.pc = "take"
  /\ "caller" \notin wasleep
  /\ LET s == WSlot(wcaller.index) IN
     IF wring.err THEN WReturnsErr(wring) /\ UNCHANGED wasleep
     ELSE IF WTakeSlot(s)
     THEN /\ wcaller' = [wcaller EXCEPT !.pc = "copy",
                                        !.cur = [wring.bufs[s] EXCEPT !.filled = 0]]
          /\ wring' = [wring EXCEPT !.bufs[s] = WNone]
          /\ UNCHANGED wasleep
     ELSE wasleep' = wasleep \cup {"caller"} /\ UNCHANGED <<wring, wcaller>>
  /\ UNCHANGED <<wworker, wfile, wfails>>

\* The second check_err of write, the copy into the buffer and commit.
WCopy ==
  /\ wcaller.pc = "copy"
  /\ IF wring.err THEN WReturnsErr(wring)
     ELSE LET c == wcaller.cur
              n == IF wcaller.left < WBlock - c.filled THEN wcaller.left ELSE WBlock - c.filled
          IN /\ wcaller' = [wcaller EXCEPT
                   !.cur = WBuffer([i \in 1..WBlock |->
                              IF i > c.filled /\ i <= c.filled + n
                              THEN wcaller.written + i - c.filled ELSE c.data[i]],
                              c.filled + n),
                   !.written = @ + n, !.left = @ - n,
                   !.pc = IF wcaller.left = n THEN "idle" ELSE "available"]
             /\ UNCHANGED wring
  /\ UNCHANGED <<wworker, wasleep, wfile, wfails>>

\* The tail of finish: zeros up to the sector above.
WPadded(buf) ==
  WBuffer([i \in 1..WBlock |-> IF i <= buf.filled THEN buf.data[i] ELSE 0],
          ((buf.filled + WSector - 1) \div WSector) * WSector)

\* finish: the tail is published, or the empty buffer goes back to its slot.
WFinish ==
  /\ wcaller.pc = "idle" \/ (WIgnoresErr /\ wcaller.pc = "err")
  /\ ~wcaller.finished
  /\ IF wcaller.cur # WNone /\ wcaller.cur.filled > 0
     THEN WPublishAny(WPadded(wcaller.cur), "close")
     ELSE /\ wring' = IF wcaller.cur = WNone THEN wring
                      ELSE [wring EXCEPT !.bufs[WSlot(wcaller.index)] = wcaller.cur]
          /\ wcaller' = [wcaller EXCEPT !.pc = "close", !.finished = TRUE, !.cur = WNone]
          /\ UNCHANGED <<wworker, wasleep, wfile, wfails>>

\* Drop before finish: the ring is closed and the threads are joined.
WDrop ==
  /\ wcaller.pc \in {"idle", "err"} /\ ~wcaller.finished
  /\ wring' = [wring EXCEPT !.closed = TRUE]
  /\ wasleep' = {}
  /\ wcaller' = [wcaller EXCEPT !.pc = "joinDrop", !.finished = TRUE]
  /\ UNCHANGED <<wworker, wfile, wfails>>

\* finish: closed is set and every waiter is notified.
WClose ==
  /\ wcaller.pc = "close"
  /\ wring' = [wring EXCEPT !.closed = TRUE]
  /\ wasleep' = {}
  /\ wcaller' = [wcaller EXCEPT !.pc = "join"]
  /\ UNCHANGED <<wworker, wfile, wfails>>

WJoined == \A t \in WThread : wworker[t].pc = "exited"

\* The threads are joined; finish looks at the error and sets the length,
\* which may fail too.
WJoin ==
  /\ wcaller.pc \in {"join", "joinDrop"} /\ WJoined
  /\ \/ /\ wcaller.pc = "joinDrop"
        /\ wcaller' = [wcaller EXCEPT !.pc = "dropped"]
        /\ UNCHANGED <<wring, wfile, wfails>>
     \/ /\ wcaller.pc = "join" /\ wring.err
        /\ WReturnsErr(wring)
        /\ UNCHANGED <<wfile, wfails>>
     \/ /\ wcaller.pc = "join" /\ ~wring.err
        /\ wcaller' = [wcaller EXCEPT !.pc = "ok"]
        /\ wfile' = WSetLen(wfile, wcaller.written)
        /\ UNCHANGED <<wring, wfails>>
     \/ /\ wcaller.pc = "join" /\ ~wring.err /\ wfails.left > 0
        /\ wcaller' = [wcaller EXCEPT !.pc = "err", !.errors = @ + 1]
        /\ wfails' = [left |-> wfails.left - 1, failed |-> TRUE]
        /\ UNCHANGED <<wring, wfile>>
  /\ UNCHANGED <<wworker, wasleep>>

-----------------------------------------------------------------------------
\* drain_loop's lock region: leave on an error, claim the first filled slot,
\* leave once the ring is closed, or wait.
WClaim(t) ==
  /\ wworker[t].pc = "loop" /\ t \notin wasleep
  /\ LET full == {s \in 0..WSlots - 1 : wring.pending[s] # WFree /\ wring.bufs[s] # WNone}
     IN IF wring.err
        THEN wworker' = [wworker EXCEPT ![t].pc = "exited"] /\ UNCHANGED <<wring, wasleep>>
        ELSE IF full # {}
        THEN LET s == CHOOSE x \in full : \A y \in full : x <= y
             IN /\ wworker' = [wworker EXCEPT ![t] =
                       [pc |-> "write", slot |-> s, index |-> wring.pending[s],
                        buf |-> wring.bufs[s]]]
                /\ wring' = [wring EXCEPT !.bufs[s] = WNone]
                /\ UNCHANGED wasleep
        ELSE IF wring.closed
        THEN wworker' = [wworker EXCEPT ![t].pc = "exited"] /\ UNCHANGED <<wring, wasleep>>
        ELSE wasleep' = wasleep \cup {t} /\ UNCHANGED <<wring, wworker>>
  /\ UNCHANGED <<wcaller, wfile, wfails>>

\* write_block_at, outside the lock.
WWriteBlock(t) ==
  /\ wworker[t].pc = "write"
  /\ \E ok \in BOOLEAN :
       /\ ok \/ wfails.left > 0
       /\ wfile' = IF ok THEN WWriteAt(wfile, wworker[t].index * WBlock, WData(wworker[t].buf))
                   ELSE wfile
       /\ wfails' = IF ok THEN wfails ELSE [left |-> wfails.left - 1, failed |-> TRUE]
       /\ wworker' = [wworker EXCEPT ![t].pc = IF ok THEN "ok" ELSE "failed"]
  /\ UNCHANGED <<wring, wcaller, wasleep>>

\* A defect: the slot is given back and nobody is told.
WGiveBackQuietly(t) ==
  /\ wworker[t].pc \in {"ok", "failed"}
  /\ wring' = [wring EXCEPT !.bufs[wworker[t].slot] = wworker[t].buf,
                            !.pending[wworker[t].slot] = WFree,
                            !.err = @ \/ wworker[t].pc = "failed"]
  /\ wworker' = [wworker EXCEPT ![t] = [pc |-> "loop"]]
  /\ UNCHANGED <<wcaller, wasleep, wfile, wfails>>

\* drain_loop: the buffer back into its slot, the first error kept, notify_all.
WGiveBack(t) ==
  /\ wworker[t].pc \in {"ok", "failed"}
  /\ wring' = [wring EXCEPT !.bufs[wworker[t].slot] = wworker[t].buf,
                            !.pending[wworker[t].slot] = WFree,
                            !.err = @ \/ wworker[t].pc = "failed"]
  /\ wasleep' = {}
  /\ wworker' = [wworker EXCEPT ![t] = [pc |-> "loop"]]
  /\ UNCHANGED <<wcaller, wfile, wfails>>

-----------------------------------------------------------------------------
\* create_on: every slot holds its buffer but the first, which is current.
InitSeqWriter ==
  /\ wring = [bufs |-> [s \in 0..WSlots - 1 |-> IF s = 0 THEN WNone ELSE WFresh],
              pending |-> [s \in 0..WSlots - 1 |-> WFree], closed |-> FALSE, err |-> FALSE]
  /\ \E inline \in WInline :
       /\ wcaller = [pc |-> "idle", inline |-> inline, cur |-> WFresh, index |-> 0,
                     written |-> 0, left |-> 0, finished |-> FALSE, errors |-> 0]
       /\ wworker = [t \in WThread |-> [pc |-> IF inline THEN "exited" ELSE "loop"]]
  /\ wasleep = {}
  /\ wfile = << >>
  /\ wfails = [left |-> WFailures, failed |-> FALSE]

NextSeqWriter ==
  \/ WWrite \/ WAvailable \/ WPublish \/ WTake \/ WCopy
  \/ WFinish \/ WDrop \/ WClose \/ WJoin
  \/ \E t \in WThread : WClaim(t) \/ WWriteBlock(t) \/ WGiveBack(t)

SpecSeqWriter == InitSeqWriter /\ [][NextSeqWriter]_wvars

-----------------------------------------------------------------------------
\* A finish that returned Ok left exactly the stream in the file, whatever
\* order the threads wrote the blocks in and however the buffers were reused.
FinishedFileWhole ==
  wcaller.pc = "ok" => wfile = [i \in 1..wcaller.written |-> i]

\* A unit of the file is the unit of the stream at that place or padding: a
\* recycled buffer leaves nothing of an older block behind.
BlocksInPlace == \A i \in 1..Len(wfile) : wfile[i] \in {0, i}

\* A caller asleep in take_slot, or waiting in the joins of finish and drop,
\* is waiting for a thread that runs: no notify_all is missing.
WriterWaitsForWork ==
  "caller" \in wasleep \/ (wcaller.pc \in {"join", "joinDrop"} /\ ~WJoined)
    => \E t \in WThread : wworker[t].pc # "exited" /\ t \notin wasleep

=============================================================================
