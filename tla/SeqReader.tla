------------------------------ MODULE SeqReader ------------------------------
(***************************************************************************)
(* The sequential file reader of rsl-storage (seqread.rs): a pool of       *)
(* threads reads the blocks of a file ahead of the caller into a ring, and *)
(* the caller takes them in order.  A lock region is one step; a thread    *)
(* that waits on the condition variable sleeps until a notify_all.  Unit k *)
(* of the file is the number k.                                            *)
(***************************************************************************)
EXTENDS Integers, Sequences, FiniteSets

CONSTANTS
  RSlots,      \* SeqReaderConfig::slots
  RThread,     \* the reader threads
  RBlock,      \* units per block
  RSector,     \* units per sector
  RSizes,      \* the lengths of the file
  ROffsets,    \* the offsets open_at is called with
  RWindows,    \* the sizes of the caller's reads
  RFailures    \* bound: how many reads fail

\* SeqReaderConfig::validate.
RValidConfig ==
  /\ RThread # {} /\ RSlots >= Cardinality(RThread)
  /\ RBlock > 0 /\ RBlock % RSector = 0

ASSUME SeqReaderAssumption == RValidConfig

VARIABLES
  ropen,     \* what open_at worked out: size, start, aligned, want, blocks
  rring,     \* RingInner: bufs, ready, head, next, err, stop
  rcaller,   \* the caller's SeqReader, its call and what it was given
  rworker,   \* per thread: where it is in fill_loop
  rasleep,   \* who waits on the condition variable
  rfails     \* reads that may still fail

rvars == <<ropen, rring, rcaller, rworker, rasleep, rfails>>

RNone == [filled |-> -1]
RFresh == [filled |-> 0, data |-> << >>]
RSlot(index) == index % RSlots
RMin(a, b) == IF a < b THEN a ELSE b

\* open_at: the aligned start, the prefix to skip and the number of blocks.
ROpenAt(size, offset) ==
  LET start == RMin(offset, size)
      aligned == start - (start % RSector)
  IN [size |-> size, start |-> start, aligned |-> aligned, want |-> size - aligned,
      blocks |-> (size - aligned + RBlock - 1) \div RBlock]

\* read_at: a block at an offset, short at the end of the file.
RReadAt(off) == [i \in 1..RMin(RBlock, ropen.size - off) |-> off + i]

-----------------------------------------------------------------------------
\* The slot no longer holds the block of the round before.
RSlotFree(s) == ~rring.ready[s] /\ rring.bufs[s] # RNone

\* A thread that has block i to read: it leaves on stop and error, takes the
\* buffer of its slot, or waits out what the slot held RSlots blocks ago.
RWaits(t, i, ring) ==
  IF ring.stop \/ ring.err
  THEN /\ rworker' = [rworker EXCEPT ![t] = [pc |-> "exited"]]
       /\ rring' = ring /\ UNCHANGED rasleep
  ELSE IF RSlotFree(RSlot(i))
  THEN /\ rworker' = [rworker EXCEPT ![t] = [pc |-> "read", index |-> i]]
       /\ rring' = [ring EXCEPT !.bufs[RSlot(i)] = RNone]
       /\ UNCHANGED rasleep
  ELSE /\ rworker' = [rworker EXCEPT ![t] = [pc |-> "wait", index |-> i]]
       /\ rring' = ring /\ rasleep' = rasleep \cup {t}

\* fill_loop claims the next block and looks at its slot under one lock.
RClaim(t) ==
  /\ rworker[t].pc = "loop"
  /\ IF rring.stop \/ rring.err \/ rring.next >= ropen.blocks
     THEN rworker' = [rworker EXCEPT ![t] = [pc |-> "exited"]] /\ UNCHANGED <<rring, rasleep>>
     ELSE RWaits(t, rring.next, [rring EXCEPT !.next = @ + 1])
  /\ UNCHANGED <<ropen, rcaller, rfails>>

\* A notified thread has the lock again and looks at its slot once more.
RWake(t) ==
  /\ rworker[t].pc = "wait" /\ t \notin rasleep
  /\ RWaits(t, rworker[t].index, rring)
  /\ UNCHANGED <<ropen, rcaller, rfails>>

\* The read came back: the buffer goes into its slot, ready, or the error is
\* kept and the thread returns.
RFilled(t) ==
  /\ rworker[t].pc = "read"
  /\ LET i == rworker[t].index
         s == RSlot(i)
         take == RMin(ropen.want - i * RBlock, RBlock)
         data == RReadAt(ropen.aligned + i * RBlock)
     IN \/ /\ rring' = [rring EXCEPT !.bufs[s] = [filled |-> RMin(Len(data), take), data |-> data],
                                     !.ready[s] = TRUE]
           /\ rworker' = [rworker EXCEPT ![t] = [pc |-> "loop"]]
           /\ UNCHANGED rfails
        \/ /\ rfails > 0
           /\ rring' = [rring EXCEPT !.bufs[s] = RFresh, !.err = TRUE]
           /\ rworker' = [rworker EXCEPT ![t] = [pc |-> "exited"]]
           /\ rfails' = rfails - 1
  /\ rasleep' = {}
  /\ UNCHANGED <<ropen, rcaller>>

-----------------------------------------------------------------------------
\* read hands out what is left of the current buffer.
RCopy(c, n) ==
  [c EXCEPT !.pos = @ + n, !.pc = "idle",
            !.out = @ \o SubSeq(c.cur.data, c.pos + 1, c.pos + n)]

\* read is called with a window, and either copies from the current buffer,
\* is at its end, or goes for the next block.
RRead ==
  /\ rcaller.pc = "idle"
  /\ \E n \in RWindows :
       rcaller' =
         IF rcaller.cur # RNone /\ rcaller.pos < rcaller.cur.filled
         THEN RCopy(rcaller, RMin(n, rcaller.cur.filled - rcaller.pos))
         ELSE IF rcaller.done THEN [rcaller EXCEPT !.pc = "eof"]
         ELSE [rcaller EXCEPT !.pc = "return", !.window = n]
  /\ UNCHANGED <<ropen, rring, rworker, rasleep, rfails>>

\* The drained buffer goes back to its slot, and everyone is told.
RGivenBack(s) == [ring |-> [rring EXCEPT !.bufs[s] = rcaller.cur, !.ready[s] = FALSE],
                  asleep |-> {}]

\* How much of a block is the sector prefix below the start.
RSkipped(skip, filled) == RMin(skip, filled)

\* read looks for the next block in order: the error, the block with its
\* prefix skipped, or a wait for it.
RTakes(c, ring, asleep) ==
  LET s == RSlot(ring.head)
      drop == RSkipped(c.skip, ring.bufs[s].filled)
  IN IF ring.err
     THEN /\ rcaller' = [c EXCEPT !.pc = "failed", !.done = TRUE]
          /\ rring' = [ring EXCEPT !.err = FALSE]
          /\ rasleep' = asleep
     ELSE IF ring.ready[s] /\ ring.bufs[s] # RNone
     THEN /\ rcaller' = [c EXCEPT !.cur = ring.bufs[s], !.slot = s, !.pos = drop,
                           !.skip = @ - drop, !.done = ring.bufs[s].filled = 0,
                           !.pc = IF ring.bufs[s].filled = 0 THEN "eof" ELSE "got"]
          /\ rring' = [ring EXCEPT !.bufs[s] = RNone, !.head = @ + 1]
          /\ rasleep' = asleep
     ELSE /\ rcaller' = [c EXCEPT !.pc = "next"]
          /\ rring' = ring
          /\ rasleep' = asleep \cup {"caller"}

\* read under the lock: its buffer goes back before it looks for a block, so
\* a thread always has somewhere to work.
RReturn ==
  /\ rcaller.pc = "return"
  /\ LET back == IF rcaller.cur = RNone THEN [ring |-> rring, asleep |-> rasleep]
                 ELSE RGivenBack(rcaller.slot)
         c == [rcaller EXCEPT !.cur = RNone]
     IN IF rring.head >= ropen.blocks
        THEN /\ rcaller' = [c EXCEPT !.pc = "eof", !.done = TRUE]
             /\ rring' = back.ring /\ rasleep' = back.asleep
        ELSE RTakes(c, back.ring, back.asleep)
  /\ UNCHANGED <<ropen, rworker, rfails>>

\* The notified caller looks again.
RNext ==
  /\ rcaller.pc = "next" /\ "caller" \notin rasleep
  /\ RTakes(rcaller, rring, rasleep)
  /\ UNCHANGED <<ropen, rworker, rfails>>

\* read copies from the block, or goes round again when all was prefix.
RGot ==
  /\ rcaller.pc = "got"
  /\ rcaller' = IF rcaller.pos >= rcaller.cur.filled THEN [rcaller EXCEPT !.pc = "return"]
                ELSE RCopy(rcaller, RMin(rcaller.window, rcaller.cur.filled - rcaller.pos))
  /\ UNCHANGED <<ropen, rring, rworker, rasleep, rfails>>

\* Drop: stop, the buffer put back, everyone notified; then the joins.
RDrop ==
  /\ rcaller.pc \in {"idle", "eof", "failed"}
  /\ rring' = [IF rcaller.cur = RNone THEN rring
               ELSE [rring EXCEPT !.bufs[rcaller.slot] = rcaller.cur,
                                  !.ready[rcaller.slot] = FALSE] EXCEPT !.stop = TRUE]
  /\ rasleep' = {}
  /\ rcaller' = [rcaller EXCEPT !.ended = rcaller.pc, !.pc = "join", !.cur = RNone]
  /\ UNCHANGED <<ropen, rworker, rfails>>

RJoined == \A t \in RThread : rworker[t].pc = "exited"

RJoinThread ==
  /\ rcaller.pc = "join" /\ RJoined
  /\ rcaller' = [rcaller EXCEPT !.pc = "dropped"]
  /\ UNCHANGED <<ropen, rring, rworker, rasleep, rfails>>

-----------------------------------------------------------------------------
InitSeqReader ==
  /\ \E size \in RSizes, offset \in ROffsets : ropen = ROpenAt(size, offset)
  /\ rring = [bufs |-> [s \in 0..RSlots - 1 |-> RFresh],
              ready |-> [s \in 0..RSlots - 1 |-> FALSE],
              head |-> 0, next |-> 0, err |-> FALSE, stop |-> FALSE]
  /\ rcaller = [pc |-> "idle", cur |-> RNone, slot |-> 0, pos |-> 0, window |-> 0,
                skip |-> ropen.start - ropen.aligned, done |-> ropen.blocks = 0,
                out |-> << >>, ended |-> ""]
  /\ rworker = [t \in RThread |-> [pc |-> "loop"]]
  /\ rasleep = {}
  /\ rfails = RFailures

NextSeqReader ==
  \/ RRead \/ RReturn \/ RNext \/ RGot \/ RDrop \/ RJoinThread
  \/ \E t \in RThread : RClaim(t) \/ RWake(t) \/ RFilled(t)

SpecSeqReader == InitSeqReader /\ [][NextSeqReader]_rvars

-----------------------------------------------------------------------------
\* What read returned so far is the file from the requested offset on, in
\* order and without a gap, and an end of file was reported only at its end.
StreamRead ==
  /\ rcaller.out = [i \in 1..Len(rcaller.out) |-> ropen.start + i]
  /\ rcaller.pc = "eof" => Len(rcaller.out) = ropen.size - ropen.start

\* A caller asleep for the next block, or joining the threads, waits for one
\* that runs: neither the fills, the returned buffers nor drop lose a wake-up.
ReaderWaitsForWork ==
  "caller" \in rasleep \/ (rcaller.pc = "join" /\ ~RJoined)
    => \E t \in RThread : rworker[t].pc # "exited" /\ t \notin rasleep
=============================================================================
