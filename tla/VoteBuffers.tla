----------------------------- MODULE VoteBuffers -----------------------------
(***************************************************************************)
(* The memory of a vote the primary builds (message.cpp): a list of page   *)
(* aligned buffers that LogVote writes to disk without copying.  Init lays *)
(* down the header and what follows it, AddRequest appends a request and,  *)
(* when it does not fit, moves the bytes past the last full page to a new  *)
(* buffer.  Memory is counted in units; a unit remembers what it holds.    *)
(***************************************************************************)
EXTENDS Integers, Sequences, SequencesExt

CONSTANTS
  SystemPage,    \* s_SystemPageSize
  DefaultSize,   \* the 32K AddMemory takes at least
  HeadSizes,     \* minSize of Init: the header, the cookie and the member set
  RequestSizes,  \* the lengths of requests
  MaxRequests    \* how many requests go into a vote

VARIABLES
  vbufs,     \* m_marshal: [mem, cap, raw, valid], "raw" all it was ever written
  vreqs,     \* m_requests: where m_requestBuf points, [mem, off, len]
  vfreed,    \* the memory that was given back
  vnext      \* the next allocation

vbvars == <<vbufs, vreqs, vfreed, vnext>>

LengthUnits == 1    \* the 4 bytes in front of a request
RelinquishUnits == 1 \* the byte that Init writes from version 5 on and minSize leaves out
RoundUpTo(n, unit) == ((n + unit - 1) \div unit) * unit
AddMemory(minSize) ==
  LET len == IF minSize > DefaultSize THEN minSize ELSE DefaultSize IN RoundUpTo(len, SystemPage)

HeadUnits(n) == [i \in 1..n |-> <<0, i>>]
RequestUnits(k, n) == [i \in 1..(n + LengthUnits) |-> <<k, i>>]

InitVoteBuffers ==
  /\ \E n \in HeadSizes :
       vbufs = <<[mem |-> 0, cap |-> AddMemory(n), raw |-> HeadUnits(n + RelinquishUnits),
                 valid |-> n + RelinquishUnits]>>
  /\ vreqs = <<>>
  /\ vfreed = {}
  /\ vnext = 1

\* The pointers of the requests whose first byte is among those that move.
MovedRequests(reqs, from, at, extra, to) ==
  [i \in DOMAIN reqs |->
     IF reqs[i].mem = from /\ reqs[i].off >= at /\ reqs[i].off < at + extra
     THEN [reqs[i] EXCEPT !.mem = to, !.off = reqs[i].off - at] ELSE reqs[i]]

\* The bytes past the last full page go to the new buffer.
Extra(valid) == valid % SystemPage

AddRequest(len) ==
  LET buf == vbufs[Len(vbufs)]
      extra == Extra(buf.valid)
      at == buf.valid - extra
      new == [mem |-> vnext, cap |-> AddMemory(len + LengthUnits + extra),
              raw |-> SubSeq(buf.raw, at + 1, buf.valid), valid |-> extra]
      full == len + LengthUnits + buf.valid > buf.cap
      front == SubSeq(vbufs, 1, Len(vbufs) - 1)
      bufs == IF ~full THEN vbufs
              ELSE front \o (IF at = 0 THEN <<>> ELSE <<[buf EXCEPT !.valid = at]>>) \o <<new>>
      reqs == IF full THEN MovedRequests(vreqs, buf.mem, at, extra, vnext) ELSE vreqs
      last == bufs[Len(bufs)]
  IN  /\ Len(vreqs) < MaxRequests
      /\ vbufs' = [bufs EXCEPT ![Len(bufs)] =
                     [last EXCEPT !.raw = @ \o RequestUnits(Len(vreqs) + 1, len),
                                  !.valid = @ + len + LengthUnits]]
      /\ vreqs' = Append(reqs, [mem |-> last.mem, off |-> last.valid + LengthUnits, len |-> len])
      /\ vfreed' = IF full /\ at = 0 THEN vfreed \cup {buf.mem} ELSE vfreed
      /\ vnext' = IF full THEN vnext + 1 ELSE vnext

NextVoteBuffers == \E len \in RequestSizes : AddRequest(len)

SpecVoteBuffers == InitVoteBuffers /\ [][NextVoteBuffers]_vbvars

-----------------------------------------------------------------------------
\* The valid parts of the buffers, one behind the other, are the vote's parts in
\* the order they were added.
InOrder ==
  LET all == FlattenSeq([i \in DOMAIN vbufs |-> SubSeq(vbufs[i].raw, 1, vbufs[i].valid)])
  IN  \A i \in 1..(Len(all) - 1) :
        \/ all[i + 1] = <<all[i][1], all[i][2] + 1>>
        \/ all[i + 1] = <<all[i][1] + 1, 1>>

\* However requests are spread over buffers: no buffer is written past its end,
\* every buffer but the last ends on a page, so that the buffers GetBuffers rounds
\* up to pages and LogVote writes one behind the other are the vote without a gap;
\* and m_requestBuf of every request, which ExecuteVote and the replies use, points
\* to that request's bytes in memory that is still part of the vote (Vote::AddRequest).
VoteInOnePiece ==
  /\ \A i \in DOMAIN vbufs :
       /\ Len(vbufs[i].raw) <= vbufs[i].cap
       /\ i < Len(vbufs) => vbufs[i].valid % SystemPage = 0
       /\ vbufs[i].mem \notin vfreed
  /\ InOrder
  /\ \A k \in DOMAIN vreqs :
       \E i \in DOMAIN vbufs :
         /\ vbufs[i].mem = vreqs[k].mem
         /\ \A u \in 1..vreqs[k].len :
              /\ vreqs[k].off + u <= Len(vbufs[i].raw)
              /\ vbufs[i].raw[vreqs[k].off + u] = <<k, LengthUnits + u>>
=============================================================================
