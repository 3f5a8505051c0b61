----------------------------- MODULE WireFormats -----------------------------
(***************************************************************************)
(* The messages of RSL in bytes.  A buffer is a sequence of cells; a cell  *)
(* is one value written by one Write call, with the number of bytes it     *)
(* takes, so lengths are counted in the bytes the code counts.  Bytes      *)
(* written by WriteData are cells of one byte each.  A value is a sequence *)
(* of numbers: <<n>> for a number, the digits of a member id, the          *)
(* fingerprint of the cells it covers.                                     *)
(*                                                                         *)
(* A message is on its way between two replicas, or goes through a file,   *)
(* where either end may be the C++ or the Rust implementation: it is       *)
(* marshaled, possibly damaged, and parsed by both.                        *)
(***************************************************************************)
EXTENDS Integers, Sequences, SequencesExt

CONSTANTS
  PageBytes,         \* s_PageSize, the unit log and checkpoint files grow by
  MaxSetCookie,      \* RSLMemberSet::s_MaxMemberSetCookieLength
  HostRoom,          \* sizeof(RSLNode::m_hostName)
  Messages           \* the messages and checkpoint headers that are sent

Cell(w, v) == [w |-> w, v |-> v]
Units(data) == [i \in DOMAIN data |-> Cell(1, <<data[i]>>)]

\* The bytes in cells i to j; by halves, which keeps TLC's recursion shallow.
RECURSIVE BytesFrom(_, _, _)
BytesFrom(buf, i, j) ==
  IF i > j THEN 0
  ELSE IF i = j THEN buf[i].w
  ELSE LET h == (i + j) \div 2 IN BytesFrom(buf, i, h) + BytesFrom(buf, h + 1, j)
Bytes(buf) == BytesFrom(buf, 1, Len(buf))
Gate(present, cells) == IF present THEN cells ELSE <<>>

\* The Rabin fingerprint, taken to tell any two contents apart.
RECURSIVE FingerprintFrom(_, _, _)
FingerprintFrom(buf, i, j) ==
  IF i > j THEN <<>>
  ELSE IF i = j THEN <<buf[i].w>> \o buf[i].v
  ELSE LET h == (i + j) \div 2 IN FingerprintFrom(buf, i, h) \o FingerprintFrom(buf, h + 1, j)
Fingerprint(buf) == FingerprintFrom(buf, 1, Len(buf))

RoundUpToPage(n) == ((n + PageBytes - 1) \div PageBytes) * PageBytes
Padding(n) == IF n = 0 THEN <<>> ELSE <<Cell(n, <<>>)>>

\* The cells that make up the first n bytes; -1 when n falls inside a cell.
CellsOf(buf, n) ==
  LET fits == {k \in 0..Len(buf) : BytesFrom(buf, 1, k) = n}
  IN  IF fits = {} THEN -1 ELSE CHOOSE k \in fits : \A j \in fits : k <= j

Magic == <<15, 13>>

\* A member id is its sequence of digits.  _strtoui64 with base 0 takes a
\* leading zero for octal.
ParseMemberIdAsUInt64(id) ==
  IF id = <<>> THEN 0
  ELSE LET radix == IF id[1] = 0 THEN 8 ELSE 10
       IN  FoldLeft(LAMBDA n, d : n * radix + d, 0, id)

Numeral(n) == IF n < 10 THEN <<n>> ELSE <<n \div 10, n % 10>>

\* MemberId::Compare: by length, then digit by digit.
IdLess(a, b) ==
  \/ Len(a) < Len(b)
  \/ /\ Len(a) = Len(b)
     /\ \E i \in DOMAIN a : a[i] < b[i] /\ \A j \in 1..(i - 1) : a[j] = b[j]

WireBallotLess(aid, amember, bid, bmember) ==
  aid < bid \/ (aid = bid /\ IdLess(amember, bmember))

MessageIds == [Vote |-> 1, Base |-> 2, Prepare |-> 3, PrepareAccepted |-> 4,
               StatusResponse |-> 7, Decision |-> 10, Join |-> 12, Bootstrap |-> 14]
KindOf(id) ==
  IF \E k \in DOMAIN MessageIds : MessageIds[k] = id
  THEN CHOOSE k \in DOMAIN MessageIds : MessageIds[k] = id ELSE "None"

-----------------------------------------------------------------------------
\* A reader: where it is in which buffer, whether every read so far succeeded
\* (the overshoot flag is sticky), the values read, whether a LogAssert failed,
\* and whether a read met cells of another width than it asked for.
ReaderOn(buf) ==
  [buf |-> buf, at |-> 1, ok |-> TRUE, out |-> <<>>, aborted |-> FALSE, skewed |-> FALSE]
Failed(r) == [r EXCEPT !.ok = FALSE]
Check(r, cond) == IF r.ok /\ ~cond THEN Failed(r) ELSE r
LogAssert(r, cond) == IF r.ok /\ ~cond THEN [r EXCEPT !.ok = FALSE, !.aborted = TRUE] ELSE r
Remaining(r) == BytesFrom(r.buf, r.at, Len(r.buf))
LastRead(r) == r.out[Len(r.out)]
Num(r) == IF r.ok THEN LastRead(r)[1] ELSE 0
Filled(r, v) == IF r.ok THEN [r EXCEPT !.out = Append(@, v)] ELSE r
Reread(r, v) == IF r.ok THEN [r EXCEPT !.out[Len(r.out)] = v] ELSE r
NoCookie(r) == Filled(Filled(r, <<0>>), <<>>)
CheckHeader(r, k, size) == Check(r, r.out[k + 1][1] >= size /\ r.out[k + 3] = Magic)
Truth(v) == IF v[1] # 0 THEN <<1>> ELSE <<0>>

-----------------------------------------------------------------------------
(***************************************************************************)
(* Marshal, UnMarshal and GetMarshalLen of the messages of message.cpp, of *)
(* MemberSet (rsl.cpp) and of CheckpointHeader (legislator.cpp), over the  *)
(* reads and writes of marshal.cpp, for the protocol versions 1 to 6.      *)
(***************************************************************************)

CGet(r, w) ==
  IF ~r.ok \/ Remaining(r) < w THEN Failed(r)
  ELSE IF r.buf[r.at].w # w THEN [r EXCEPT !.ok = FALSE, !.skewed = TRUE]
  ELSE [r EXCEPT !.at = @ + 1, !.out = Append(@, r.buf[r.at].v)]

CReadData(r, n) ==
  IF ~r.ok \/ Remaining(r) < n THEN Failed(r)
  ELSE IF \E i \in r.at..(r.at + n - 1) : r.buf[i].w # 1
       THEN [r EXCEPT !.ok = FALSE, !.skewed = TRUE]
  ELSE [r EXCEPT !.at = @ + n,
                 !.out = Append(@, [i \in 1..n |-> r.buf[r.at + i - 1].v[1]])]

CReadBool(r) == LET a == CGet(r, 1) IN IF a.ok THEN Reread(a, Truth(LastRead(a))) ELSE a

CTestReadRemaining(r) == r.ok /\ Remaining(r) >= 1

IsVersionValid(v) == v \in 1..6

CMemberIdSize(v) == IF v <= 3 THEN 8 ELSE 64
CMemberId(id, v) == IF v <= 3 THEN Cell(8, <<ParseMemberIdAsUInt64(id)>>) ELSE Cell(64, id)
CReadMemberId(r, v) ==
  LET a == CGet(r, CMemberIdSize(v))
  IN  IF v > 3 \/ ~a.ok THEN a
      ELSE Reread(a, IF Num(a) = 0 THEN <<>> ELSE Numeral(Num(a)))

CBallotSize(v) == 4 + CMemberIdSize(v)
CBallot(b, v) == <<Cell(4, <<b.id>>), CMemberId(b.member, v)>>
CReadBallot(r, v) == CReadMemberId(CGet(r, 4), v)

CCookie(c) == <<Cell(4, <<Len(c)>>)>> \o Units(c)
CCookieLen(c) == Len(c) + 4
CReadCookie(r) == LET a == CGet(r, 4) IN CReadData(a, Num(a))

-----------------------------------------------------------------------------
\* Message: the header every message starts with.
CBaseSize(v) ==
  2 + 4 + 8 + 4 + 2 + CMemberIdSize(v) + 8 + CBallotSize(v)
    + (IF v >= 3 THEN 4 ELSE 0) + (IF v >= 6 THEN 8 ELSE 0)

CMessage(m, len) ==
  <<Cell(2, <<m.version>>), Cell(4, <<len>>), Cell(8, m.checksum), Cell(4, Magic),
    Cell(2, <<m.msgId>>), CMemberId(m.member, m.version), Cell(8, <<m.decree>>)>>
  \o Gate(m.version >= 3, <<Cell(4, <<m.conf>>)>>)
  \o CBallot(m.ballot, m.version)
  \o Gate(m.version >= 6, <<Cell(8, <<m.payload>>)>>)

\* Message::UnMarshal.  The eleven values it leaves in the reader are version,
\* length, checksum, magic, id, member, decree, configuration, ballot and payload.
CReadSince(r, v, since, w, default) ==
  IF v >= since THEN CGet(r, w) ELSE Filled(r, <<default>>)
CReadFields(r, v) ==
  LET d == CGet(CReadMemberId(FoldLeft(CGet, r, <<4, 8, 4, 2>>), v), 8)
  IN  CReadSince(CReadBallot(CReadSince(d, v, 3, 4, 1), v), v, 6, 8, 0)
CReadVersioned(a, v) ==
  LET k == Len(a.out)
  IN  IF ~a.ok \/ ~IsVersionValid(v) THEN Failed(a)
      ELSE CheckHeader(CReadFields(a, v), k, CBaseSize(v))
CReadMessage(r) == LET a == CGet(r, 2) IN CReadVersioned(a, Num(a))

\* CalculateChecksum patches the checksum over everything that follows it.
CChecksummed(buf) == [buf EXCEPT ![3].v = Fingerprint(SubSeq(buf, 4, Len(buf)))]
CVerifyChecksum(buf) == buf[3].v = Fingerprint(SubSeq(buf, 4, Len(buf)))

-----------------------------------------------------------------------------
\* MemberSet.
CNode(n, v) ==
  <<CMemberId(n.member, v), Cell(4, <<n.ip>>), Cell(2, <<n.port>>),
    Cell(2, <<IF v > 3 THEN n.learn ELSE n.app>>), Cell(2, <<Len(n.host)>>)>>
  \o Units(n.host)
CMemberSet(s, v) ==
  <<Cell(2, <<Len(s.nodes)>>)>> \o FlattenSeq([i \in DOMAIN s.nodes |-> CNode(s.nodes[i], v)])
  \o <<Cell(4, <<Len(s.cookie)>>)>> \o Units(s.cookie)
CMemberSetLen(s, v) ==
  (CMemberIdSize(v) + 4 + 2 + 2 + 2) * Len(s.nodes) + 6 + Len(s.cookie)
    + FoldLeft(LAMBDA n, node : n + Len(node.host), 0, s.nodes)

CReadPort(r, v) == IF v > 3 THEN Filled(CGet(r, 2), <<0>>) ELSE CGet(Filled(r, <<0>>), 2)
CReadHost(r) == CReadData(LogAssert(r, Num(r) < HostRoom), Num(r))
CReadNode(r, v) ==
  CReadHost(CGet(CReadPort(FoldLeft(CGet, CReadMemberId(r, v), <<4, 2>>), v), 2))
CReadNodes(r, v) == FoldLeft(LAMBDA s, i : CReadNode(s, v), r, [i \in 1..Num(r) |-> i])
CReadSetCookie(r) == CReadData(Check(r, Num(r) <= MaxSetCookie), Num(r))
CReadMemberSet(r, v) == CReadSetCookie(CGet(CReadNodes(CGet(r, 2), v), 4))

-----------------------------------------------------------------------------
\* Vote: Init lays down what follows the header, AddRequest the requests.
CVoteBody(m) ==
  Gate(m.version >= 2, CCookie(m.cookie))
  \o Gate(m.version >= 3, <<Cell(1, <<IF m.reconf THEN 1 ELSE 0>>)>>
                          \o Gate(m.reconf, CMemberSet(m.set, m.version)))
  \o Gate(m.version >= 5, <<Cell(1, <<IF m.relinquish THEN 1 ELSE 0>>)>>)
  \o FlattenSeq([i \in DOMAIN m.requests |->
                   <<Cell(4, <<Len(m.requests[i])>>)>> \o Units(m.requests[i])])
CVoteLen(m) == CBaseSize(m.version) + Bytes(CVoteBody(m))
CVote(m) == CMessage(m, CVoteLen(m)) \o CVoteBody(m)

CReadRequest(r) == CReadData(Check(r, Num(r) # 0), Num(r))
RECURSIVE CReadRequests(_, _)
CReadRequests(r, reconf) ==
  IF ~CTestReadRemaining(r) THEN r
  ELSE CReadRequests(CReadRequest(CGet(LogAssert(r, ~reconf), 4)), reconf)

\* What follows the header: the cookie, the reconfiguration flag and the set, the
\* relinquish flag, the requests.
CReadFlag(r, v, since) == IF v >= since THEN CReadBool(r) ELSE Filled(r, <<0>>)
CReadVoteTail(r, v, reconf) ==
  CReadRequests(CReadFlag(IF reconf THEN CReadMemberSet(r, v) ELSE r, v, 5), reconf)
CReadVoteFields(r, v) ==
  LET b == CReadFlag(IF v >= 2 THEN CReadCookie(r) ELSE NoCookie(r), v, 3)
  IN  CReadVoteTail(b, v, Num(b) # 0)

\* A defect: the fields are read from the caller's buffer, not from the
\* m_unMarshalLen bytes copied out of it.
CReadVoteFromUnscoped(r, h, k) ==
  LET len == h.out[k + 2][1]
  IN  IF ~h.ok \/ h.out[k + 5] # <<1>> THEN Failed(h)
      ELSE IF Bytes(SubSeq(r.buf, r.at, Len(r.buf))) < len THEN Failed(h)
      ELSE CReadVoteFields(h, h.out[k + 1][1])

\* Vote::UnMarshal, with the header h read: it copies m_unMarshalLen bytes out of
\* the caller's buffer and parses the copy.
CReadVoteFrom(r, h, k) ==
  LET rest == SubSeq(r.buf, r.at, Len(r.buf))
      len == h.out[k + 2][1]
      cut == CellsOf(rest, len)
      own == [h EXCEPT !.buf = SubSeq(r.buf, 1, r.at + cut - 1)]
  IN  IF ~h.ok \/ h.out[k + 5] # <<1>> THEN Failed(h)
      ELSE IF Bytes(rest) < len THEN Failed(h)
      ELSE IF cut < 0 THEN [h EXCEPT !.ok = FALSE, !.skewed = TRUE]
      ELSE [CReadVoteFields(own, h.out[k + 1][1]) EXCEPT !.buf = r.buf]
CReadVote(r) == CReadVoteFrom(r, CReadMessage(r), Len(r.out))

-----------------------------------------------------------------------------
\* The other messages; h is the reader behind the header.
CJoinLen(m) == CBaseSize(m.version) + 2 + 8 + 8 + 8
CJoin(m) ==
  CMessage(m, CJoinLen(m))
  \o <<Cell(2, <<m.nums[1]>>), Cell(8, <<m.nums[2]>>), Cell(8, <<m.nums[3]>>), Cell(8, <<m.nums[4]>>)>>
CReadJoin(h) == FoldLeft(CGet, h, <<2, 8, 8, 8>>)

CPrepareLen(m) == (IF m.version >= 2 THEN CCookieLen(m.cookie) ELSE 0) + CBaseSize(m.version)
CPrepare(m) == CMessage(m, CPrepareLen(m)) \o Gate(m.version >= 2, CCookie(m.cookie))
CReadPrepare(h) == IF h.ok /\ h.out[1][1] >= 2 THEN CReadCookie(h) ELSE NoCookie(h)

CPrepareAcceptedLen(m) == CVoteLen(m.vote[1]) + CBaseSize(m.version)
CPrepareAccepted(m) == CMessage(m, CPrepareAcceptedLen(m)) \o CVote(m.vote[1])
CReadPrepareAccepted(h) == IF h.ok THEN CReadVote(h) ELSE h

CStatusResponseLen(m) ==
  8 + CBallotSize(m.version) + 8 + 8 + 8 + 8 + CBallotSize(m.version) + 4 + CBaseSize(m.version)
CStatusResponse(m) ==
  CMessage(m, CStatusResponseLen(m))
  \o <<Cell(8, <<m.nums[1]>>)>> \o CBallot(m.ballots[1], m.version)
  \o [i \in 1..4 |-> Cell(8, <<m.nums[i + 1]>>)]
  \o CBallot(m.ballots[2], m.version) \o <<Cell(4, <<m.nums[6]>>)>>
CReadStatusResponse(h) ==
  LET v == h.out[1][1]
      q == FoldLeft(CGet, CReadBallot(CGet(h, 8), v), <<8, 8, 8, 8>>)
  IN  IF h.ok THEN CGet(CReadBallot(q, v), 4) ELSE h

CBootstrapLen(m) == CBaseSize(m.version) + CMemberSetLen(m.set, m.version)
CBootstrap(m) == CMessage(m, CBootstrapLen(m)) \o CMemberSet(m.set, m.version)
CReadBootstrap(h) == IF h.ok THEN CReadMemberSet(h, h.out[1][1]) ELSE h

-----------------------------------------------------------------------------
\* CheckpointHeader: below version 3 the file is just the next vote.  The vote
\* goes in as GetBuffers returns it, rounded up to a page and checksummed.
CConfigurationLen(s, v) == 4 + 8 + CMemberSetLen(s, v)
CConfiguration(m) ==
  <<Cell(4, <<m.conf>>), Cell(8, <<m.nums[1]>>)>> \o CMemberSet(m.set, m.version)
CReadConfiguration(r, v) == CReadMemberSet(FoldLeft(CGet, r, <<4, 8>>), v)

CCheckpointLen(m) ==
  RoundUpToPage(RoundUpToPage(CVoteLen(m.vote[1]))
    + (IF m.version >= 3
       THEN 2 + 4 + 8 + CMemberIdSize(m.version) + 8 + CBallotSize(m.version)
            + CConfigurationLen(m.set, m.version)
       ELSE 0)
    + (IF m.version >= 4 THEN 1 + 8 + 4 ELSE 0))

CCheckpoint(m) ==
  LET v == m.version
      vote == CChecksummed(CVote(m.vote[1]))
      head == Gate(v >= 3, <<Cell(2, <<v>>), Cell(4, <<CCheckpointLen(m)>>), Cell(8, m.checksum),
                             CMemberId(m.member, v), Cell(8, <<m.decree>>)>>
                           \o CBallot(m.ballot, v) \o CConfiguration(m))
              \o Gate(v >= 4, <<Cell(1, <<m.nums[2]>>), Cell(8, <<m.nums[3]>>), Cell(4, <<m.nums[4]>>)>>)
      all == head \o vote \o Padding(RoundUpToPage(Bytes(vote)) - Bytes(vote))
  IN  all \o Padding(CCheckpointLen(m) - Bytes(all))

\* CheckpointHeader::UnMarshal of the marshaled header.
CReadBlocks(r, v) == IF v >= 4 THEN FoldLeft(CGet, CReadBool(r), <<8, 4>>) ELSE r
CReadCheckpointHead(a, v) ==
  LET c == CGet(CReadMemberId(FoldLeft(CGet, a, <<4, 8>>), v), 8)
  IN  CReadBlocks(CReadConfiguration(CReadBallot(c, v), v), v)
CCheckNextVote(n, v, k, rest) ==
  LET vote == SubSeq(rest, 1, CellsOf(rest, n.out[k + 2][1]))
  IN  Check(n, /\ CVerifyChecksum(vote)
               /\ v >= 3 => ~WireBallotLess(n.out[6][1], n.out[7], n.out[k + 9][1], n.out[k + 10]))
CReadNextVote(head, v) ==
  CCheckNextVote(IF head.ok THEN CReadVote(head) ELSE head, v, Len(head.out),
                 SubSeq(head.buf, head.at, Len(head.buf)))
CReadCheckpointFrom(r, a, v) ==
  IF ~a.ok \/ ~IsVersionValid(v) THEN Failed(a)
  ELSE CReadNextVote(IF v < 3 THEN r ELSE CReadCheckpointHead(a, v), v)
CReadCheckpoint(r) == CReadCheckpointFrom(r, CGet(r, 2), Num(CGet(r, 2)))

\* CheckpointHeader::UnMarshal of a stream: a page, then the rest of what its
\* first page declares.
CReadCheckpointFile(file) ==
  LET len == file[2].v[1]
      cut == CellsOf(file, len)
  IN  IF Bytes(file) < PageBytes \/ ~IsVersionValid(file[1].v[1]) THEN Failed(ReaderOn(file))
      ELSE IF Bytes(file) < RoundUpToPage(len) THEN Failed(ReaderOn(file))
      ELSE IF cut < 0 THEN [Failed(ReaderOn(file)) EXCEPT !.skewed = TRUE]
      ELSE CReadCheckpoint(ReaderOn(SubSeq(file, 1, cut)))

-----------------------------------------------------------------------------
CMarshal(m) ==
  CASE m.kind = "Vote" -> CVote(m)
    [] m.kind = "Join" -> CJoin(m)
    [] m.kind = "Prepare" -> CPrepare(m)
    [] m.kind = "PrepareAccepted" -> CPrepareAccepted(m)
    [] m.kind = "StatusResponse" -> CStatusResponse(m)
    [] m.kind = "Bootstrap" -> CBootstrap(m)
    [] OTHER -> CMessage(m, CBaseSize(m.version))

\* Legislator::UnMarshalMessage.
CReadKind(r, h) ==
  LET kind == KindOf(h.out[5][1])
  IN  IF ~h.ok THEN h
      ELSE CASE kind = "Vote" -> CReadVoteFrom(r, h, 0)
             [] kind = "Join" -> CReadJoin(h)
             [] kind = "Prepare" -> CReadPrepare(h)
             [] kind = "PrepareAccepted" -> CReadPrepareAccepted(h)
             [] kind = "StatusResponse" -> CReadStatusResponse(h)
             [] kind = "Bootstrap" -> CReadBootstrap(h)
             [] kind \in {"Base", "Decision"} -> h
             [] OTHER -> Failed(h)
CUnMarshalMessage(buf) == CReadKind(ReaderOn(buf), CReadMessage(ReaderOn(buf)))

VerifyZeroStream(tail) == tail # "data"

\* Legislator::ReadNextMessage on a log whose next record is "buf", rounded up
\* to a page, and is followed by nothing, by zeros or by other data: a message,
\* the end of the log, or an error.
ReadNextFrom(buf, h, tail, restore) ==
  LET len == h.out[2][1]
      cut == CellsOf(buf, len)
      zeros == restore /\ VerifyZeroStream(tail)
  IN  IF ~h.ok THEN "error"
      ELSE IF KindOf(h.out[5][1]) \notin {"Vote", "Prepare", "Decision"} THEN "error"
      ELSE IF RoundUpToPage(len) > RoundUpToPage(Bytes(buf)) /\ tail = "none"
           THEN IF restore THEN "end" ELSE "error"
      ELSE IF cut < 0 \/ ~CVerifyChecksum(SubSeq(buf, 1, cut))
           THEN IF zeros THEN "end" ELSE "error"
      ELSE IF CUnMarshalMessage(SubSeq(buf, 1, cut)).ok THEN "message" ELSE "error"
ReadNextMessage(buf, tail, restore) ==
  ReadNextFrom(buf, CReadMessage(ReaderOn(buf)), tail, restore)

-----------------------------------------------------------------------------
(***************************************************************************)
(* The same messages as the crate rsl-wire and the checkpoint header as    *)
(* rsl-storage marshal and parse them.                                     *)
(***************************************************************************)

RTake(r, w) ==
  IF ~r.ok \/ Remaining(r) < w THEN Failed(r)
  ELSE IF r.buf[r.at].w # w THEN [r EXCEPT !.ok = FALSE, !.skewed = TRUE]
  ELSE [r EXCEPT !.at = @ + 1, !.out = Append(@, r.buf[r.at].v)]

RReadData(r, n) ==
  IF ~r.ok \/ Remaining(r) < n THEN Failed(r)
  ELSE IF \E i \in r.at..(r.at + n - 1) : r.buf[i].w # 1
       THEN [r EXCEPT !.ok = FALSE, !.skewed = TRUE]
  ELSE [r EXCEPT !.at = @ + n,
                 !.out = Append(@, [i \in 1..n |-> r.buf[r.at + i - 1].v[1]])]

RReadBool(r) == LET a == RTake(r, 1) IN IF a.ok THEN Reread(a, Truth(LastRead(a))) ELSE a

\* ProtocolVersion.
FromWire(v) == v \in 1..6
MemberIdIsFixed64(v) == v > 3
HasConfigurationNumber(v) == v >= 3
HasPayload(v) == v >= 6
HasPrimaryCookie(v) == v >= 2
HasReconfiguration(v) == v >= 3
HasRelinquishPrimary(v) == v >= 5
HasCheckpointHeader(v) == v >= 3
HasCheckpointBlocks(v) == v >= 4
MemberSetUsesLearnPort(v) == v > 3

RMemberIdSize(v) == IF MemberIdIsFixed64(v) THEN 64 ELSE 8
RMemberId(id, v) ==
  IF MemberIdIsFixed64(v) THEN Cell(64, id) ELSE Cell(8, <<ParseMemberIdAsUInt64(id)>>)
RReadMemberId(r, v) ==
  LET a == RTake(r, RMemberIdSize(v))
  IN  IF MemberIdIsFixed64(v) \/ ~a.ok THEN a
      ELSE Reread(a, IF Num(a) = 0 THEN <<>> ELSE Numeral(Num(a)))

RBallotSize(v) == 4 + RMemberIdSize(v)
RBallot(b, v) == <<Cell(4, <<b.id>>), RMemberId(b.member, v)>>
RReadBallot(r, v) == RReadMemberId(RTake(r, 4), v)

RCookie(c) == <<Cell(4, <<Len(c)>>)>> \o Units(c)
RReadCookie(r) == LET a == RTake(r, 4) IN RReadData(a, Num(a))

-----------------------------------------------------------------------------
\* Header.
RBaseSize(v) ==
  2 + 4 + 8 + 4 + 2 + RMemberIdSize(v) + 8 + RBallotSize(v)
    + (IF HasConfigurationNumber(v) THEN 4 ELSE 0) + (IF HasPayload(v) THEN 8 ELSE 0)

RHeader(m, len) ==
  <<Cell(2, <<m.version>>), Cell(4, <<len>>), Cell(8, m.checksum), Cell(4, Magic),
    Cell(2, <<m.msgId>>), RMemberId(m.member, m.version), Cell(8, <<m.decree>>)>>
  \o Gate(HasConfigurationNumber(m.version), <<Cell(4, <<m.conf>>)>>)
  \o RBallot(m.ballot, m.version)
  \o Gate(HasPayload(m.version), <<Cell(8, <<m.payload>>)>>)

RReadIf(has, r, w, default) == IF has THEN RTake(r, w) ELSE Filled(r, <<default>>)
RReadFields(r, v) ==
  LET d == RTake(RReadMemberId(FoldLeft(RTake, r, <<4, 8, 4, 2>>), v), 8)
  IN  RReadIf(HasPayload(v), RReadBallot(RReadIf(HasConfigurationNumber(v), d, 4, 1), v), 8, 0)
RReadVersioned(a, v) ==
  LET k == Len(a.out)
  IN  IF ~a.ok \/ ~FromWire(v) THEN Failed(a)
      ELSE CheckHeader(RReadFields(a, v), k, RBaseSize(v))
RReadHeader(r) == LET a == RTake(r, 2) IN RReadVersioned(a, Num(a))

RFinalize(buf) == [buf EXCEPT ![3].v = Fingerprint(SubSeq(buf, 4, Len(buf)))]

RVerifyChecksum(buf) ==
  /\ Bytes(buf) >= 14
  /\ buf[2].v = <<Bytes(buf)>>
  /\ buf[3].v = Fingerprint(SubSeq(buf, 4, Len(buf)))

-----------------------------------------------------------------------------
\* MemberSet.
RNode(n, v) ==
  <<RMemberId(n.member, v), Cell(4, <<n.ip>>), Cell(2, <<n.port>>),
    Cell(2, <<IF MemberSetUsesLearnPort(v) THEN n.learn ELSE n.app>>), Cell(2, <<Len(n.host)>>)>>
  \o Units(n.host)
RMemberSet(s, v) ==
  <<Cell(2, <<Len(s.nodes)>>)>> \o FlattenSeq([i \in DOMAIN s.nodes |-> RNode(s.nodes[i], v)])
  \o <<Cell(4, <<Len(s.cookie)>>)>> \o Units(s.cookie)
RMemberSetLen(s, v) ==
  (RMemberIdSize(v) + 4 + 2 + 2 + 2) * Len(s.nodes) + 6 + Len(s.cookie)
    + FoldLeft(LAMBDA n, node : n + Len(node.host), 0, s.nodes)

RReadPort(r, v) ==
  IF MemberSetUsesLearnPort(v) THEN Filled(RTake(r, 2), <<0>>) ELSE RTake(Filled(r, <<0>>), 2)
RReadNode(r, v) ==
  LET c == RTake(RReadPort(FoldLeft(RTake, RReadMemberId(r, v), <<4, 2>>), v), 2)
  IN  RReadData(c, Num(c))
RReadNodes(r, v) == FoldLeft(LAMBDA s, i : RReadNode(s, v), r, [i \in 1..Num(r) |-> i])
RReadSetCookie(r) == RReadData(Check(r, Num(r) <= MaxSetCookie), Num(r))
RReadMemberSet(r, v) == RReadSetCookie(RTake(RReadNodes(RTake(r, 2), v), 4))

-----------------------------------------------------------------------------
\* Vote.
RVoteLen(m) ==
  RBaseSize(m.version)
    + (IF HasPrimaryCookie(m.version) THEN 4 + Len(m.cookie) ELSE 0)
    + (IF HasReconfiguration(m.version)
       THEN 1 + (IF m.reconf THEN RMemberSetLen(m.set, m.version) ELSE 0) ELSE 0)
    + (IF HasRelinquishPrimary(m.version) THEN 1 ELSE 0)
    + FoldLeft(LAMBDA n, q : n + 4 + Len(q), 0, m.requests)

\* write_to refuses a reconfiguration vote that carries requests.
RVoteWritable(m) == ~(m.reconf /\ HasReconfiguration(m.version) /\ m.requests # <<>>)
RVote(m) ==
  RHeader(m, RVoteLen(m))
  \o Gate(HasPrimaryCookie(m.version), RCookie(m.cookie))
  \o Gate(HasReconfiguration(m.version),
          <<Cell(1, <<IF m.reconf THEN 1 ELSE 0>>)>> \o Gate(m.reconf, RMemberSet(m.set, m.version)))
  \o Gate(HasRelinquishPrimary(m.version), <<Cell(1, <<IF m.relinquish THEN 1 ELSE 0>>)>>)
  \o FlattenSeq([i \in DOMAIN m.requests |->
                   <<Cell(4, <<Len(m.requests[i])>>)>> \o Units(m.requests[i])])

RReadRequest(r) == RReadData(Check(r, Num(r) # 0), Num(r))
RECURSIVE RReadRequests(_)
RReadRequests(r) ==
  IF ~r.ok \/ r.at > Len(r.buf) THEN r ELSE RReadRequests(RReadRequest(RTake(r, 4)))

RReadFlag(has, r) == IF has THEN RReadBool(r) ELSE Filled(r, <<0>>)
RReadSet(r, v) == IF Num(r) # 0 THEN RReadMemberSet(r, v) ELSE r
RReadVoteFields(r, v) ==
  LET c == IF HasPrimaryCookie(v) THEN RReadCookie(r) ELSE NoCookie(r)
  IN  RReadRequests(RReadFlag(HasRelinquishPrimary(v),
                              RReadSet(RReadFlag(HasReconfiguration(v), c), v)))

\* Vote::unmarshal, with the header h read: it parses the first un_marshal_len
\* bytes of the buffer it gets.
RReadVoteFrom(r, h, k) ==
  LET rest == SubSeq(r.buf, r.at, Len(r.buf))
      cut == CellsOf(rest, h.out[k + 2][1])
      own == [h EXCEPT !.buf = SubSeq(r.buf, 1, r.at + cut - 1)]
  IN  IF ~h.ok \/ h.out[k + 5] # <<1>> \/ h.out[k + 2][1] > Bytes(rest) THEN Failed(h)
      ELSE IF cut < 0 THEN [h EXCEPT !.ok = FALSE, !.skewed = TRUE]
      ELSE [RReadVoteFields(own, h.out[k + 1][1]) EXCEPT !.buf = r.buf]
RReadVote(r) == RReadVoteFrom(r, RReadHeader(r), Len(r.out))

-----------------------------------------------------------------------------
\* The other messages; h is the reader behind the header.
RJoinLen(m) == RBaseSize(m.version) + 2 + 8 + 8 + 8
RJoin(m) ==
  RHeader(m, RJoinLen(m))
  \o <<Cell(2, <<m.nums[1]>>), Cell(8, <<m.nums[2]>>), Cell(8, <<m.nums[3]>>), Cell(8, <<m.nums[4]>>)>>
RReadJoin(h) == FoldLeft(RTake, h, <<2, 8, 8, 8>>)

RPrepareLen(m) == (IF HasPrimaryCookie(m.version) THEN 4 + Len(m.cookie) ELSE 0) + RBaseSize(m.version)
RPrepare(m) == RHeader(m, RPrepareLen(m)) \o Gate(HasPrimaryCookie(m.version), RCookie(m.cookie))
RReadPrepare(h) ==
  IF h.ok /\ HasPrimaryCookie(h.out[1][1]) THEN RReadCookie(h) ELSE NoCookie(h)

RPrepareAcceptedLen(m) == RVoteLen(m.vote[1]) + RBaseSize(m.version)
RPrepareAccepted(m) == RHeader(m, RPrepareAcceptedLen(m)) \o RVote(m.vote[1])
RReadPrepareAccepted(h) == IF h.ok THEN RReadVote(h) ELSE h

RStatusResponseLen(m) ==
  8 + RBallotSize(m.version) + 8 + 8 + 8 + 8 + RBallotSize(m.version) + 4 + RBaseSize(m.version)
RStatusResponse(m) ==
  RHeader(m, RStatusResponseLen(m))
  \o <<Cell(8, <<m.nums[1]>>)>> \o RBallot(m.ballots[1], m.version)
  \o [i \in 1..4 |-> Cell(8, <<m.nums[i + 1]>>)]
  \o RBallot(m.ballots[2], m.version) \o <<Cell(4, <<m.nums[6]>>)>>
RReadStatusResponse(h) ==
  LET v == h.out[1][1]
      q == FoldLeft(RTake, RReadBallot(RTake(h, 8), v), <<8, 8, 8, 8>>)
  IN  IF h.ok THEN RTake(RReadBallot(q, v), 4) ELSE h

RBootstrapLen(m) == RBaseSize(m.version) + RMemberSetLen(m.set, m.version)
RBootstrap(m) == RHeader(m, RBootstrapLen(m)) \o RMemberSet(m.set, m.version)
RReadBootstrap(h) == IF h.ok THEN RReadMemberSet(h, h.out[1][1]) ELSE h

-----------------------------------------------------------------------------
\* CheckpointHeader of rsl-storage.
RConfigurationLen(s, v) == 4 + 8 + RMemberSetLen(s, v)
RConfiguration(m) ==
  <<Cell(4, <<m.conf>>), Cell(8, <<m.nums[1]>>)>> \o RMemberSet(m.set, m.version)
RReadConfiguration(r, v) == RReadMemberSet(FoldLeft(RTake, r, <<4, 8>>), v)

RNextVoteOffset(m) ==
  (IF HasCheckpointHeader(m.version)
   THEN 2 + 4 + 8 + RMemberIdSize(m.version) + 8 + RBallotSize(m.version)
        + RConfigurationLen(m.set, m.version)
   ELSE 0)
  + (IF HasCheckpointBlocks(m.version) THEN 1 + 8 + 4 ELSE 0)
RCheckpointLen(m) == RoundUpToPage(RNextVoteOffset(m) + RoundUpToPage(RVoteLen(m.vote[1])))

RCheckpoint(m) ==
  LET v == m.version
      vote == RFinalize(RVote(m.vote[1]))
      head == Gate(HasCheckpointHeader(v),
                   <<Cell(2, <<v>>), Cell(4, <<RCheckpointLen(m)>>), Cell(8, m.checksum),
                     RMemberId(m.member, v), Cell(8, <<m.decree>>)>>
                   \o RBallot(m.ballot, v) \o RConfiguration(m))
              \o Gate(HasCheckpointBlocks(v),
                      <<Cell(1, <<m.nums[2]>>), Cell(8, <<m.nums[3]>>), Cell(4, <<m.nums[4]>>)>>)
      all == head \o vote \o Padding(RoundUpToPage(Bytes(vote)) - Bytes(vote))
  IN  all \o Padding(RCheckpointLen(m) - Bytes(all))

RReadBlocks(r, v) ==
  IF HasCheckpointBlocks(v) THEN FoldLeft(RTake, RReadBool(r), <<8, 4>>) ELSE r
RReadCheckpointHead(a, v) ==
  LET c == RTake(RReadMemberId(FoldLeft(RTake, a, <<4, 8>>), v), 8)
  IN  RReadBlocks(RReadConfiguration(RReadBallot(c, v), v), v)
RCheckNextVote(n, v, k, rest) ==
  LET vote == SubSeq(rest, 1, CellsOf(rest, n.out[k + 2][1]))
  IN  Check(n, /\ RVerifyChecksum(vote)
               /\ HasCheckpointHeader(v) =>
                    ~WireBallotLess(n.out[6][1], n.out[7], n.out[k + 9][1], n.out[k + 10]))
RReadNextVote(head, v) ==
  RCheckNextVote(IF head.ok THEN RReadVote(head) ELSE head, v, Len(head.out),
                 SubSeq(head.buf, head.at, Len(head.buf)))
RReadCheckpointFrom(r, a, v) ==
  IF ~a.ok \/ ~FromWire(v) THEN Failed(a)
  ELSE RReadNextVote(IF HasCheckpointHeader(v) THEN RReadCheckpointHead(a, v) ELSE r, v)
RReadCheckpoint(r) == RReadCheckpointFrom(r, RTake(r, 2), Num(RTake(r, 2)))

\* read_header.
RReadCheckpointFile(file) ==
  LET len == file[2].v[1]
      cut == CellsOf(file, len)
  IN  IF Bytes(file) < PageBytes \/ ~FromWire(file[1].v[1]) THEN Failed(ReaderOn(file))
      ELSE IF Bytes(file) < RoundUpToPage(len) THEN Failed(ReaderOn(file))
      ELSE IF cut < 0 THEN [Failed(ReaderOn(file)) EXCEPT !.skewed = TRUE]
      ELSE RReadCheckpoint(ReaderOn(SubSeq(file, 1, cut)))

-----------------------------------------------------------------------------
\* Msg::marshal_with_checksum, and Msg::unmarshal of the kind the header names.
RMarshal(m) ==
  CASE m.kind = "Vote" -> RVote(m)
    [] m.kind = "Join" -> RJoin(m)
    [] m.kind = "Prepare" -> RPrepare(m)
    [] m.kind = "PrepareAccepted" -> RPrepareAccepted(m)
    [] m.kind = "StatusResponse" -> RStatusResponse(m)
    [] m.kind = "Bootstrap" -> RBootstrap(m)
    [] OTHER -> RHeader(m, RBaseSize(m.version))

RReadKind(r, h) ==
  LET kind == KindOf(h.out[5][1])
  IN  IF ~h.ok THEN h
      ELSE CASE kind = "Vote" -> RReadVoteFrom(r, h, 0)
             [] kind = "Join" -> RReadJoin(h)
             [] kind = "Prepare" -> RReadPrepare(h)
             [] kind = "PrepareAccepted" -> RReadPrepareAccepted(h)
             [] kind = "StatusResponse" -> RReadStatusResponse(h)
             [] kind = "Bootstrap" -> RReadBootstrap(h)
             [] kind \in {"Base", "Decision"} -> h
             [] OTHER -> Failed(h)
RUnmarshal(buf) == RReadKind(ReaderOn(buf), RReadHeader(ReaderOn(buf)))

-----------------------------------------------------------------------------
(* A message is sent and read. *)

VARIABLES
  emsg,      \* the message
  ebuf,      \* its marshaled form, as it is now
  ehow,      \* what happened to the buffer
  egot       \* what the C++ and the Rust reader make of it

evars == <<emsg, ebuf, ehow, egot>>

Undamaged == [kind |-> "none", at |-> 0]
Result(r) == [ok |-> r.ok, aborted |-> r.aborted, skewed |-> r.skewed, out |-> r.out]

InitWireExchange ==
  /\ emsg \in Messages
  /\ ebuf = <<>>
  /\ ehow = Undamaged
  /\ egot = <<>>

MarshalCpp ==
  /\ ebuf = <<>>
  /\ ebuf' = IF emsg.kind = "Checkpoint" THEN CCheckpoint(emsg) ELSE CChecksummed(CMarshal(emsg))
  /\ UNCHANGED <<emsg, ehow, egot>>

MarshalRust ==
  /\ ebuf = <<>>
  /\ emsg.kind = "Vote" => RVoteWritable(emsg)
  /\ ebuf' = IF emsg.kind = "Checkpoint" THEN RCheckpoint(emsg) ELSE RFinalize(RMarshal(emsg))
  /\ UNCHANGED <<emsg, ehow, egot>>

\* The buffer is cut short, is followed by a byte that does not belong to it,
\* or has one value altered.
Altered(c) == [c EXCEPT !.v = IF @ = <<>> THEN <<1>> ELSE [@ EXCEPT ![1] = @ + 1]]
Damage ==
  /\ ebuf # <<>>
  /\ ehow = Undamaged
  /\ egot = <<>>
  /\ \/ \E k \in 2..(Len(ebuf) - 1) :
          /\ ebuf' = SubSeq(ebuf, 1, k)
          /\ ehow' = [kind |-> "cut", at |-> k]
     \/ /\ ebuf' = Append(ebuf, Cell(1, <<1>>))
        /\ ehow' = [kind |-> "tail", at |-> Len(ebuf)]
     \/ \E k \in DOMAIN ebuf :
          /\ ebuf' = [ebuf EXCEPT ![k] = Altered(@)]
          /\ ehow' = [kind |-> "altered", at |-> k]
  /\ UNCHANGED <<emsg, egot>>

UnMarshal ==
  /\ ebuf # <<>>
  /\ egot = <<>>
  /\ egot' = IF emsg.kind = "Checkpoint"
             THEN <<Result(CReadCheckpointFile(ebuf)), Result(RReadCheckpointFile(ebuf))>>
             ELSE <<Result(CUnMarshalMessage(ebuf)), Result(RUnmarshal(ebuf))>>
  /\ UNCHANGED <<emsg, ebuf, ehow>>

NextWireExchange == MarshalCpp \/ MarshalRust \/ Damage \/ UnMarshal

SpecWireExchange == InitWireExchange /\ [][NextWireExchange]_evars

-----------------------------------------------------------------------------
\* What a message says, field by field, and from which protocol version on a
\* field is carried at all; a field that is not carried reads as its default.
Since == [conf |-> 3, payload |-> 6, cookie |-> 2, reconf |-> 3, relinquish |-> 5, learn |-> 4, blocks |-> 4]
Carries(m, field) == m.version >= Since[field]
Told(m, field, value, default) == IF Carries(m, field) THEN value ELSE default

HeaderTells(m, buf) ==
  <<<<m.version>>, buf[2].v, buf[3].v, Magic, <<m.msgId>>, m.member, <<m.decree>>,
    Told(m, "conf", <<m.conf>>, <<1>>), <<m.ballot.id>>, m.ballot.member,
    Told(m, "payload", <<m.payload>>, <<0>>)>>
CookieTells(m) ==
  LET c == Told(m, "cookie", m.cookie, <<>>) IN <<<<Len(c)>>, c>>
NodeTells(n, m) ==
  <<n.member, <<n.ip>>, <<n.port>>, Told(m, "learn", <<n.learn>>, <<0>>),
    IF Carries(m, "learn") THEN <<0>> ELSE <<n.app>>, <<Len(n.host)>>, n.host>>
SetTells(m) ==
  <<<<Len(m.set.nodes)>>>> \o FlattenSeq([i \in DOMAIN m.set.nodes |-> NodeTells(m.set.nodes[i], m)])
  \o <<<<Len(m.set.cookie)>>, m.set.cookie>>
VoteTells(m, buf) ==
  HeaderTells(m, buf) \o CookieTells(m)
  \o (IF Carries(m, "reconf") /\ m.reconf THEN <<<<1>>>> \o SetTells(m) ELSE <<<<0>>>>)
  \o <<IF Carries(m, "relinquish") /\ m.relinquish THEN <<1>> ELSE <<0>>>>
  \o FlattenSeq([i \in DOMAIN m.requests |-> <<<<Len(m.requests[i])>>, m.requests[i]>>])
BallotTells(b) == <<<<b.id>>, b.member>>

\* The buffer from the embedded vote on.
VotePart(m, buf) ==
  LET at == CHOOSE i \in 2..(Len(buf) - 4) :
              /\ buf[i + 3].v = Magic
              /\ buf[i + 3].w = 4
              /\ buf[i].v = <<m.vote[1].version>>
              /\ \A j \in 2..(i - 1) : ~(buf[j + 3].v = Magic /\ buf[j + 3].w = 4)
  IN  SubSeq(buf, at, Len(buf))

Tells(m, buf) ==
  CASE m.kind = "Vote" -> VoteTells(m, buf)
    [] m.kind = "Prepare" -> HeaderTells(m, buf) \o CookieTells(m)
    [] m.kind = "Join" -> HeaderTells(m, buf) \o [i \in 1..4 |-> <<m.nums[i]>>]
    [] m.kind = "PrepareAccepted" ->
         HeaderTells(m, buf) \o VoteTells(m.vote[1], VotePart(m, buf))
    [] m.kind = "StatusResponse" ->
         HeaderTells(m, buf) \o <<<<m.nums[1]>>>> \o BallotTells(m.ballots[1])
         \o [i \in 1..4 |-> <<m.nums[i + 1]>>] \o BallotTells(m.ballots[2]) \o <<<<m.nums[6]>>>>
    [] m.kind = "Bootstrap" -> HeaderTells(m, buf) \o SetTells(m)
    [] m.kind = "Checkpoint" ->
         IF m.version < 3 THEN VoteTells(m.vote[1], buf)
         ELSE <<<<m.version>>, buf[2].v, m.checksum, m.member, <<m.decree>>>> \o BallotTells(m.ballot)
              \o <<<<m.conf>>, <<m.nums[1]>>>> \o SetTells(m)
              \o (IF Carries(m, "blocks") THEN [i \in 1..3 |-> <<m.nums[i + 1]>>] ELSE <<>>)
              \o VoteTells(m.vote[1], VotePart(m, buf))
    [] OTHER -> HeaderTells(m, buf)

Read == egot # <<>>
Whole == Read /\ ehow = Undamaged

\* An undamaged message is read by either implementation as what was said, down
\* to the fields its protocol version carries, whoever wrote it; the length it
\* declares (GetMarshalLen, marshal_len) is the number of bytes it takes, and its
\* checksum verifies (Marshal, UnMarshal, GetMarshalLen of message.cpp, rsl.cpp and
\* legislator.cpp; rsl-wire; checkpoint.rs).
MessagesRoundTrip ==
  Whole =>
    /\ \A i \in 1..2 : egot[i].ok /\ egot[i].out = Tells(emsg, ebuf)
    /\ emsg.kind # "Checkpoint" =>
         /\ ebuf[2].v = <<Bytes(ebuf)>>
         /\ CVerifyChecksum(ebuf) /\ RVerifyChecksum(ebuf)
    /\ emsg.kind = "Checkpoint" => Bytes(ebuf) % PageBytes = 0

\* Whatever happened to a buffer, both implementations give the same verdict and
\* read the same values, unless a LogAssert of the C++ reader fails (the rsl-wire
\* crate documents that it accepts what the C++ reader aborts on).  A buffer whose
\* fields no longer line up with the reads is left out: what is read then depends
\* on the bytes.
ReadersAgree ==
  Read /\ ~egot[1].skewed /\ ~egot[2].skewed /\ ~egot[1].aborted =>
    egot[1].ok = egot[2].ok /\ (egot[1].ok => egot[1].out = egot[2].out)

\* No damaged record is taken for a message when a log is replayed: an altered
\* value behind the length field, a cut or a tail is caught by verify_checksum,
\* and ReadNextMessage never returns the record.  Version and length are not
\* covered by the checksum.
DamageDetected ==
  Read /\ emsg.kind # "Checkpoint" /\ ehow # Undamaged
       /\ ~(ehow.kind = "altered" /\ ehow.at = 1) =>
    /\ ~RVerifyChecksum(ebuf)
    /\ ehow.kind = "altered" /\ ehow.at > 2 =>
         \A t \in {"none", "zeros", "data"}, restore \in BOOLEAN :
           /\ ReadNextMessage(ebuf, t, restore) # "message"
           /\ ~restore => ReadNextMessage(ebuf, t, restore) = "error"
=============================================================================
