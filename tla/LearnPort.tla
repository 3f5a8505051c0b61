------------------------------ MODULE LearnPort ------------------------------
(***************************************************************************)
(* The learn port: how a lagging replica fetches votes and checkpoints     *)
(* from a peer that keeps logging, switching and deleting files meanwhile. *)
(* Server: FetchServerLoop / HandleFetchRequest / BuildLearnServerState /  *)
(* ServeLearnRequest / SendLearnFile, and rsl-net's learnport::server.     *)
(* Learner: LearnVotes' reading loop, CopyLearnCheckpointFile, and         *)
(* rsl-net's learnport::client.  Either end is "cpp" or "rust".            *)
(*                                                                         *)
(* The unit of data is one 512-byte page.  A log is a sequence of records  *)
(* of one or more pages; the wire is the pages sent and not yet read, and  *)
(* how the stream ends: "open", "fin" on a page boundary, "part" inside a  *)
(* page, "reset" (an error, a timeout, a peer that died).                  *)
(***************************************************************************)
EXTENDS Integers, Sequences, FiniteSets, SequencesExt

CONSTANTS
    LearnPairs,      \* the [server, learner] implementations that may meet
    LearnStart,      \* the records the log starts with
    MaxRecords,      \* records logged in all
    LearnDecrees,    \* no vote above this decree is logged
    LearnBallots,    \* no ballot above this one is used
    RecordLens,      \* lengths of records, in pages
    ServedLogPages,        \* m_maxLogLen: a longer log is followed by a new one
    LearnChunk,      \* pages sent or staged at a time
    BodyPages,       \* pages of a checkpoint after its header page
    KeptLogs,        \* MaxLogs: log files kept on disk (MaxCheckpoints is 1)
    MaxCuts          \* connections that may break

VARIABLES
    lpair,     \* [server, learner] of this behaviour
    lhost,     \* the serving replica: its logs, checkpoint and write in progress
    lwire,     \* the connection
    lserver,   \* the thread (task) serving it
    lwants,    \* the learner: what it asked for and what it has
    lcuts      \* connections broken so far

lvars == <<lpair, lhost, lwire, lserver, lwants, lcuts>>

LOCAL Least2(a, b) == IF a < b THEN a ELSE b
LOCAL Most2(a, b) == IF a > b THEN a ELSE b

-----------------------------------------------------------------------------
\* Pages and files.

PageOf(rec, i) == [of |-> rec, at |-> i]
RecordBytes(rec) == [i \in 1..rec.len |-> PageOf(rec, i)]

\* A vote is [d, b, len]; a logged Prepare has d = 0.
IsVote(rec) == rec.d > 0

\* The checkpoint of a decree: a header page, that carries m_maxBallot, and a body.
CodexOf(d, b) == [d |-> d, b |-> b, len |-> 1 + BodyPages]

\* A log file: the decree it is named after, what is on disk, how much of that
\* m_dataLen counts, and m_decreeOffsets as a sequence of <<decree, offset>>.
NewLog(name) == [name |-> name, pages |-> <<>>, dataLen |-> 0, offs |-> <<>>, gone |-> FALSE]

\* LogFile::MaxDecree and LogFile::HasDecree.
HasOffsets(file) == file.offs # <<>>
MaxDecreeOf(file) == IF HasOffsets(file) THEN Last(file.offs)[1] ELSE 0
FileHasDecree(file, d) == HasOffsets(file) /\ file.offs[1][1] <= d /\ d <= MaxDecreeOf(file)

\* LogFile::GetOffset: where the newest record of the decree starts.
GetOffset(file, d) == file.offs[d - file.offs[1][1] + 1][2]

\* LogFile::AddMessage: a vote for the decree already there replaces its offset.
AddMessageTo(file, rec) ==
    LET kept == IF MaxDecreeOf(file) = rec.d THEN Front(file.offs) ELSE file.offs IN
    [file EXCEPT !.dataLen = @ + rec.len,
                 !.offs = IF IsVote(rec) THEN Append(kept, <<rec.d, file.dataLen>>) ELSE @]

\* The decree and ballot of m_maxAcceptedVote: the last vote logged.
LastLogged(host) == Last(SelectSeq(host.all, IsVote))

\* LogVote opens a new file when the log is long and the decree is new.
Rolled(host, rec) ==
    IF IsVote(rec) /\ rec.d > LastLogged(host).d /\ Last(host.logs).dataLen > ServedLogPages
    THEN [host EXCEPT !.logs = Append(@, NewLog(rec.d))] ELSE host

\* The record is whole on disk and AddMessageToLog has been called.
Added(host, rec) == [host EXCEPT !.logs[Len(host.logs)] = AddMessageTo(@, rec),
                                 !.all = Append(@, rec),
                                 !.ballot = Most2(@, rec.b)]

-----------------------------------------------------------------------------
\* The serving replica's own work, which goes on while it serves.

\* LogVote and LogPrepare up to the write: the vote is the next decree, or a higher
\* ballot of the last one.
StartLogging(rec) ==
    LET last == LastLogged(lhost) IN
    /\ lhost.writing = <<>> /\ Len(lhost.all) < MaxRecords
    /\ IF IsVote(rec) THEN \/ rec.d = last.d + 1 /\ rec.b >= last.b
                           \/ rec.d = last.d /\ rec.b > last.b
                      ELSE rec.b > lhost.ballot
    /\ lhost' = [Rolled(lhost, rec) EXCEPT !.writing = RecordBytes(rec)]
    /\ UNCHANGED <<lpair, lwire, lserver, lwants, lcuts>>

\* LogFile::Write: the pages of the record reach the file one after the other.
WritePage ==
    /\ lhost.writing # <<>>
    /\ LET host == [lhost EXCEPT !.logs[Len(lhost.logs)].pages = Append(@, Head(lhost.writing)),
                                 !.writing = Tail(@)]
       IN lhost' = IF host.writing # <<>> THEN host ELSE Added(host, Head(lhost.writing).of)
    /\ UNCHANGED <<lpair, lwire, lserver, lwants, lcuts>>

\* CleanupLogsAndCheckpoint: m_logFiles loses the files the checkpoint covers; the
\* directory loses those the oldest checkpoint of its listing covers, but for KeptLogs.
Covered(host, i, d) == i < Len(host.logs) /\ host.logs[i + 1].name <= d + 1
CleanedUp(host) ==
    LET n == Len(host.logs)
        oldest == IF host.previous > 0 THEN host.previous ELSE host.checkpointed
        opened == CHOOSE i \in 1..n : /\ ~Covered(host, i, host.checkpointed)
                                      /\ \A j \in 1..(i - 1) : Covered(host, j, host.checkpointed)
    IN [host EXCEPT
          !.first = Most2(@, opened),
          !.logs = [i \in 1..n |->
              IF n - i >= KeptLogs /\ \A j \in 1..i : Covered(host, j, oldest)
              THEN [host.logs[i] EXCEPT !.gone = TRUE] ELSE host.logs[i]]]

\* CheckpointDone: the renamed file's decree and size become the ones on offer.
NewCheckpoint ==
    /\ LastLogged(lhost).d > lhost.checkpointed + 1
    /\ lhost' = CleanedUp([lhost EXCEPT !.checkpointed = LastLogged(lhost).d - 1,
                                        !.previous = lhost.checkpointed,
                                        !.codexBallot = lhost.ballot])
    /\ UNCHANGED <<lpair, lwire, lserver, lwants, lcuts>>

-----------------------------------------------------------------------------
\* The learner asks.

NoServer == [pc |-> "none", todo |-> <<>>, names |-> <<>>, from |-> 0, left |-> 0, all |-> 0]
NoWire == [end |-> "none", pages |-> <<>>]
Unasked == [pc |-> "idle", kind |-> "none", d |-> 0, size |-> 0, got |-> <<>>,
            read |-> 0, ballot |-> 1, out |-> <<>>, left |-> FALSE, result |-> "none"]

\* FetchServerLoop and accept_loop: the accepted connection gets a thread (task) of its
\* own, that reads one request.
FetchServerLoop == [NoServer EXCEPT !.pc = "HandleFetchRequest"]
AcceptLoop == [NoServer EXCEPT !.pc = "serve"]

\* StreamSocket::Connect and LearnClient::request: connect and write the request.
LearnerConnected ==
    /\ lwire' = [end |-> "open", pages |-> <<>>]
    /\ lserver' = IF lpair.server = "cpp" THEN FetchServerLoop ELSE AcceptLoop

\* LearnVotes and fetch_votes.
AskVotes(d) ==
    /\ lwants.pc = "idle"
    /\ lwants' = [lwants EXCEPT !.pc = "votes", !.kind = "votes", !.d = d]
    /\ LearnerConnected
    /\ UNCHANGED <<lpair, lhost, lcuts>>

\* The decree and the size of the checkpoint a StatusResponse reports.
BuildLearnStatusResponse(host) ==
    [d |-> host.checkpointed, size |-> IF host.checkpointed > 0 THEN 1 + BodyPages ELSE 0]

\* query_status, or a StatusResponse that arrived as a packet.
AskStatus ==
    /\ lwants.pc = "idle" /\ lhost.checkpointed > 0
    /\ LET status == BuildLearnStatusResponse(lhost) IN
       lwants' = [lwants EXCEPT !.pc = "told", !.d = status.d, !.size = status.size]
    /\ UNCHANGED <<lpair, lhost, lwire, lserver, lcuts>>

\* CopyLearnCheckpointFile and fetch_checkpoint: the output file is created and the
\* checkpoint of the reported decree asked for, however old the report is.
AskCheckpoint ==
    /\ lwants.pc = "told"
    /\ lwants' = [lwants EXCEPT !.pc = "header", !.kind = "codex", !.left = TRUE]
    /\ LearnerConnected
    /\ UNCHANGED <<lpair, lhost, lcuts>>

\* Message::ReadFromSocket in HandleFetchRequest; a short or failed read closes the
\* connection without an answer (BreakConnection).
ReadFromSocket ==
    /\ lserver.pc = "HandleFetchRequest" /\ lwire.end = "open"
    /\ lserver' = [lserver EXCEPT !.pc = "build"]
    /\ UNCHANGED <<lpair, lhost, lwire, lwants, lcuts>>

\* read_message in serve.
ReadMessage ==
    /\ lserver.pc = "serve" /\ lwire.end = "open"
    /\ lserver' = [lserver EXCEPT !.pc = "list"]
    /\ UNCHANGED <<lpair, lhost, lwire, lwants, lcuts>>

\* Every refusal is a silent close.
ServerGivesUp == /\ lserver' = [lserver EXCEPT !.pc = "done", !.todo = <<>>]
           /\ lwire' = [lwire EXCEPT !.end = "fin"]

Indexes(host) == host.first..Len(host.logs)

\* BuildLearnServerState under m_lock, with ServeLearnRequest's choice of files.
BuildLearnServerState ==
    LET holding == {i \in Indexes(lhost) : FileHasDecree(lhost.logs[i], lwants.d)}
        first == CHOOSE i \in holding : \A j \in holding : i <= j
        span(i) == [name |-> lhost.logs[i].name, from |-> 0, len |-> -1]
    IN /\ lserver.pc = "build"
       /\ \/ /\ lwants.kind = "votes" /\ holding # {}
             /\ lserver' = [lserver EXCEPT !.pc = "open", !.all = Len(lhost.all),
                   !.todo = [k \in 1..(Len(lhost.logs) - first + 1) |->
                       [span(first + k - 1) EXCEPT
                          !.from = IF k = 1 THEN GetOffset(lhost.logs[first], lwants.d) ELSE 0]]]
             /\ UNCHANGED lwire
          \/ /\ lwants.kind = "codex" /\ lwants.d = lhost.checkpointed
             /\ lserver' = [lserver EXCEPT !.pc = "codex"]
             /\ UNCHANGED lwire
          \/ /\ IF lwants.kind = "votes" THEN holding = {} ELSE lwants.d # lhost.checkpointed
             /\ ServerGivesUp
       /\ UNCHANGED <<lpair, lhost, lwants, lcuts>>

\* DirSource: the directory is listed, and then every log of it is scanned; a file
\* deleted in between, or caught while a page of it is being written, fails the open.
ListDirectory ==
    LET n == Len(lhost.logs)
        there == SelectSeq([i \in 1..n |-> i], LAMBDA i : ~lhost.logs[i].gone)
    IN /\ lserver.pc = "list"
       /\ \/ /\ lwants.kind = "votes"
             /\ lserver' = [lserver EXCEPT !.pc = "scan", !.all = Len(lhost.all), !.names = there]
             /\ UNCHANGED lwire
          \/ /\ lwants.kind = "codex" /\ lwants.d = lhost.checkpointed
             /\ lserver' = [lserver EXCEPT !.pc = "codex"]
             /\ UNCHANGED lwire
          \/ lwants.kind = "codex" /\ lwants.d # lhost.checkpointed /\ ServerGivesUp
       /\ UNCHANGED <<lpair, lhost, lwants, lcuts>>

\* LogSet::open and votes_from for one listed log: whole records only, up to where
\* the scan stops.
ScanLog ==
    /\ lserver.pc = "scan" /\ lserver.names # <<>>
    /\ LET file == lhost.logs[Head(lserver.names)]
           begun == lserver.todo # <<>>
           from == IF begun THEN 0 ELSE GetOffset(file, lwants.d)
           span == [name |-> file.name, from |-> from, len |-> file.dataLen - from]
           more == (begun \/ FileHasDecree(file, lwants.d)) /\ span.len > 0
       IN \/ /\ ~file.gone
             /\ lserver' = [lserver EXCEPT !.names = Tail(@),
                                           !.todo = IF more THEN Append(@, span) ELSE @]
             /\ UNCHANGED lwire
          \/ file.gone /\ ServerGivesUp
          \/ Len(file.pages) > file.dataLen /\ ServerGivesUp
    /\ UNCHANGED <<lpair, lhost, lwants, lcuts>>

ScanDone ==
    /\ lserver.pc = "scan" /\ lserver.names = <<>>
    /\ IF lserver.todo = <<>> THEN ServerGivesUp
       ELSE lserver' = [lserver EXCEPT !.pc = "open"] /\ UNCHANGED lwire
    /\ UNCHANGED <<lpair, lhost, lwants, lcuts>>

-----------------------------------------------------------------------------
\* The server sends.

FileNamed(name) == CHOOSE i \in 1..Len(lhost.logs) : lhost.logs[i].name = name

\* A defect: a file that is no longer there is skipped.
SendFileOpenSkips ==
    /\ lserver.pc = "open" /\ lserver.todo # <<>>
    /\ LET span == Head(lserver.todo)
           file == lhost.logs[FileNamed(span.name)]
           size == IF span.len < 0 THEN Len(file.pages) - span.from ELSE span.len
       IN lserver' = IF file.gone THEN [lserver EXCEPT !.todo = Tail(@)]
                     ELSE [lserver EXCEPT !.pc = "send", !.from = span.from, !.left = size]
    /\ UNCHANGED <<lpair, lhost, lwire, lwants, lcuts>>

\* The start of SendLearnFile / send_file: a file that is gone fails the request;
\* without a length everything up to the size the file has now is sent.
SendFileOpen ==
    /\ lserver.pc = "open" /\ lserver.todo # <<>>
    /\ LET span == Head(lserver.todo)
           file == lhost.logs[FileNamed(span.name)]
           size == IF span.len < 0 THEN Len(file.pages) - span.from ELSE span.len
       IN IF file.gone THEN ServerGivesUp
          ELSE /\ lserver' = [lserver EXCEPT !.pc = "send", !.from = span.from, !.left = size]
               /\ UNCHANGED lwire
    /\ UNCHANGED <<lpair, lhost, lwants, lcuts>>

\* StreamSocket::Write and write_all put n pages of the file on the wire.
SendPages(file, n) ==
    /\ lwire' = [lwire EXCEPT !.pages = @ \o SubSeq(file.pages, lserver.from + 1,
                                                    lserver.from + n)]
    /\ lserver' = [lserver EXCEPT !.from = @ + n, !.left = @ - n]

\* SendLearnFile's loop: what the reader returns is sent, also when that goes past the
\* size the file had at the start.
SendLearnFile ==
    /\ lpair.server = "cpp"
    /\ lserver.pc = "send" /\ lserver.left > 0 /\ lwire.end = "open"
    /\ LET file == lhost.logs[FileNamed(Head(lserver.todo).name)] IN
       \E n \in 1..Least2(LearnChunk, Len(file.pages) - lserver.from) : SendPages(file, n)
    /\ UNCHANGED <<lpair, lhost, lwants, lcuts>>

\* send_file's loop: never more than is left of the span.
SendFile ==
    /\ lpair.server = "rust"
    /\ lserver.pc = "send" /\ lserver.left > 0 /\ lwire.end = "open"
    /\ LET file == lhost.logs[FileNamed(Head(lserver.todo).name)] IN
       \E n \in 1..Least2(LearnChunk, lserver.left) : SendPages(file, n)
    /\ UNCHANGED <<lpair, lhost, lwants, lcuts>>

SendFileDone ==
    /\ lserver.pc = "send" /\ lserver.left <= 0
    /\ lserver' = [lserver EXCEPT !.pc = "open", !.todo = Tail(@)]
    /\ UNCHANGED <<lpair, lhost, lwire, lwants, lcuts>>

\* The checkpoint file is sent whole; a newer checkpoint does not delete it while
\* it is open, and a name that is gone fails the request.
SendCheckpoint ==
    /\ lserver.pc = "codex" /\ lwire.end = "open"
    /\ LET sent == lserver.from
           codex == RecordBytes(CodexOf(lwants.d, lserver.left)) IN
       \/ /\ sent = 0
          /\ lwants.d = lhost.checkpointed
          /\ lwire' = [lwire EXCEPT !.pages = <<PageOf(CodexOf(lwants.d, lhost.codexBallot), 1)>>]
          /\ lserver' = [lserver EXCEPT !.from = 1, !.left = lhost.codexBallot]
       \/ sent = 0 /\ lwants.d # lhost.checkpointed /\ ServerGivesUp
       \/ /\ sent \in 1..BodyPages
          /\ \E n \in 1..Least2(LearnChunk, 1 + BodyPages - sent) :
                /\ lwire' = [lwire EXCEPT !.pages = @ \o SubSeq(codex, sent + 1, sent + n)]
                /\ lserver' = [lserver EXCEPT !.from = sent + n]
       \/ sent > BodyPages /\ ServerGivesUp
    /\ UNCHANGED <<lpair, lhost, lwants, lcuts>>

\* The connection is closed when everything was sent: FIN is the terminator.
ServerCloses ==
    /\ lserver.pc = "open" /\ lserver.todo = <<>> /\ lwire.end = "open"
    /\ ServerGivesUp
    /\ UNCHANGED <<lpair, lhost, lwants, lcuts>>

\* A timeout, a reset, a server that shuts down or dies: the stream ends where it
\* is, on a page boundary, inside a page, or with what was sent lost.
BreakConnection ==
    /\ lwire.end = "open" /\ lcuts < MaxCuts
    /\ lcuts' = lcuts + 1
    /\ lserver' = [lserver EXCEPT !.pc = "done", !.todo = <<>>]
    /\ \/ \E e \in {"fin", "part"} : lwire' = [lwire EXCEPT !.end = e]
       \/ lwire' = [end |-> "reset", pages |-> <<>>]
    /\ UNCHANGED <<lpair, lhost, lwants>>

-----------------------------------------------------------------------------
\* The learner reads.

Ended(w) == w.end \in {"fin", "part", "reset"}

\* StreamSocket::Read and read_up_to: n pages, or what there is before the end.
Readable(w, n) == Len(w.pages) >= n \/ Ended(w)
Got(w, n) == SubSeq(w.pages, 1, Least2(n, Len(w.pages)))
After(w, n) == [w EXCEPT !.pages = SubSeq(@, n + 1, Len(@))]

\* ReadNextMessage(restore = false) and VoteStream::read_one: a header page, the rest
\* of the record it announces, and the checksum over both; an end on a record
\* boundary is the end of the votes, anything else fails the catch-up.
ReadRecord ==
    /\ lwants.pc = "votes" /\ Readable(lwire, 1)
    /\ IF lwire.pages = <<>>
       THEN /\ lwants' = [lwants EXCEPT !.pc = "ended",
                             !.result = IF lwire.end = "fin" THEN "clean" ELSE "failed"]
            /\ UNCHANGED lwire
       ELSE LET rec == Head(lwire.pages).of IN
            /\ Readable(lwire, rec.len)
            /\ IF Got(lwire, rec.len) = RecordBytes(rec)
               THEN /\ lwants' = [lwants EXCEPT !.got = Append(@, rec)]
                    /\ lwire' = After(lwire, rec.len)
               ELSE /\ lwants' = [lwants EXCEPT !.pc = "ended", !.result = "failed"]
                    /\ UNCHANGED lwire
    /\ UNCHANGED <<lpair, lhost, lserver, lcuts>>

\* The goto Error of CopyLearnCheckpointFile, and remove_file: the output goes.
CopyFails == lwants' = [lwants EXCEPT !.pc = "ended", !.result = "failed",
                                      !.out = <<>>, !.left = FALSE]

\* The header page is read and written with the learner's own m_maxBallot, as the
\* callback (raise_max_ballot) gives it, when that is the higher one.
Raised(rec) == [rec EXCEPT !.b = Most2(@, lwants.ballot)]
CopyHeader ==
    /\ lwants.pc = "header" /\ Readable(lwire, 1)
    /\ IF lwire.pages = <<>> THEN CopyFails /\ UNCHANGED lwire
       ELSE LET rec == Head(lwire.pages).of IN
            /\ lwants' = [lwants EXCEPT !.pc = "body", !.read = 1, !.got = <<rec>>,
                                        !.out = <<PageOf(Raised(rec), 1)>>]
            /\ lwire' = After(lwire, 1)
    /\ UNCHANGED <<lpair, lhost, lserver, lcuts>>

\* The learner promises to a higher ballot while the copy is going on.
RaiseBallot ==
    /\ lwants.pc \in {"header", "body"} /\ lwants.ballot < LearnBallots
    /\ lwants' = [lwants EXCEPT !.ballot = @ + 1]
    /\ UNCHANGED <<lpair, lhost, lwire, lserver, lcuts>>

CopiedPages(n) ==
    /\ lwants' = [lwants EXCEPT !.read = @ + Len(Got(lwire, n)), !.out = @ \o Got(lwire, n)]
    /\ lwire' = After(lwire, Len(Got(lwire, n)))

\* CopyLearnCheckpointFile's loop over the body: the buffer is filled as far as the
\* stream goes, an empty read fails the copy.
CopyBody ==
    /\ lpair.learner = "cpp"
    /\ lwants.pc = "body" /\ lwants.read < lwants.size /\ Readable(lwire, LearnChunk)
    /\ IF Got(lwire, LearnChunk) = <<>> \/ lwire.end = "reset" THEN CopyFails /\ UNCHANGED lwire
       ELSE CopiedPages(LearnChunk)
    /\ UNCHANGED <<lpair, lhost, lserver, lcuts>>

\* copy_checkpoint's: what is missing is asked for, a short read fails the copy.
StageBody ==
    /\ lpair.learner = "rust"
    /\ lwants.pc = "body" /\ lwants.read < lwants.size
    /\ LET n == Least2(LearnChunk, lwants.size - lwants.read) IN
       /\ Readable(lwire, n)
       /\ IF Len(Got(lwire, n)) < n THEN CopyFails /\ UNCHANGED lwire ELSE CopiedPages(n)
    /\ UNCHANGED <<lpair, lhost, lserver, lcuts>>

\* Flush and VerifyCheckpointFile.  Files older than version 4 carry no checksum: of
\* those only the header is checked, and a copy that is too short is not noticed here.
FinishCopy ==
    /\ lpair.learner = "cpp"
    /\ lwants.pc = "body" /\ lwants.read >= lwants.size
    /\ lwants' = [lwants EXCEPT !.pc = "ended", !.result = "copied", !.left = FALSE]
    /\ UNCHANGED <<lpair, lhost, lwire, lserver, lcuts>>

\* publish: verify_file and the rename into place.  When the reopening or the rename
\* itself fails, the transfer fails with the temporary file still there.
Publish ==
    /\ lpair.learner = "rust"
    /\ lwants.pc = "body" /\ lwants.read >= lwants.size
    /\ \/ lwants' = [lwants EXCEPT !.pc = "ended", !.result = "copied", !.left = FALSE]
       \/ lwants' = [lwants EXCEPT !.pc = "ended", !.result = "failed"]
    /\ UNCHANGED <<lpair, lhost, lwire, lserver, lcuts>>

-----------------------------------------------------------------------------
NoLogs == [logs |-> <<NewLog(1)>>, first |-> 1, all |-> <<>>, ballot |-> 1, writing |-> <<>>,
           checkpointed |-> 0, previous |-> 0, codexBallot |-> 0]

InitLearnPort ==
    /\ lpair \in LearnPairs
    /\ lhost = FoldLeft(LAMBDA host, rec :
                  LET rolled == IF host.all = <<>> THEN host ELSE Rolled(host, rec) IN
                  Added([rolled EXCEPT !.logs[Len(rolled.logs)].pages = @ \o RecordBytes(rec)], rec),
                  NoLogs, LearnStart)
    /\ lwire = NoWire /\ lserver = NoServer /\ lwants = Unasked /\ lcuts = 0

LogSomething ==
    \E b \in 1..LearnBallots, len \in RecordLens :
       \E d \in 0..LearnDecrees : StartLogging([d |-> d, b |-> b, len |-> len])

NextLearnPort ==
    \/ LogSomething \/ WritePage \/ NewCheckpoint
    \/ \E d \in 1..LearnDecrees : AskVotes(d)
    \/ AskStatus \/ AskCheckpoint \/ ReadFromSocket \/ ReadMessage \/ BuildLearnServerState
    \/ ListDirectory \/ ScanLog \/ ScanDone
    \/ SendFileOpen \/ SendLearnFile \/ SendFile \/ SendFileDone \/ SendCheckpoint
    \/ ServerCloses \/ BreakConnection
    \/ ReadRecord \/ CopyHeader \/ RaiseBallot \/ CopyBody \/ StageBody
    \/ FinishCopy \/ Publish

SpecLearnPort == InitLearnPort /\ [][NextLearnPort]_lvars

-----------------------------------------------------------------------------
\* What a learner takes from a FetchVotes answer is a stretch of the peer's log with
\* no record missing, repeated or torn, that begins with a vote for the decree it
\* asked for - while the peer appends, switches and deletes files and the connection
\* may break anywhere (SendLearnFile, send_file, ReadNextMessage, VoteStream).
LearnedContiguous ==
    lwants.kind = "votes" /\ lwants.got # <<>> =>
        /\ lwants.got[1].d = lwants.d
        /\ \E k \in 1..Len(lhost.all) :
              /\ k + Len(lwants.got) - 1 <= Len(lhost.all)
              /\ SubSeq(lhost.all, k, k + Len(lwants.got) - 1) = lwants.got

\* Unless the connection broke or a file was deleted under the transfer, an answer that
\* ends cleanly and is not empty brings everything that was in the log when the request
\* was served (ServeLearnRequest, LogSet::votes_from): the learner is caught up to there.
LearnedEverything ==
    /\ lwants.kind = "votes" /\ lwants.result = "clean" /\ lwants.got # <<>>
    /\ lcuts = 0 /\ \A i \in 1..Len(lhost.logs) : ~lhost.logs[i].gone
    => \E k \in 1..Len(lhost.all) :
            /\ lwants.got[1] = lhost.all[k]
            /\ k + Len(lwants.got) - 1 >= lserver.all

\* On failure the temporary file is deleted, as fetch_checkpoint's comment says.
TempFileGone == lwants.result = "failed" => ~lwants.left

\* A copied checkpoint is the peer's file of the requested decree, page for page, with
\* a header ballot that is at least the peer's; a transfer that failed leaves no file
\* behind (CopyLearnCheckpointFile, fetch_checkpoint_with), except the Rust learner's
\* when the file was whole and publish could not reopen or rename it.
CopiedOrNothing ==
    /\ lwants.result = "copied" =>
          /\ \A i \in 2..Len(lwants.out) : lwants.out[i] = PageOf(lwants.got[1], i)
          /\ Len(lwants.out) = 1 + BodyPages /\ lwants.got[1].d = lwants.d
          /\ lwants.out[1].of.b >= lwants.got[1].b
    /\ TempFileGone \/ (lpair.learner = "rust" /\ Len(lwants.out) = lwants.size)

=============================================================================
