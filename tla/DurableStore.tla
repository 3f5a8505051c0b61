---------------------------- MODULE DurableStore ----------------------------
(***************************************************************************)
(* The rsl-storage crate on a disk that may lose power at every file       *)
(* system call: the log writer and its recovery scan (log.rs), the staged  *)
(* checkpoint writer (checkpoint.rs), retention (gc.rs), defunct.txt       *)
(* (dir.rs), the sync calls between them (durability.rs), and the ways a   *)
(* crash leaves what was not synced (sim.rs).                              *)
(*                                                                         *)
(* A file is a sequence of sectors.  A sector is zero or the i-th of the n *)
(* sectors of a record: a vote (d > 0), a prepare (d = 0), a checkpoint,   *)
(* or the word in defunct.txt.  Offsets and lengths count sectors.  A call *)
(* of the crate is the sequence of file system calls it makes and of what  *)
(* it notes when they succeeded; two threads make calls, one for the log   *)
(* and one for checkpoints and retention.                                  *)
(***************************************************************************)
EXTENDS Integers, Sequences, SequencesExt, FiniteSets, FiniteSetsExt, Functions

CONSTANTS
    RecordPages,      \* sectors of the vote for a decree, its padding included
    LogPages,         \* m_maxLogLen: needs_rollover above it
    KeepCheckpoints,  \* Retention::max_checkpoints
    KeepLogs,         \* Retention::max_logs
    Bounds,           \* what the runs start from: bounds on the decrees and the
                      \* ballots of the votes, the checkpoints started, the values
                      \* of defunct.txt, the power losses, the calls that fail,
                      \* and on the last four together (events)
    Faults            \* the calls that may fail; "retry": a writer that failed is kept

VARIABLES
    inode,        \* contents of the files: durable, and pending changes
    live,         \* the names the process sees, each with its file
    durableNames, \* the names on the disk
    pendingNames, \* changes of names since the directory was synced
    calls,        \* per thread, what the call it is in has still to do
    writer,       \* the open LogWriter
    staging,      \* the checkpoint whose CheckpointWriter is open
    acked,        \* the votes acknowledged (history)
    published,    \* the checkpoints whose finish returned Ok (history)
    defunct,      \* the last value write_defunct returned Ok for (history)
    started,      \* running, or refused: a log was corrupt
    bound,        \* the member of Bounds this run is under
    tries         \* how often each bounded thing was done; loose: a log was
                  \* left with records that were never flushed (history)

storeVars == <<inode, live, durableNames, pendingNames, calls, writer,
               staging, acked, published, defunct, started, bound,
               tries>>

Zero == [d |-> 0, v |-> 0, i |-> 0, n |-> 0]

\* The part of a sector that a failed write left at the end of the file.
Partial == [d |-> 0, v |-> 0, i |-> 0, n |-> 1]

Sectors(rec, n) == [k \in 1 .. n |-> [d |-> rec.d, v |-> rec.v, i |-> k, n |-> n]]
PagesOf(rec) == IF rec.d = 0 THEN 1 ELSE RecordPages[rec.d]
RecordSectors(rec) == Sectors(rec, PagesOf(rec))

LogFileName(d) == <<"log", d>>
CheckpointFileName(d) == <<"codex", d>>
TmpPath(d) == <<"tmp", d>>
DefunctFile == <<"defunct", 0>>

NoWriter == [file |-> 0]
NoStaging == [d |-> 0]
StoreThread == {"log", "checkpoint"}
Idle == [t \in StoreThread |-> <<>>]

Largest(S, least) == Max(S \union {least})

Eventful == tries.publishes + tries.faults + tries.losses + defunct < bound.events

(***************************************************************************)
(* The file system.                                                        *)
(***************************************************************************)
Resized(c, n) == [k \in 1 .. n |-> IF k <= Len(c) THEN c[k] ELSE Zero]

WriteAt(c, off, data) ==
    [k \in 1 .. Largest({off + Len(data)}, Len(c)) |->
        IF k > off /\ k <= off + Len(data) THEN data[k - off]
        ELSE IF k <= Len(c) THEN c[k] ELSE Zero]

Applied(c, change) ==
    IF change.op = "truncate" THEN Resized(c, change.len)
    ELSE WriteAt(c, change.off, change.data)

\* The last write is cut in half at a sector boundary.
AppliedTorn(c, change) ==
    IF change.op = "truncate" THEN Applied(c, change)
    ELSE WriteAt(c, change.off, SubSeq(change.data, 1, Len(change.data) \div 2))

\* The last write landed with every second sector missing.
AppliedHoley(c, change) ==
    IF change.op = "truncate" THEN Applied(c, change)
    ELSE [k \in 1 .. Largest({change.off + Len(change.data)}, Len(c)) |->
             IF k > change.off /\ k <= change.off + Len(change.data)
             THEN IF (k - change.off) % 2 = 1 THEN change.data[k - change.off]
                  ELSE IF k <= Len(c) THEN c[k] ELSE Zero
             ELSE IF k <= Len(c) THEN c[k] ELSE Zero]

CrashPolicy == {"Nothing", "Everything", "NoDirOps", "TornTail", "HoleyTail",
                "ReorderedTail"}

KeepsDirOps(policy) == policy \notin {"Nothing", "NoDirOps"}

\* What a file holds after a crash: its synced bytes and, by the policy, what
\* became of the changes that were not.
CrashContents(file, policy) ==
    LET last == Len(file.pending)
        Landed(c, k) ==
            LET change == file.pending[k] IN
            CASE policy = "TornTail" /\ k = last -> AppliedTorn(c, change)
              [] policy = "HoleyTail" /\ k = last -> AppliedHoley(c, change)
              [] policy = "ReorderedTail" /\ k < last /\ change.op = "write" -> c
              [] OTHER -> Applied(c, change)
    IN  IF policy = "Nothing" THEN file.durable
        ELSE FoldLeft(Landed, file.durable, [k \in 1 .. last |-> k])

LiveContents(file) == FoldLeft(Applied, file.durable, file.pending)

WithName(names, name, id) ==
    [x \in DOMAIN names \union {name} |-> IF x = name THEN id ELSE names[x]]
WithoutName(names, name) == Restrict(names, DOMAIN names \ {name})

AppliedEntry(names, entry) ==
    CASE entry.op = "link" -> WithName(names, entry.name, entry.id)
      [] entry.op = "unlink" -> WithoutName(names, entry.name)
      [] entry.op = "rename" ->
             IF entry.from \notin DOMAIN names THEN names
             ELSE WithName(WithoutName(names, entry.from), entry.to,
                           names[entry.from])

\* The directory a power loss at this moment would leave.
CrashImage(policy) ==
    LET names == IF KeepsDirOps(policy)
                 THEN FoldLeft(AppliedEntry, durableNames, pendingNames)
                 ELSE durableNames
    IN  [x \in DOMAIN names |-> CrashContents(inode[names[x]], policy)]

LiveImage == [x \in DOMAIN live |-> LiveContents(inode[live[x]])]

(***************************************************************************)
(* Reading a log: the recovery scan and the decree index.                  *)
(***************************************************************************)
RestIsZero(c, p) == \A k \in p .. Len(c) : c[k] = Zero

RecordAt(c, p) == [d |-> c[p].d, v |-> c[p].v]

WholeRecord(c, p) == SubSeq(c, p, p + c[p].n - 1) = Sectors(RecordAt(c, p), c[p].n)

\* How the scan goes on at sector p: one more record, or the end it stops at.
ReadOne(c, p) ==
    CASE p > Len(c) -> "Eof"
      [] c[p] = Partial -> "Reject"
      [] c[p].i # 1 -> IF c[p] = Zero /\ RestIsZero(c, p) THEN "Stop" ELSE "Reject"
      [] p + c[p].n - 1 > Len(c) \/ c[p + c[p].n - 1] = Partial -> "Stop"
      [] ~WholeRecord(c, p) ->
             IF RestIsZero(c, p + c[p].n) THEN "Stop" ELSE "Reject"
      [] OTHER -> "Record"

Scan(c) ==
    LET From[p \in 1 .. Len(c) + 1] ==
            LET what == ReadOne(c, p) IN
            IF what = "Record"
            THEN LET rest == From[p + c[p].n]
                 IN  [rest EXCEPT !.records = <<RecordAt(c, p)>> \o @]
            ELSE [records |-> <<>>, end |-> what, stop |-> p - 1]
    IN  From[1]

Recoverable(scan) == scan.end # "Reject"

EmptyIndex == [min |-> 0, offsets |-> <<>>, len |-> 0, ok |-> TRUE]

MaxIndexed(ix) == IF ix.offsets = <<>> THEN 0 ELSE ix.min + Len(ix.offsets) - 1

AddMessage(ix, rec) ==
    LET vote == rec.d > 0
        first == ix.offsets = <<>>
        again == ~first /\ rec.d = MaxIndexed(ix)
    IN  [min |-> IF vote /\ first THEN rec.d ELSE ix.min,
         offsets |-> IF ~vote THEN ix.offsets
                     ELSE Append(IF again THEN Front(ix.offsets) ELSE ix.offsets,
                                 ix.len),
         len |-> ix.len + PagesOf(rec),
         ok |-> ix.ok /\ (~vote \/ first \/ again \/ rec.d = MaxIndexed(ix) + 1)]

IndexOf(records) == FoldLeft(AddMessage, EmptyIndex, records)

HasDecree(ix, d) == ix.offsets # <<>> /\ d \in ix.min .. MaxIndexed(ix)
OffsetOf(ix, d) == ix.offsets[d - ix.min + 1]
(***************************************************************************)
(* The data directory and the set of its logs.                             *)
(***************************************************************************)
Numbered(image, ext) == {x[2] : x \in {y \in DOMAIN image : y[1] = ext}}
SortedSet(S) == SetToSortSeq(S, <)
Logs(image) == SortedSet(Numbered(image, "log"))
Checkpoints(image) == SortedSet(Numbered(image, "codex"))
NewestCheckpoint(image) == Largest(Numbered(image, "codex"), 0)

LogSetOpens(image) ==
    \A d \in Numbered(image, "log") :
        LET scan == Scan(image[LogFileName(d)])
        IN  Recoverable(scan) /\ IndexOf(scan.records).ok

LogIndex(image, d) == IndexOf(Scan(image[LogFileName(d)]).records)

LogSetMax(image) ==
    Largest({MaxIndexed(LogIndex(image, d)) : d \in Numbered(image, "log")}, 0)

\* The records of the spans that answer FetchVotes(d): the file that holds d
\* from its offset, and every later file whole.
VotesFrom(image, d) ==
    LET logs == Logs(image)
        holding == {k \in DOMAIN logs : HasDecree(LogIndex(image, logs[k]), d)}
        start == Min(holding)
        offset == OffsetOf(LogIndex(image, logs[start]), d)
        InSpan(k) ==
            LET c == image[LogFileName(logs[k])] IN
            Scan(IF k = start THEN SubSeq(c, offset + 1, Len(c)) ELSE c).records
    IN  IF holding = {} THEN <<>>
        ELSE FlattenSeq([k \in 1 .. Len(logs) - start + 1 |-> InSpan(start + k - 1)])

\* A checkpoint is accepted: its header, its size and every block's checksum.
CheckpointPages == 3
VerifyFile(c) ==
    /\ Len(c) >= 1
    /\ c[1].i = 1
    /\ Len(c) = c[1].n
    /\ c = Sectors(RecordAt(c, 1), c[1].n)

(***************************************************************************)
(* The calls.  Each is the sequence of what it does, in order.             *)
(***************************************************************************)
Create(name) == [op |-> "open", name |-> name, truncate |-> TRUE]
OpenAppend(name) == [op |-> "open", name |-> name, truncate |-> FALSE]
Write(name, off, data) == [op |-> "write", name |-> name, off |-> off, data |-> data]
SetSize(name, len) == [op |-> "truncate", name |-> name, len |-> len]
SyncData(name) == [op |-> "sync", name |-> name]
SyncFile(name) == [op |-> "sync", name |-> name]
Rename(from, to) == [op |-> "rename", from |-> from, to |-> to]
RemoveFile(name) == [op |-> "remove", name |-> name]
SyncDir == [op |-> "syncdir"]
Note(what, value) == [op |-> "note", what |-> what, value |-> value]

SyncNewFile(name) == <<SyncDir>>

RenameDurable(from, to) == <<SyncFile(from), Rename(from, to), SyncDir>>

\* LogWriter::open_with.  A discarded tail is cut off; a new name is synced.
\* All that the scan kept counts as durable, also what an earlier writer of
\* this process wrote and did not flush (inherited).
OpenWith(d) ==
    LET name == LogFileName(d)
        existed == name \in DOMAIN live
        c == IF existed THEN LiveImage[name] ELSE <<>>
        ix == IndexOf(Scan(c).records)
        kept == existed /\ inode[live[name]].pending # <<>>
    IN  <<OpenAppend(name)>>
        \o (IF existed THEN <<>> ELSE SyncNewFile(name))
        \o (IF Len(c) > ix.len THEN <<SetSize(name, ix.len)>> ELSE <<>>)
        \o <<Note("opened", [file |-> d, index |-> ix, durable |-> ix.len,
                             pos |-> ix.len, inherited |-> kept])>>

\* append_unsynced: nothing is written unless the whole batch is in sequence;
\* the index moves once it is written.
AppendUnsynced(records) ==
    LET next == FoldLeft(AddMessage, writer.index, records)
        data == FlattenSeq([k \in DOMAIN records |-> RecordSectors(records[k])])
    IN  IF ~next.ok THEN <<>>
        ELSE <<Write(LogFileName(writer.file), writer.pos, data),
               Note("indexed", [index |-> next, pos |-> writer.pos + Len(data)])>>

\* sync, called when there is something to flush: the watermark moves only
\* after the flush, and then what it covers may be acknowledged.
\* A defect: the watermark moves first.
SyncEarly(target) ==
    <<Note("durable", target), SyncData(LogFileName(writer.file))>>

Sync(target) ==
    <<SyncData(LogFileName(writer.file)), Note("durable", target)>>

AppendBatch(records) ==
    LET appended == AppendUnsynced(records) IN
    IF appended = <<>> THEN <<>>
    ELSE appended \o Sync(Last(appended).value.index.len)
                  \o <<Note("acked", Range(records))>>

\* CheckpointWriter: the zeroed header and the state go to the staging file
\* block by block; finish drains the ring, cuts the padding of the last block,
\* writes the header, and publishes.
CreateCheckpoint(c, v) ==
    LET data == Sectors([d |-> c, v |-> v], CheckpointPages) IN
    <<Create(TmpPath(c)),
      Write(TmpPath(c), 0, <<Zero, data[2]>>),
      Write(TmpPath(c), 2, <<data[3], Zero>>)>>

FinishCheckpoint(c, v) ==
    <<OpenAppend(TmpPath(c)), SetSize(TmpPath(c), CheckpointPages),
      SyncFile(TmpPath(c)),
      OpenAppend(TmpPath(c)),
      Write(TmpPath(c), 0, <<Sectors([d |-> c, v |-> v], CheckpointPages)[1]>>)>>
    \o RenameDurable(TmpPath(c), CheckpointFileName(c))
    \o <<Note("published", c)>>

\* gc::plan, from the names listed at the call.
PlanLogs(image) ==
    LET logs == Logs(image)
        cps == Checkpoints(image)
        Superseded(k) ==
            /\ Len(logs) - k + 1 > KeepLogs
            /\ k < Len(logs)
            /\ logs[k + 1] <= cps[1] + 1
    IN  IF cps = <<>> THEN {}
        ELSE {k \in DOMAIN logs : \A j \in 1 .. k : Superseded(j)}

Cleanup ==
    LET logs == Logs(live)
        cps == Checkpoints(live)
        excess == Largest({Len(cps) - KeepCheckpoints}, 0)
        removals == [k \in 1 .. excess |-> RemoveFile(CheckpointFileName(cps[k]))]
                    \o [k \in 1 .. Cardinality(PlanLogs(live)) |->
                           RemoveFile(LogFileName(logs[k]))]
    IN  IF removals = <<>> THEN <<>> ELSE Append(removals, SyncDir)

\* write_defunct_with opens the file with OpenMode::Create.
WriteDefunct(value) ==
    <<Create(DefunctFile),
      Write(DefunctFile, 0, <<[d |-> value, v |-> 0, i |-> 1, n |-> 1]>>),
      SyncFile(DefunctFile)>>
    \o (IF DefunctFile \in DOMAIN live THEN <<>> ELSE SyncNewFile(DefunctFile))
    \o <<Note("defunct", value)>>

(***************************************************************************)
(* One step of a call.                                                     *)
(***************************************************************************)
Changed(name, change) ==
    inode' = [inode EXCEPT ![live[name]].pending = Append(@, change)]

PerformOpen(call) ==
    /\ call.op = "open"
    /\ IF call.name \notin DOMAIN live
       THEN /\ inode' = Append(inode, [durable |-> <<>>, pending |-> <<>>])
            /\ live' = WithName(live, call.name, Len(inode) + 1)
            /\ pendingNames' = Append(pendingNames,
                   [op |-> "link", name |-> call.name, id |-> Len(inode) + 1])
       ELSE /\ IF call.truncate
               THEN Changed(call.name, [op |-> "truncate", len |-> 0])
               ELSE UNCHANGED inode
            /\ UNCHANGED <<live, pendingNames>>
    /\ UNCHANGED durableNames

PerformChange(call) ==
    /\ \/ /\ call.op = "write"
          /\ Changed(call.name,
                     [op |-> "write", off |-> call.off, data |-> call.data])
       \/ /\ call.op = "truncate"
          /\ Changed(call.name, [op |-> "truncate", len |-> call.len])
    /\ UNCHANGED <<live, durableNames, pendingNames>>

PerformSync(call) ==
    /\ call.op = "sync"
    /\ inode' = [inode EXCEPT ![live[call.name]] =
                    [durable |-> LiveContents(@), pending |-> <<>>]]
    /\ UNCHANGED <<live, durableNames, pendingNames>>

PerformNames(call) ==
    /\ \/ /\ call.op = "rename"
          /\ live' = AppliedEntry(live, call)
          /\ pendingNames' = Append(pendingNames, call)
          /\ UNCHANGED durableNames
       \/ /\ call.op = "remove"
          /\ live' = WithoutName(live, call.name)
          /\ pendingNames' = IF call.name \notin DOMAIN live THEN pendingNames
                             ELSE Append(pendingNames,
                                         [op |-> "unlink", name |-> call.name])
          /\ UNCHANGED durableNames
       \/ /\ call.op = "syncdir"
          /\ durableNames' = FoldLeft(AppliedEntry, durableNames, pendingNames)
          /\ pendingNames' = <<>>
          /\ UNCHANGED live
    /\ UNCHANGED inode

\* What the call has done in memory once the file system call returned.
Noted(mem, note) ==
    CASE note.what = "opened" -> [mem EXCEPT !.writer = note.value]
      [] note.what = "indexed" -> [mem EXCEPT !.writer.index = note.value.index,
                                              !.writer.pos = note.value.pos]
      [] note.what = "durable" -> [mem EXCEPT !.writer.durable = note.value,
                                              !.writer.inherited = FALSE]
      [] note.what = "acked" -> [mem EXCEPT !.acked = @ \union note.value]
      [] note.what = "published" ->
             [mem EXCEPT !.published = Largest({note.value}, @)]
      [] note.what = "defunct" -> [mem EXCEPT !.defunct = note.value]

PerformNotes(notes) ==
    LET mem == FoldLeft(Noted, [writer |-> writer, acked |-> acked,
                                published |-> published, defunct |-> defunct], notes)
    IN  /\ writer' = mem.writer
        /\ acked' = mem.acked
        /\ published' = mem.published
        /\ defunct' = mem.defunct

NotesAfter(seq, k) ==
    LET ends == {j \in k + 1 .. Len(seq) : seq[j].op # "note"}
    IN  SubSeq(seq, k + 1, IF ends = {} THEN Len(seq) ELSE Min(ends) - 1)

\* The next file system call of the thread, and what the code does with its
\* result before the call after that.
Perform(t) ==
    /\ started = "running"
    /\ calls[t] # <<>>
    /\ LET call == Head(calls[t])
           notes == NotesAfter(calls[t], IF call.op = "note" THEN 0 ELSE 1)
       IN  /\ \/ PerformOpen(call)
              \/ PerformChange(call)
              \/ PerformSync(call)
              \/ PerformNames(call)
              \/ /\ call.op = "note"
                 /\ UNCHANGED <<inode, live, durableNames, pendingNames>>
           /\ PerformNotes(notes)
           /\ calls' = [calls EXCEPT ![t] =
                  SubSeq(@, (IF call.op = "note" THEN 0 ELSE 1) + Len(notes) + 1, Len(@))]
    /\ UNCHANGED <<staging, started, bound, tries>>

(***************************************************************************)
(* A call of the file system fails.  A write may leave a part of its data; *)
(* the caller drops a LogWriter whose write failed, and a CheckpointWriter *)
(* that is dropped before finish removes its staging file.                 *)
(***************************************************************************)
FailedWrite(call) ==
    \E k \in 0 .. Len(call.data) - 1, half \in {<<>>, <<Partial>>} :
        LET left == SubSeq(call.data, 1, k) \o half IN
        /\ IF left = <<>> THEN UNCHANGED inode
           ELSE Changed(call.name, [op |-> "write", off |-> call.off, data |-> left])
        /\ writer' = IF call.name[1] # "log" THEN writer
                     ELSE IF "retry" \in Faults /\ half = <<>>
                          THEN [writer EXCEPT !.pos = call.off + k]
                          ELSE NoWriter

Fail(t) ==
    /\ started = "running"
    /\ calls[t] # <<>>
    /\ tries.faults < bound.faults /\ Eventful
    /\ LET call == Head(calls[t]) IN
       /\ call.op \in Faults
       /\ IF call.op = "write" THEN FailedWrite(call) ELSE UNCHANGED <<inode, writer>>
    /\ calls' = [calls EXCEPT ![t] =
                    IF t = "checkpoint" /\ staging # NoStaging
                    THEN <<RemoveFile(TmpPath(staging.d))>> ELSE <<>>]
    /\ staging' = IF t = "checkpoint" THEN NoStaging ELSE staging
    /\ tries' = [tries EXCEPT !.faults = @ + 1]
    /\ UNCHANGED <<live, durableNames, pendingNames, acked, published, defunct,
                   started, bound>>

(***************************************************************************)
(* What the engine asks for.                                               *)
(***************************************************************************)
Call(t, what) ==
    /\ started = "running"
    /\ calls[t] = <<>>
    /\ what # <<>>
    /\ calls' = [calls EXCEPT ![t] = what]
    /\ UNCHANGED <<inode, live, durableNames, pendingNames, writer, acked,
                   published, defunct, started, bound>>

Ready == started = "running" /\ calls["log"] = <<>> /\ writer # NoWriter

LastVote == Largest({LogSetMax(LiveImage)}, NewestCheckpoint(live))

\* The batches the engine may log next: votes for the next decrees, the last
\* vote again under a higher ballot, a promise.
Batches(v) ==
    IF v = tries.ballot
    THEN {b \in {<<[d |-> LastVote + 1, v |-> v]>>,
                 <<[d |-> LastVote + 1, v |-> v], [d |-> LastVote + 2, v |-> v]>>} :
             Last(b).d <= bound.decree}
    ELSE {<<[d |-> 0, v |-> v]>>}
         \union (IF LastVote = 0 THEN {} ELSE {<<[d |-> LastVote, v |-> v]>>})

CallAppend ==
    /\ Ready
    /\ writer.index.len <= LogPages
    /\ \E v \in tries.ballot .. bound.ballot : \E b \in Batches(v) :
        /\ Call("log", AppendBatch(b)) \/ Call("log", AppendUnsynced(b))
        /\ tries' = [tries EXCEPT !.ballot = v]
    /\ UNCHANGED staging

CallSync ==
    /\ Ready
    /\ writer.durable # writer.index.len
    /\ Call("log", Append(Sync(writer.index.len),
                Note("acked", Range(Scan(LiveImage[LogFileName(writer.file)]).records))))
    /\ UNCHANGED <<staging, tries>>

\* needs_rollover; the new file has the name of the next vote's decree.  The
\* log left behind is flushed, but for inherited records: sync returns at once
\* when the watermark is at the end.
CallRollover ==
    /\ Ready
    /\ writer.index.len > LogPages
    /\ writer.durable = writer.index.len
    /\ LastVote < bound.decree
    /\ Call("log", OpenWith(LastVote + 1))
    /\ tries' = [tries EXCEPT !.loose = @ \/ writer.inherited]
    /\ UNCHANGED staging

\* A replica that dropped its writer opens the log again.
CallReopen ==
    /\ started = "running"
    /\ calls["log"] = <<>>
    /\ writer = NoWriter
    /\ LET logs == Numbered(live, "log")
           newest == Largest(logs, NewestCheckpoint(live) + 1)
       IN  IF LogSetOpens(LiveImage)
           THEN Call("log", OpenWith(IF logs = {} THEN newest ELSE Max(logs)))
           ELSE /\ started' = "refused"
                /\ UNCHANGED <<inode, live, durableNames, pendingNames, calls,
                               writer, acked, published, defunct, bound>>
    /\ UNCHANGED <<staging, tries>>

CallWriteDefunct ==
    /\ Ready
    /\ defunct < bound.defunct /\ Eventful
    /\ Call("log", WriteDefunct(defunct + 1))
    /\ UNCHANGED <<staging, tries>>

CallCreateCheckpoint ==
    /\ staging = NoStaging
    /\ tries.publishes < bound.publishes /\ Eventful
    /\ \E c \in {r.d : r \in acked} \ {0} :
        /\ c > published
        /\ Call("checkpoint", CreateCheckpoint(c, tries.publishes + 1))
        /\ staging' = [d |-> c, v |-> tries.publishes + 1]
    /\ tries' = [tries EXCEPT !.publishes = @ + 1]

\* finish, or the writer is dropped without it.
CallFinishCheckpoint ==
    /\ staging # NoStaging
    /\ \/ Call("checkpoint", FinishCheckpoint(staging.d, staging.v))
       \/ Call("checkpoint", <<RemoveFile(TmpPath(staging.d))>>)
    /\ staging' = NoStaging
    /\ UNCHANGED tries

CallCleanup ==
    /\ staging = NoStaging
    /\ Call("checkpoint", Cleanup)
    /\ UNCHANGED <<staging, tries>>

Stopped ==
    /\ calls' = Idle
    /\ writer' = NoWriter
    /\ staging' = NoStaging
    /\ started' = "running"
    /\ UNCHANGED <<acked, published, defunct, bound>>

PowerLoss ==
    /\ started = "running"
    /\ tries.losses < bound.losses /\ Eventful
    /\ \E policy \in CrashPolicy :
        LET image == CrashImage(policy)
            names == SetToSeq(DOMAIN image)
        IN  /\ inode' = [k \in DOMAIN names |->
                            [durable |-> image[names[k]], pending |-> <<>>]]
            /\ live' = [x \in DOMAIN image |-> CHOOSE k \in DOMAIN names : names[k] = x]
            /\ durableNames' = live'
    /\ pendingNames' = <<>>
    /\ tries' = [tries EXCEPT !.losses = @ + 1]
    /\ Stopped

NoFiles == [x \in {} |-> 0]

InitStore ==
    /\ inode = <<>>
    /\ live = NoFiles
    /\ durableNames = NoFiles
    /\ pendingNames = <<>>
    /\ calls = Idle
    /\ writer = NoWriter
    /\ staging = NoStaging
    /\ acked = {}
    /\ published = 0
    /\ defunct = 0
    /\ started = "running"
    /\ bound \in Bounds
    /\ tries = [publishes |-> 0, losses |-> 0, faults |-> 0, ballot |-> 1,
                loose |-> FALSE]

NextStore ==
    \/ \E t \in StoreThread : Perform(t) \/ Fail(t)
    \/ CallAppend
    \/ CallSync
    \/ CallRollover
    \/ CallReopen
    \/ CallWriteDefunct
    \/ CallCreateCheckpoint
    \/ CallFinishCheckpoint
    \/ CallCleanup
    \/ PowerLoss

SpecStore == InitStore /\ [][NextStore]_storeVars

(***************************************************************************)
(* Properties, of every directory a power loss could leave at any moment.  *)
(***************************************************************************)
CrashImages == {CrashImage(policy) : policy \in CrashPolicy}

Recovered(image) ==
    UNION {Range(Scan(image[LogFileName(d)]).records) : d \in Numbered(image, "log")}

\* What open_with says of its watermark, "durable by definition", and
\* durable_max_decree of the decrees up to it, "safe to acknowledge": a power
\* loss leaves every record of the open log below durable_len.
WatermarkDurable ==
    writer = NoWriter \/ LogFileName(writer.file) \notin DOMAIN live
    \/ \A image \in CrashImages :
          LET name == LogFileName(writer.file) IN
          IF name \in DOMAIN image THEN Scan(image[name]).stop >= writer.durable
          ELSE writer.durable = 0

\* A vote append_batch or sync returned Ok for is in the checkpoint or in the
\* records the recovery scan keeps, also in a log it rejects, with the ballot it
\* was acknowledged with or a later one; and so is every decree up to the
\* durable_max_decree the open writer reports.  The latter excludes a log that
\* was reopened, after a failed write, with records never flushed: open_with
\* takes those for durable, and they may be lost until the next flush.
AckedSurvive ==
    /\ \A image \in CrashImages :
          \A r \in {x \in acked : x.d > NewestCheckpoint(image)} :
              \E q \in Recovered(image) : q.d = r.d /\ q.v >= r.v
    /\ writer = NoWriter \/ writer.inherited \/ WatermarkDurable

\* Every checkpoint under its final name is whole, and the newest one is not
\* older than the last one whose finish returned Ok.
PublishedWhole ==
    \A image \in CrashImages :
        /\ \A c \in Numbered(image, "codex") :
            VerifyFile(image[CheckpointFileName(c)])
        /\ NewestCheckpoint(image) >= published

\* A directory whose logs open answers FetchVotes for every decree between
\* the newest checkpoint and the last one logged with all the votes from it,
\* in order and without a hole, whatever part of a retention pass was done.
\* Excluded is a store that left such a reopened log for the next one: power
\* loss may take the former's last votes and leave the latter's.
VotesContiguous ==
    tries.loose \/ \A image \in {x \in CrashImages : LogSetOpens(x)} :
        \A d \in NewestCheckpoint(image) + 1 .. LogSetMax(image) :
            LET votes == SelectSeq(VotesFrom(image, d), LAMBDA r : r.d > 0) IN
            /\ votes # <<>>
            /\ votes[1].d = d
            /\ Last(votes).d = LogSetMax(image)
            /\ \A k \in 1 .. Len(votes) - 1 : votes[k + 1].d - votes[k].d \in {0, 1}

=============================================================================
