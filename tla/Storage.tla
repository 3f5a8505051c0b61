------------------------------- MODULE Storage -------------------------------
(***************************************************************************)
(* The durable state of one replica (legislator.cpp, learn_protocol.cpp):  *)
(* the log files <decree>.log, the checkpoints <decree>.codex, the cleanup *)
(* that deletes both file by file while the main thread goes on logging,   *)
(* and RestoreState, which rebuilds the replica from whatever a crash left *)
(* on the disk.                                                            *)
(*                                                                         *)
(* A log is a sequence of files; a file has the decree of its first vote   *)
(* as its name and holds Prepare and Vote records.  A checkpoint holds the *)
(* state after decree dec, the vote that follows it (m_nextVote, of ballot *)
(* next) and the m_maxBallot of its header.  A ballot is its ballotId.     *)
(***************************************************************************)
EXTENDS Integers, Sequences, SequencesExt, FiniteSets, TLC

CONSTANTS
    MaxDecree,        \* bound: no vote for a later decree is logged
    MaxBallot,        \* bound: no higher ballot is promised or accepted
    LogLen,           \* m_maxLogLen, counted in records of a file
    MaxCheckpoints,   \* m_cfg.MaxCheckpoints()
    MaxLogs,          \* m_cfg.MaxLogs()
    MaxSaves,         \* bound on the checkpoints taken or copied
    MaxRestarts       \* bound on the crashes

ASSUME StorageAssumption ==
    /\ {MaxDecree, MaxBallot, LogLen, MaxCheckpoints, MaxLogs} \subseteq Nat \ {0}
    /\ {MaxSaves, MaxRestarts} \subseteq Nat

VARIABLES
    disk,        \* disk.logs: sequence of files; disk.cps: set of checkpoints
    accepted,    \* m_maxAcceptedVote: [dec, bal]
    promised,    \* m_maxBallot
    executed,    \* m_lastExecutedDecree
    saved,       \* m_checkpointedDecree
    up,          \* FALSE: the main thread copied a checkpoint and is exiting
    writing,     \* per thread, the checkpoint in its temporary file
    cleaning,    \* per thread, the files its cleanup has still to delete
    given,       \* the highest ballot this replica logged (history)
    learned,     \* a checkpoint ahead of the log was copied (history)
    ahead,       \* the background copy of one: "no", "copying" or "kept"
    nsaves,      \* checkpoints started so far (bounded by MaxSaves)
    restarts     \* crashes so far (bounded by MaxRestarts)

storageVars == <<disk, accepted, promised, executed, saved, up, writing,
                 cleaning, given, learned, ahead, nsaves, restarts>>

\* The execute thread saves, a thread of its own copies, and the main thread
\* copies when it cannot learn from logs.
CheckpointThread == {"save", "copy", "learn"}

BallotNumber == 1 .. MaxBallot

VoteRec(d, b) == [kind |-> "Vote", dec |-> d, bal |-> b]
PrepareRec(d, b) == [kind |-> "Prepare", dec |-> d, bal |-> b]
Greater(a, b) == IF a >= b THEN a ELSE b

(***************************************************************************)
(* Writing the log.                                                        *)
(***************************************************************************)
LastFile == Len(disk.logs)

AppendRecord(rec) ==
    [disk EXCEPT !.logs[LastFile].recs = Append(@, rec)]

\* LogVote opens a new file only for a vote of a later decree.
AppendVote(rec) ==
    IF Len(disk.logs[LastFile].recs) > LogLen /\ rec.dec > accepted.dec
    THEN [disk EXCEPT !.logs = Append(@, [min |-> rec.dec, recs |-> <<rec>>])]
    ELSE AppendRecord(rec)

LogPrepare(b) ==
    /\ up
    /\ b > promised
    /\ disk' = AppendRecord(PrepareRec(accepted.dec, b))
    /\ promised' = b
    /\ given' = b
    /\ UNCHANGED <<accepted, executed, saved, up, writing, cleaning, learned,
                   ahead, nsaves, restarts>>

\* A vote for the same decree with a higher ballot, or for the next decree
\* with the same ballot: the two cases of IsNextDecree.  It is logged also when
\* its ballot is below the promise, though it is then answered NotAccepted.
LogVote(d, b) ==
    /\ up
    /\ d <= MaxDecree
    /\ \/ d = accepted.dec /\ b > accepted.bal
       \/ d = accepted.dec + 1 /\ b = accepted.bal
    /\ disk' = AppendVote(VoteRec(d, b))
    /\ accepted' = [dec |-> d, bal |-> b]
    /\ promised' = Greater(promised, b)
    /\ given' = Greater(given, b)
    /\ UNCHANGED <<executed, saved, up, writing, cleaning, learned, ahead,
                   nsaves, restarts>>

\* A vote is executed once a vote for a later decree has been accepted.
ExecuteNext ==
    /\ executed < accepted.dec - 1
    /\ executed' = executed + 1
    /\ UNCHANGED <<disk, accepted, promised, saved, up, writing, cleaning,
                   learned, ahead, nsaves, restarts, given>>

(***************************************************************************)
(* CleanupLogsAndCheckpoint lists the files, then deletes them one by one. *)
(***************************************************************************)
Oldest(cps) == CHOOSE c \in cps : \A e \in cps : c.dec <= e.dec
Newest(cps) == CHOOSE c \in cps : \A e \in cps : c.dec >= e.dec

ExtraCheckpoints(cps) ==
    {c \in cps : Cardinality({e \in cps : e.dec >= c.dec}) > MaxCheckpoints}

\* A defect: the newest checkpoint decides which logs are old.
OldLogsOfNewest(logs, cps) ==
    LET n == Cardinality({i \in 1 .. Len(logs) - MaxLogs :
                              logs[i + 1].min <= Newest(cps).dec + 1})
    IN  {logs[i].min : i \in 1 .. n}

\* The log files before the oldest checkpoint that was listed.
OldLogs(logs, cps) ==
    LET n == Cardinality({i \in 1 .. Len(logs) - MaxLogs :
                              logs[i + 1].min <= Oldest(cps).dec + 1})
    IN  {logs[i].min : i \in 1 .. n}

CleanupList(d) ==
    [cps |-> {c.dec : c \in ExtraCheckpoints(d.cps)},
     logs |-> OldLogs(d.logs, d.cps)]

NothingToClean == [cps |-> {}, logs |-> {}]

First(S) == CHOOSE x \in S : \A y \in S : x <= y

\* DeleteFileA may fail: the file stays and the loop goes on.
DeleteCheckpoint(t, gone) ==
    /\ cleaning[t].cps # {}
    /\ LET d == First(cleaning[t].cps)
       IN  /\ cleaning' = [cleaning EXCEPT ![t].cps = @ \ {d}]
           /\ disk' = IF gone
                      THEN [disk EXCEPT !.cps = {c \in @ : c.dec # d}]
                      ELSE disk
    /\ UNCHANGED <<accepted, promised, executed, saved, up, writing, learned,
                   ahead, nsaves, restarts, given>>

DeleteLog(t, gone) ==
    /\ cleaning[t].cps = {}
    /\ cleaning[t].logs # {}
    /\ LET m == First(cleaning[t].logs)
       IN  /\ cleaning' = [cleaning EXCEPT ![t].logs = @ \ {m}]
           /\ disk' = IF gone
                      THEN [disk EXCEPT !.logs =
                                SelectSeq(@, LAMBDA f : f.min # m)]
                      ELSE disk
    /\ UNCHANGED <<accepted, promised, executed, saved, up, writing, learned,
                   ahead, nsaves, restarts, given>>

(***************************************************************************)
(* Checkpoints: SaveCheckpoint takes the header under m_lock, the state    *)
(* machine then writes its state while votes are logged, CheckpointDone    *)
(* renames the temporary file.  CopyCheckpoint does the same with a header *)
(* that came from another replica.                                         *)
(***************************************************************************)

\* m_nextVote of a checkpoint at d: the last vote of the log for d + 1.
NextBallot(d) ==
    LET recs == FlattenSeq([i \in 1 .. LastFile |-> disk.logs[i].recs])
        at == {i \in 1 .. Len(recs) : /\ recs[i].kind = "Vote"
                                      /\ recs[i].dec = d + 1}
    IN  recs[CHOOSE i \in at : \A j \in at : i >= j].bal

SaveHeader ==
    [dec |-> executed, next |-> NextBallot(executed), bal |-> promised]

NoFile == [dec |-> 0, next |-> 0, bal |-> 0]

NoTempCheckpoint(t) ==
    /\ up
    /\ writing[t] = NoFile
    /\ cleaning[t] = NothingToClean
    /\ nsaves < MaxSaves

SaveCheckpoint ==
    /\ NoTempCheckpoint("save")
    /\ executed > saved
    /\ writing' = [writing EXCEPT !["save"] = SaveHeader]
    /\ nsaves' = nsaves + 1
    /\ UNCHANGED <<disk, accepted, promised, executed, saved, up, cleaning,
                   learned, ahead, restarts, given>>

\* TrySaveState failed, or the copy of the checkpoint broke off.
CheckpointFailed(t) ==
    /\ writing[t] # NoFile
    /\ writing' = [writing EXCEPT ![t] = NoFile]
    /\ ahead' = IF t = "copy" /\ ahead = "copying" THEN "no" ELSE ahead
    /\ UNCHANGED <<disk, accepted, promised, executed, saved, up, cleaning,
                   learned, nsaves, restarts, given>>

\* The header some other replica wrote at decree d, with the vote (d+1, next):
\* CopyLearnCheckpointFile raises its ballot to the local m_maxBallot.
CopiedHeader(d, next, bal) ==
    [dec |-> d, next |-> next, bal |-> Greater(bal, promised)]

\* CopyCheckpointFromSecondary or CopyStateThread, beside the main thread: any
\* checkpoint that is not older than the replica's own, also one that is ahead
\* of its log.
CopyCheckpoint(d, next, bal) ==
    /\ NoTempCheckpoint("copy")
    /\ d >= saved /\ d < MaxDecree /\ next <= bal
    /\ writing' = [writing EXCEPT !["copy"] = CopiedHeader(d, next, bal)]
    /\ ahead' = IF ahead = "no" /\ d >= accepted.dec THEN "copying" ELSE ahead
    /\ nsaves' = nsaves + 1
    /\ UNCHANGED <<disk, accepted, promised, executed, saved, up, cleaning,
                   learned, restarts, given>>

\* A replica that needs votes which are in no log any more: the main thread
\* copies a checkpoint at or past its last vote, and the process exits.
LearnCheckpoint(d, next, bal) ==
    /\ NoTempCheckpoint("learn")
    /\ d >= accepted.dec /\ d < MaxDecree /\ next <= bal
    /\ writing' = [writing EXCEPT !["learn"] = CopiedHeader(d, next, bal)]
    /\ up' = FALSE
    /\ nsaves' = nsaves + 1
    /\ UNCHANGED <<disk, accepted, promised, executed, saved, cleaning,
                   learned, ahead, restarts, given>>

\* The checkpoint c under its final name, unless that file exists.
WithCheckpoint(c) ==
    IF \E e \in disk.cps : e.dec = c.dec THEN disk
    ELSE [disk EXCEPT !.cps = @ \cup {c}]

\* MoveFileEx may fail; that is logged, and the cleanup runs all the same.
CheckpointDone(t, moved) ==
    /\ writing[t] # NoFile
    /\ LET d == IF moved THEN WithCheckpoint(writing[t]) ELSE disk
       IN  disk' = d /\ cleaning' = [cleaning EXCEPT ![t] = CleanupList(d)]
    /\ saved' = Greater(saved, writing[t].dec)
    /\ writing' = [writing EXCEPT ![t] = NoFile]
    /\ ahead' = IF t # "copy" \/ ahead # "copying" THEN ahead
                ELSE IF moved THEN "kept" ELSE "no"
    /\ learned' = (learned \/ writing[t].dec >= accepted.dec \/ ahead' = "kept")
    /\ UNCHANGED <<accepted, promised, executed, up, nsaves, restarts, given>>

(***************************************************************************)
(* RestoreState.  Replay is the fold of the log records after the newest   *)
(* checkpoint that is used.                                                *)
(***************************************************************************)
NoVote == [dec |-> 0, bal |-> 0]

\* The assertions on a record the checkpoint already covers.
CoveredRecord(m, rec) ==
    \/ m.bal >= rec.bal
    \/ rec.kind = "Prepare" /\ rec.dec = m.exec /\ rec.bal = m.bal + 1

\* A vote must follow the last one; the vote before it is then executed.
ReplayVote(m, rec) ==
    IF m.acc = NoVote
    THEN [m EXCEPT !.acc = [dec |-> rec.dec, bal |-> rec.bal],
                   !.bal = Greater(@, rec.bal)]
    ELSE [m EXCEPT
             !.ok = /\ @
                    /\ \/ rec.dec = m.acc.dec /\ rec.bal >= m.acc.bal
                       \/ rec.dec = m.acc.dec + 1 /\ rec.bal = m.acc.bal,
             !.exec = IF rec.dec = m.acc.dec + 1 THEN m.acc.dec ELSE @,
             !.acc = [dec |-> rec.dec, bal |-> rec.bal],
             !.bal = Greater(@, rec.bal)]

ReplayRecord(m, rec) ==
    CASE rec.dec <= m.exec     -> [m EXCEPT !.ok = @ /\ CoveredRecord(m, rec)]
      [] rec.kind = "Prepare"  -> [m EXCEPT !.bal = Greater(@, rec.bal)]
      [] OTHER                 -> ReplayVote(m, rec)

\* The files from the last one that starts at or before c.dec + 1.
FirstFile(c) ==
    LET at == {i \in 1 .. LastFile : disk.logs[i].min <= c.dec + 1}
    IN  IF at = {} THEN 0 ELSE CHOOSE i \in at : \A j \in at : i >= j

Replay(c) ==
    LET first == FirstFile(c)
        recs == FlattenSeq([i \in 1 .. LastFile - first + 1 |->
                                disk.logs[first + i - 1].recs])
        start == [ok |-> TRUE, acc |-> NoVote, bal |-> c.bal, exec |-> c.dec]
    IN  IF first = 0 THEN [start EXCEPT !.ok = FALSE]   \* "Missing logs"
        ELSE FoldLeft(ReplayRecord, start, recs)

\* The replica that RestoreState builds from checkpoint c, and whether the
\* next vote of c is in no log and opens a new file.
Restore(c) ==
    LET m == Replay(c)
        fresh == c.dec + 1 > m.acc.dec
        acc == IF fresh THEN [dec |-> c.dec + 1, bal |-> c.next] ELSE m.acc
    IN  [m EXCEPT !.acc = acc,
                  !.ok = @ /\ c.bal >= c.next /\ m.exec = acc.dec - 1]
        @@ [fresh |-> fresh]

Restart ==
    /\ restarts < MaxRestarts
    /\ LET r == Restore(Newest(disk.cps))
       IN  /\ r.ok
           /\ disk' = IF r.fresh
                      THEN [disk EXCEPT !.logs = Append(@,
                              [min |-> r.acc.dec,
                               recs |-> <<VoteRec(r.acc.dec, r.acc.bal)>>])]
                      ELSE disk
           /\ accepted' = r.acc
           /\ promised' = r.bal
           /\ executed' = r.exec
    /\ saved' = Newest(disk.cps).dec
    /\ up' = TRUE
    /\ writing' = [t \in CheckpointThread |-> NoFile]
    /\ cleaning' = [t \in CheckpointThread |-> NothingToClean]
    /\ ahead' = IF ahead = "copying" THEN "no" ELSE ahead
    /\ restarts' = restarts + 1
    /\ UNCHANGED <<learned, nsaves, given>>

-----------------------------------------------------------------------------

\* A bootstrapped replica (PersistMemberSet wrote checkpoint 0, RestoreState
\* opened 0.log) that has logged its first vote.
InitStorage ==
    /\ disk = [logs |-> <<[min |-> 0, recs |-> <<VoteRec(1, 1)>>]>>,
               cps |-> {NoFile}]
    /\ accepted = [dec |-> 1, bal |-> 1]
    /\ promised = 1
    /\ executed = 0
    /\ saved = 0
    /\ up = TRUE
    /\ writing = [t \in CheckpointThread |-> NoFile]
    /\ cleaning = [t \in CheckpointThread |-> NothingToClean]
    /\ given = 1
    /\ learned = FALSE
    /\ ahead = "no"
    /\ nsaves = 0
    /\ restarts = 0

NextStorage ==
    \/ \E b \in BallotNumber : LogPrepare(b)
    \/ \E d \in 1 .. MaxDecree, b \in BallotNumber : LogVote(d, b)
    \/ ExecuteNext
    \/ SaveCheckpoint
    \/ \E d \in 1 .. MaxDecree, n, b \in BallotNumber : CopyCheckpoint(d, n, b)
    \/ \E d \in 1 .. MaxDecree, n, b \in BallotNumber : LearnCheckpoint(d, n, b)
    \/ \E t \in CheckpointThread : CheckpointFailed(t)
    \/ \E t \in CheckpointThread, moved \in BOOLEAN : CheckpointDone(t, moved)
    \/ \E t \in CheckpointThread, gone \in BOOLEAN : DeleteCheckpoint(t, gone)
    \/ \E t \in CheckpointThread, gone \in BOOLEAN : DeleteLog(t, gone)
    \/ Restart

SpecStorage == InitStorage /\ [][NextStorage]_storageVars

-----------------------------------------------------------------------------

\* The replica r rebuilt from the disk has accepted what memory has.
VotesKept(r) ==
    \/ r.acc.dec > accepted.dec
    \/ r.acc.dec = accepted.dec /\ r.acc.bal >= accepted.bal

\* What RestoreState builds from the newest checkpoint passes its assertions
\* and has neither a lower m_maxBallot than before nor forgotten a vote.
RestoresNewest ==
    LET r == Restore(Newest(disk.cps))
    IN  r.ok /\ VotesKept(r) /\ r.bal >= promised

\* Whenever the process stops, in the middle of a checkpoint, of a copy or of
\* a cleanup, RestoreState passes its assertions on what is on the disk, and
\* the replica it rebuilds has neither a lower m_maxBallot than before nor
\* forgotten a vote it accepted.  One case is excluded, in which it does fail
\* an assertion or forget a promise: a copy beside the main thread brought a
\* checkpoint ahead of the log, and a ballot higher than the one in its header
\* was promised since, in records that the checkpoint covers.
RestoreComplete ==
    RestoresNewest \/ (ahead = "kept" /\ Newest(disk.cps).bal < promised)

\* RestoreState goes on to an older checkpoint when it cannot load the newest
\* one.  The logs that needs are still there, with every ballot this replica
\* promised: CleanupLogsAndCheckpoint keeps them for the oldest checkpoint it
\* keeps (unless a checkpoint ahead of the log was copied, which leaves a gap
\* in the log by design).
OlderCheckpointUsable ==
    ~learned => \A c \in disk.cps :
                   LET r == Restore(c)
                   IN  r.ok /\ VotesKept(r) /\ r.bal >= given
=============================================================================
