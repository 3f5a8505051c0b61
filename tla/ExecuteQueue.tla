---------------------------- MODULE ExecuteQueue ----------------------------
(***************************************************************************)
(* How a replica executes the decrees that have passed: the ExecuteQueue,  *)
(* its reader thread, the execute thread, checkpoints and the log files in *)
(* memory (legislator.cpp).                                                *)
(*                                                                         *)
(* The main thread hands each passed vote to Enqueue.  While the queue is  *)
(* short the vote stays in memory; otherwise it is only remembered as      *)
(* passed, and the reader thread fetches it back from the log.  The        *)
(* execute thread takes votes from the head, saves checkpoints between two *)
(* of them, and deletes the log files that a checkpoint has made useless.  *)
(*                                                                         *)
(* A step of a thread is what it does under m_lock, or between two of its  *)
(* waits.  m_callbackLock is held by the execute thread except in its wait *)
(* and while it saves (then it is shared).  A vote is its decree.          *)
(***************************************************************************)
EXTENDS Naturals, SequencesExt

CONSTANTS
    MaxVotes,        \* bound: decrees accepted
    VoteSize,        \* decree -> the bytes its vote takes
    QueueSize,       \* InMemoryExecutionQueueSize
    ReadSize,        \* c_ExecutionReadSize
    LogVotes,        \* votes after which a log file is full (MaxLogLen)
    SaveVotes,       \* decrees whose execution asks for a checkpoint
    MaxTakeovers     \* bound: elections the replica starts

ASSUME ExecuteQueueAssumption ==
    /\ MaxVotes \in Nat /\ QueueSize \in Nat /\ ReadSize \in Nat \ {0}
    /\ LogVotes \in Nat \ {0} /\ SaveVotes \subseteq Nat /\ MaxTakeovers \in Nat
    /\ VoteSize \in [1..MaxVotes -> Nat \ {0}]

VARIABLES
    queue,        \* m_toExecuteQ
    passedDec,    \* m_lastPassedDecree
    insertedDec,  \* m_lastInsertedDecree
    ioWait,       \* m_fIOWait
    readEvent,    \* m_readWaitHandle is signalled
    reader,       \* the reader thread: "loop", "wait", "read", "Terminated"
    readJob,      \* what it reads: [file, first, last]
    stopping,     \* m_paused = Thread_Terminate
    logFiles,     \* m_logFiles, each [min, max]
    acceptedDec,  \* m_maxAcceptedVote
    main,         \* the main thread: "loop", "accept" a vote, or "abort"
    role,         \* m_state: "Secondary", "Preparing" or "Primary"
    voteOut,      \* m_outstandingVote # NULL
    toldPrimary,  \* m_isPrimary
    transition,   \* m_IsTransitioningToPrimary
    exe,          \* the execute thread: where it is in its loop
    exeVote,      \* the vote it executes
    executedDec,  \* m_lastExecutedDecree
    saveAt,       \* m_saveCheckpointAtDecree
    copyAt,       \* m_copyCheckpointAtDecree
    copying,      \* the decree CopyCheckpointFromSecondary fetches, or 0
    saving,       \* m_isSavingCheckpoint
    mustSave,     \* m_mustCheckpoint
    saveAllowed,  \* m_checkpointAllowed
    checkpointed, \* m_checkpointedDecree
    takeovers     \* elections started

queueVars == <<queue, passedDec, insertedDec, ioWait, readEvent,
               reader, readJob, stopping>>
mainVars == <<acceptedDec, main, role, voteOut, toldPrimary, transition,
              takeovers>>
saveVars == <<saveAt, copyAt, copying, saving, mustSave, saveAllowed,
              checkpointed>>
exeVars == <<exe, exeVote, executedDec>>
execVars == <<queueVars, mainVars, saveVars, exeVars, logFiles>>

NoJob == [file |-> 0, first |-> 1, last |-> 0]

\* A bootstrapped replica: decree 1 is its initial vote, nothing is executed.
InitExecuteQueue ==
    /\ queue = <<>>
    /\ passedDec = 0 /\ insertedDec = 0
    /\ ioWait = FALSE
    /\ readEvent = TRUE
    /\ reader = "loop" /\ readJob = NoJob /\ stopping = FALSE
    /\ logFiles = <<[min |-> 1, max |-> 1]>>
    /\ acceptedDec = 1
    /\ main = "loop" /\ role = "Secondary"
    /\ voteOut = FALSE /\ toldPrimary = FALSE /\ transition = FALSE
    /\ exe = "top" /\ exeVote = 0 /\ executedDec = 0
    /\ saveAt = 0 /\ copyAt = 0 /\ copying = 0
    /\ saving = FALSE /\ mustSave = FALSE /\ saveAllowed = TRUE
    /\ checkpointed = 0
    /\ takeovers = 0

-----------------------------------------------------------------------------
(* The queue. *)

BytesOf(S) == MapThenSumSet(LAMBDA d : VoteSize[d], S)
SizeInBytes(q) == BytesOf({q[i] : i \in DOMAIN q})

FilesWith(files, d) ==
    {i \in DOMAIN files : files[i].min <= d /\ d <= files[i].max}

Smaller(m, n) == IF m <= n THEN m ELSE n

\* Whether the reader should fetch votes, when the queue is q, the last
\* inserted and passed decrees are ins and pas, and a read is (io) under way.
CheckRead(q, ins, pas, io, files) ==
    /\ ~io /\ ins < pas /\ SizeInBytes(q) + ReadSize < QueueSize
    /\ \E i \in FilesWith(files, ins + 1) :
           \/ BytesOf((ins + 1)..Smaller(files[i].max, pas)) >= ReadSize
           \/ i < Len(files)
           \/ SizeInBytes(q) <= QueueSize \div 2

\* A vote that need not be in memory goes there when there is room and none
\* before it is missing.
Fits(d) == SizeInBytes(queue) < QueueSize /\ d = insertedDec + 1

Enqueue(d, must) ==
    IF d = passedDec
    THEN UNCHANGED queueVars
    ELSE /\ passedDec' = d
         /\ \/ /\ must \/ Fits(d)
               /\ queue' = Append(queue, d)
               /\ insertedDec' = d
               /\ UNCHANGED readEvent
            \/ /\ ~must /\ ~Fits(d)
               /\ readEvent' = (readEvent \/ CheckRead(queue, insertedDec, d,
                                                       ioWait, logFiles))
               /\ UNCHANGED <<queue, insertedDec>>
         /\ UNCHANGED <<ioWait, reader, readJob, stopping>>

IsInMemory == insertedDec = passedDec

-----------------------------------------------------------------------------
(* The reader thread: ReadLoop. *)

\* It reads from the first missing decree to the end of the file, or of what
\* has passed, or until it has ReadSize bytes.
ReadRange(f) ==
    LET last == Smaller(f.max, passedDec)
        enough == {d \in (insertedDec + 1)..last :
                       BytesOf((insertedDec + 1)..d) >= ReadSize}
    IN  [file |-> f.min, first |-> insertedDec + 1,
         last |-> IF enough = {} THEN last ELSE Min(enough)]

ReadStart ==
    /\ reader = "loop" /\ ~stopping
    /\ CheckRead(queue, insertedDec, passedDec, ioWait, logFiles)
    /\ readJob' = ReadRange(logFiles[Min(FilesWith(logFiles, insertedDec + 1))])
    /\ ioWait' = TRUE
    /\ reader' = "read"
    /\ UNCHANGED <<queue, passedDec, insertedDec, readEvent,
                   stopping, mainVars, saveVars, exeVars, logFiles>>

ReadSleep ==
    /\ reader = "loop" /\ ~stopping
    /\ ~CheckRead(queue, insertedDec, passedDec, ioWait, logFiles)
    /\ reader' = "wait"
    /\ UNCHANGED <<queue, passedDec, insertedDec, ioWait,
                   readEvent, readJob, stopping, mainVars, saveVars, exeVars,
                   logFiles>>

ReadWake ==
    /\ reader = "wait" /\ readEvent
    /\ reader' = "loop" /\ readEvent' = FALSE
    /\ UNCHANGED <<queue, passedDec, insertedDec, ioWait,
                   readJob, stopping, mainVars, saveVars, exeVars, logFiles>>

ReadDone ==
    /\ reader = "read"
    /\ queue' = queue \o [i \in 1..(readJob.last + 1 - readJob.first) |->
                              readJob.first + i - 1]
    /\ insertedDec' = readJob.last
    /\ ioWait' = FALSE
    /\ readJob' = NoJob
    /\ reader' = "loop"
    /\ UNCHANGED <<passedDec, readEvent, stopping, mainVars, saveVars,
                   exeVars, logFiles>>

ReadTerminate ==
    /\ reader = "loop" /\ stopping
    /\ reader' = "Terminated"
    /\ UNCHANGED <<queue, passedDec, insertedDec, ioWait,
                   readEvent, readJob, stopping, mainVars, saveVars, exeVars,
                   logFiles>>

\* Stop, called from Unload when the main and execute threads have ended.
StopReader ==
    /\ ~stopping /\ main = "loop" /\ exe = "top"
    /\ stopping' = TRUE /\ readEvent' = TRUE
    /\ main' = "ended" /\ exe' = "ended"
    /\ UNCHANGED <<queue, passedDec, insertedDec, ioWait, reader, readJob,
                   acceptedDec, role, voteOut, toldPrimary, transition,
                   takeovers, saveVars, exeVote, executedDec, logFiles>>

ReaderStep == ReadStart \/ ReadSleep \/ ReadWake \/ ReadDone \/ ReadTerminate

-----------------------------------------------------------------------------
(* The main thread. *)

\* LogVote, after the write: a full file is closed at a new decree, and a
\* file that begins behind the last checkpoint calls for a new one.
LogVote(d, st) ==
    LET full == Last(logFiles).max + 1 - Last(logFiles).min >= LogVotes
        files == IF d = acceptedDec
                 THEN logFiles
                 ELSE IF full
                      THEN Append(logFiles, [min |-> d, max |-> d])
                      ELSE [logFiles EXCEPT ![Len(logFiles)].max = d]
        first == Last(files).min
        start == /\ first > checkpointed + 1
                 /\ saveAt = 0 /\ copyAt = 0
                 /\ st # "Preparing"
    IN  /\ logFiles' = files
        /\ acceptedDec' = d
        /\ copyAt' = IF start /\ st = "Primary" THEN first - 1 ELSE copyAt
        /\ saveAt' = IF start /\ st # "Primary" THEN first - 1 ELSE saveAt
        /\ mustSave' = (mustSave /\ ~(start /\ st # "Primary"))

\* LogAndAcceptVote of the next decree: the accepted vote has passed ...
AcceptVote ==
    /\ main = "loop" /\ role # "Primary" /\ acceptedDec < MaxVotes
    /\ Enqueue(acceptedDec, FALSE)
    /\ main' = "accept"
    /\ UNCHANGED <<acceptedDec, role, voteOut, toldPrimary, transition,
                   takeovers, saveVars, exeVars, logFiles>>

\* ... and the new one is logged; HandleNewVotes ends as a secondary.
LogAccepted ==
    /\ main = "accept"
    /\ LogVote(acceptedDec + 1, role)
    /\ main' = "loop" /\ role' = "Secondary"
    /\ UNCHANGED <<queueVars, voteOut, toldPrimary, transition, takeovers,
                   copying, saving, saveAllowed, checkpointed, exeVars>>

\* MoveToSecondaryOrPrepare (with AllowPrimaryPromotionWhileCatchingUp, which
\* lets it start before the queue is empty) and StartPreparing.
StartPreparing ==
    /\ main = "loop" /\ role = "Secondary" /\ takeovers < MaxTakeovers
    /\ ~saving
    /\ saveAt' = IF mustSave THEN saveAt ELSE 0
    /\ IsInMemory
    /\ role' = "Preparing" /\ takeovers' = takeovers + 1
    /\ UNCHANGED <<queueVars, acceptedDec, main, voteOut, toldPrimary,
                   transition, copyAt, copying, saving, mustSave, saveAllowed,
                   checkpointed, exeVars, logFiles>>

\* The election fails: Timer, or a NotAccepted.
GiveUpPreparing ==
    /\ main = "loop" /\ role = "Preparing"
    /\ role' = "Secondary"
    /\ UNCHANGED <<queueVars, acceptedDec, main, voteOut, toldPrimary,
                   transition, takeovers, saveVars, exeVars, logFiles>>

\* A quorum answered: the freshest vote is proposed again, at its decree.
StartBeingStablePrimary ==
    /\ main = "loop" /\ role = "Preparing"
    /\ transition' = TRUE
    /\ role' = "Primary" /\ voteOut' = TRUE
    /\ LogVote(acceptedDec, "Primary")
    /\ UNCHANGED <<queueVars, main, toldPrimary, takeovers, copying, saving,
                   saveAllowed, checkpointed, exeVars>>

\* HandleVoteAccepted from a quorum.
VotePasses ==
    /\ main = "loop" /\ role = "Primary" /\ voteOut
    /\ voteOut' = FALSE
    /\ Enqueue(acceptedDec, TRUE)
    /\ UNCHANGED <<acceptedDec, main, role, toldPrimary, transition,
                   takeovers, saveVars, exeVars, logFiles>>

CallbackLockFree == exe \in {"top", "wait"}

NotifyPrimaryOnly ==
    /\ main = "loop" /\ role = "Primary" /\ ~voteOut /\ ~toldPrimary
    /\ CallbackLockFree
    /\ toldPrimary' = TRUE
    /\ UNCHANGED <<transition, queueVars, acceptedDec, main, role, voteOut,
                   takeovers, saveVars, exeVars, logFiles>>

\* CheckNotifyStatus(true).
NotifyPrimary ==
    /\ main = "loop" /\ role = "Primary" /\ ~voteOut /\ ~toldPrimary
    /\ CallbackLockFree
    /\ toldPrimary' = TRUE /\ transition' = FALSE
    /\ UNCHANGED <<queueVars, acceptedDec, main, role, voteOut, takeovers,
                   saveVars, exeVars, logFiles>>

SendNextVote ==
    /\ main = "loop" /\ role = "Primary" /\ ~voteOut /\ toldPrimary
    /\ acceptedDec < MaxVotes
    /\ voteOut' = TRUE
    /\ LogVote(acceptedDec + 1, "Primary")
    /\ UNCHANGED <<queueVars, main, role, toldPrimary, transition, takeovers,
                   copying, saving, saveAllowed, checkpointed, exeVars>>

\* A higher ballot arrives; CheckNotifyStatus(false) begins.
LosePrimary ==
    /\ main = "loop" /\ role = "Primary"
    /\ role' = "Secondary" /\ main' = "abort"
    /\ UNCHANGED <<queueVars, acceptedDec, voteOut, toldPrimary, transition,
                   takeovers, saveVars, exeVars, logFiles>>

\* AbortReplicateRequests waits until the queue is empty and for the callback
\* lock; CheckNotifyStatus then ends the transition.
AbortReplicateRequests ==
    /\ main = "abort"
    /\ toldPrimary => queue = <<>> /\ CallbackLockFree
    /\ voteOut' = (voteOut /\ ~toldPrimary)
    /\ toldPrimary' = FALSE /\ transition' = FALSE
    /\ main' = "loop"
    /\ UNCHANGED <<queueVars, acceptedDec, role, takeovers, saveVars, exeVars,
                   logFiles>>

\* SendStatusRequestMessage, when the replica is no longer primary.
DropCopy ==
    /\ main = "loop" /\ role # "Primary" /\ copyAt # 0
    /\ copyAt' = 0
    /\ UNCHANGED <<queueVars, mainVars, saveAt, copying, saving, mustSave,
                   saveAllowed, checkpointed, exeVars, logFiles>>

\* HandleStatusResponseMsg: some replica has a checkpoint at c.
StartCopy(c) ==
    /\ main = "loop" /\ copyAt # 0 /\ c >= copyAt /\ copying = 0
    /\ copying' = c
    /\ UNCHANGED <<queueVars, mainVars, saveAt, copyAt, saving, mustSave,
                   saveAllowed, checkpointed, exeVars, logFiles>>

-----------------------------------------------------------------------------
(* Checkpoints. *)

\* CleanupLogsAndCheckpoint, on the log files in memory, when the last
\* checkpoint is at c: files whose votes are all checkpointed and executed go.
CleanupPastExecuted(c) ==
    SubSeq(logFiles,
           Max({1} \cup {i \in DOMAIN logFiles : logFiles[i].min <= c + 1}),
           Len(logFiles))

CleanupLogs(c) ==
    SubSeq(logFiles,
           Max({1} \cup {i \in DOMAIN logFiles :
                             logFiles[i].min <= Smaller(c, executedDec) + 1}),
           Len(logFiles))

CheckpointDone(c) ==
    /\ checkpointed' = Max({c, checkpointed})
    /\ logFiles' = CleanupLogs(checkpointed')

\* CopyCheckpointFromSecondary, in a thread of its own, succeeds ...
CopyDone ==
    /\ copying # 0
    /\ IF copyAt # 0 THEN CheckpointDone(copying)
                     ELSE UNCHANGED <<checkpointed, logFiles>>
    /\ copyAt' = 0 /\ copying' = 0
    /\ UNCHANGED <<queueVars, mainVars, saveAt, saving, mustSave, saveAllowed,
                   exeVars>>

\* ... or fails.
CopyFailed ==
    /\ copying # 0
    /\ copyAt' = 0 /\ copying' = 0
    /\ UNCHANGED <<queueVars, mainVars, saveAt, saving, mustSave, saveAllowed,
                   checkpointed, exeVars, logFiles>>

\* AllowSaveState, called by the application after a failure.
AllowSaveState ==
    /\ ~saveAllowed
    /\ saveAllowed' = TRUE
    /\ UNCHANGED <<queueVars, mainVars, saveAt, copyAt, copying, saving,
                   mustSave, checkpointed, exeVars, logFiles>>

-----------------------------------------------------------------------------
(* The execute thread: ExecuteLoop. *)

\* The vote at the head is executed next, unless the replica is becoming the
\* primary.
TakeHead ==
    LET take == ~transition /\ queue # <<>>
    IN  /\ exe' = IF take THEN "execute" ELSE "wait"
        /\ exeVote' = IF take THEN Head(queue) ELSE 0

ExecuteTop ==
    /\ exe = "top"
    /\ IF saveAt # 0 /\ saveAllowed /\ executedDec >= saveAt
       THEN exe' = "check" /\ UNCHANGED exeVote
       ELSE TakeHead
    /\ UNCHANGED <<queueVars, mainVars, saveVars, executedDec, logFiles>>

\* The vote after the last executed one: a checkpoint carries it.
NextVote == IF queue = <<>> THEN acceptedDec ELSE Head(queue)

\* Under m_lock: save now, or wait until that vote is there.
ExecuteCheckSave ==
    /\ exe = "check"
    /\ saving' = (NextVote = executedDec + 1 /\ saveAt # 0)
    /\ exe' = CASE NextVote # executedDec + 1 -> "wait"
                [] saving' -> "save"
                [] OTHER -> "head"
    /\ UNCHANGED <<queueVars, mainVars, saveAt, copyAt, copying, mustSave,
                   saveAllowed, checkpointed, exeVote, executedDec, logFiles>>

\* SaveCheckpoint, with the callback lock downgraded.
SaveDone ==
    /\ exe = "save"
    /\ CheckpointDone(executedDec)
    /\ exe' = "saved"
    /\ UNCHANGED <<queueVars, mainVars, saveAt, copyAt, copying, saving,
                   mustSave, saveAllowed, exeVote, executedDec>>

EndSave ==
    /\ exe = "saved"
    /\ saving' = FALSE /\ saveAt' = 0
    /\ exe' = "head"
    /\ UNCHANGED <<queueVars, mainVars, copyAt, copying, mustSave,
                   saveAllowed, checkpointed, exeVote, executedDec, logFiles>>

\* TrySaveState fails.
SaveFailed ==
    /\ exe = "save"
    /\ saving' = FALSE /\ saveAllowed' = FALSE
    /\ exe' = "head"
    /\ UNCHANGED <<queueVars, mainVars, saveAt, copyAt, copying, mustSave,
                   checkpointed, exeVote, executedDec, logFiles>>

ExecuteHead ==
    /\ exe = "head"
    /\ TakeHead
    /\ UNCHANGED <<queueVars, mainVars, saveVars, executedDec, logFiles>>

\* WaitExecuteThread returns, signalled or after 100 milliseconds.
ExecuteWait ==
    /\ exe = "wait"
    /\ exe' = "top"
    /\ UNCHANGED <<queue, passedDec, insertedDec, ioWait, readEvent, reader,
                   readJob, stopping, mainVars, saveVars, exeVote,
                   executedDec, logFiles>>

ExecuteVote ==
    /\ exe = "execute"
    /\ executedDec' = IF exeVote = executedDec + 1 THEN exeVote
                                                   ELSE executedDec
    /\ exe' = "dequeue"
    /\ UNCHANGED <<queueVars, mainVars, saveVars, exeVote, logFiles>>

\* After ExecuteVote, which may have asked for a checkpoint.
ExecuteDequeue ==
    /\ exe = "dequeue"
    /\ queue' = Tail(queue)
    /\ readEvent' = (readEvent \/ CheckRead(Tail(queue), insertedDec,
                                            passedDec, ioWait, logFiles))
    /\ saveAt' = IF exeVote \in SaveVotes THEN executedDec ELSE saveAt
    /\ mustSave' = (mustSave \/ exeVote \in SaveVotes)
    /\ exe' = "top" /\ exeVote' = 0
    /\ UNCHANGED <<passedDec, insertedDec, ioWait, reader, readJob, stopping,
                   mainVars, copyAt, copying, saving, saveAllowed,
                   checkpointed, executedDec, logFiles>>

ExecuteStep ==
    \/ ExecuteTop \/ ExecuteCheckSave \/ SaveDone \/ EndSave \/ SaveFailed
    \/ ExecuteHead \/ ExecuteWait \/ ExecuteVote \/ ExecuteDequeue

-----------------------------------------------------------------------------
MainStep ==
    \/ AcceptVote \/ LogAccepted \/ StartPreparing \/ GiveUpPreparing
    \/ StartBeingStablePrimary \/ VotePasses \/ NotifyPrimary \/ SendNextVote
    \/ LosePrimary \/ AbortReplicateRequests \/ DropCopy
    \/ \E c \in 1..acceptedDec - 1 : StartCopy(c)

NextExecuteQueue ==
    \/ MainStep \/ ReaderStep \/ StopReader \/ ExecuteStep
    \/ CopyDone \/ CopyFailed \/ AllowSaveState

\* Every thread that can run does.  A thread that waits for the callback lock
\* gets it (a waiting writer goes before a new one).  The main thread finishes
\* what it began; an outstanding vote passes or another primary takes over,
\* since a primary whose vote stays outstanding terminates
\* (ReSendCurrentVote).
FairExecuteQueue ==
    /\ WF_execVars(ReaderStep) /\ WF_execVars(ExecuteStep)
    /\ WF_execVars(LogAccepted)
    /\ SF_execVars(NotifyPrimary) /\ SF_execVars(AbortReplicateRequests)
    /\ WF_execVars(VotePasses \/ LosePrimary)

SpecExecuteQueue ==
    InitExecuteQueue /\ [][NextExecuteQueue]_execVars /\ FairExecuteQueue

-----------------------------------------------------------------------------
(* Properties. *)

\* The queue holds, in order and without a gap, the votes from the one after
\* the last executed (or that one itself, until it is dequeued) to
\* m_lastInsertedDecree: what Enqueue, the reader's Append and Dequeue keep
\* between them, and what the assertion in ExecuteVote rests on.
QueueContiguous ==
    LET done == executedDec - (IF exe = "dequeue" THEN 1 ELSE 0)
    IN  queue = [i \in 1..(insertedDec - done) |-> done + i]

\* The assertion in Enqueue: when a primary's vote passes, nothing that has
\* passed before is only on disk (checked before the election, by IsInMemory).
PrimaryInMemory ==
    (role = "Primary" /\ voteOut /\ passedDec # acceptedDec) =>
        passedDec = insertedDec

\* The reader's log file is still open: the assertion logFile != NULL in
\* CheckRead, and the object that the read uses outside m_lock.  Cleanup must
\* not delete a file that holds a passed vote which is not yet in memory.
LogFileKept ==
    /\ insertedDec < passedDec => FilesWith(logFiles, insertedDec + 1) # {}
    /\ reader = "read" => \E i \in DOMAIN logFiles :
                              /\ logFiles[i].min = readJob.file
                              /\ readJob.last <= logFiles[i].max

\* InMemoryExecutionQueueSize bounds the memory of a replica that is not
\* elected: without its last vote, the queue is below the limit.
QueueBounded ==
    takeovers = 0 /\ queue # <<>> => SizeInBytes(Front(queue)) < QueueSize

\* Every decree that passes is executed in the end (unless the reader is
\* being stopped): no wake-up of the reader or of the execute thread is lost,
\* and no checkpoint, election or abort blocks execution for ever.
PassedExecuted ==
    \A d \in 1..MaxVotes :
        passedDec >= d ~> (executedDec >= d \/ stopping)

\* No thread that another waits for gets stuck.  A primary that loses its
\* role gets through AbortReplicateRequests, which waits for the execute
\* thread to empty the queue (legislator.cpp:2410).  Stop returns: the reader
\* thread ends, wherever it was.
NoThreadStuck ==
    /\ main = "abort" ~> main # "abort"
    /\ stopping ~> reader = "Terminated"
=============================================================================
