------------------------------ MODULE FastReads ------------------------------
(***************************************************************************)
(* Fast reads of one replica: FastReadRequest, the threads of FastReadLoop *)
(* and what wakes them (legislator.cpp).                                   *)
(*                                                                         *)
(* A fast read waits until its decree is executed here, until its timeout, *)
(* or until a secondary begins to save a checkpoint.  It is then called    *)
(* back once, with ExecuteFastReadRequest if its decree is executed by     *)
(* then, else with AbortRequest.  A step is what a thread does under       *)
(* m_lock, or under m_fastReadCallbackQLock.                               *)
(***************************************************************************)
EXTENDS Naturals, SequencesExt

CONSTANTS
    Read,           \* the fast reads that clients make
    ReadThread,     \* the threads that run FastReadLoop
    SeqThreshold,   \* FastReadSeqThreshold
    MaxSeq,         \* bound: decrees executed
    MaxTime         \* bound: the clock, and every timeout

ASSUME FastReadsAssumption == {SeqThreshold, MaxSeq, MaxTime} \subseteq Nat

VARIABLES
    curSeq,      \* GetCurrentSequenceNumber()
    clock,       \* GetHiResTime()
    rdPrimary,   \* AmPrimary()
    rdSaving,    \* m_isSavingCheckpoint
    rdShutting,  \* m_isShutting
    rdStop,      \* Unload: "run", then "called" and "done" (in Stop, before
                 \* and after m_shutdownLock), then "ending" the loops
    ctx,         \* read -> its RequestCtx, [seq, at], or NoCtx before the call
    readQ,       \* m_fastReadQ, as a set
    timeoutQ,    \* m_fastReadTimeoutQ
    minReq,      \* m_minFastReadReq
    rdEvent,     \* m_fastReadWaitHandle is signalled
    callbackQ,   \* m_fastReadCallbackQ
    rpc,         \* thread -> where it is in FastReadLoop
    rdDone,      \* read -> the callbacks made with its cookie; it is deleted
                 \* with the first
    rdTouched    \* a loop has looked at a RequestCtx that was deleted

readVars == <<curSeq, clock, rdPrimary, rdSaving, rdShutting, rdStop, ctx,
              readQ, timeoutQ, minReq, rdEvent, callbackQ, rpc, rdDone,
              rdTouched>>

NoCtx == [seq |-> 0, at |-> 0]
Never == MaxSeq + SeqThreshold + 1    \* _I64_MAX, above every decree asked

InitFastReads ==
    /\ curSeq = 0 /\ clock = 0
    /\ rdPrimary \in BOOLEAN /\ rdSaving = FALSE
    /\ rdShutting = FALSE /\ rdStop = "run"
    /\ ctx = [r \in Read |-> NoCtx]
    /\ readQ = {} /\ timeoutQ = <<>> /\ callbackQ = <<>>
    /\ minReq = Never
    /\ rdEvent = TRUE
    /\ rpc = [t \in ReadThread |-> "scan"]
    /\ rdDone = [r \in Read |-> <<>>]
    /\ rdTouched = FALSE

-----------------------------------------------------------------------------
(* The client. *)

\* The place that keeps m_fastReadTimeoutQ sorted, behind equal timeouts.
InsertSorted(r, at) ==
    LET before == {i \in DOMAIN timeoutQ : ctx[timeoutQ[i]].at <= at}
        n == IF before = {} THEN 0 ELSE Max(before)
    IN  SubSeq(timeoutQ, 1, n) \o <<r>> \o
            SubSeq(timeoutQ, n + 1, Len(timeoutQ))

Smallest(m, n) == IF m <= n THEN m ELSE n

\* A read that the replica cannot serve soon is refused at once.
Refused(seq, timeout) ==
    /\ seq > curSeq
    /\ seq - curSeq > SeqThreshold \/ timeout = 0 \/ rdSaving

FastReadRequest(r, seq, timeout) ==
    /\ ctx[r] = NoCtx /\ ~rdShutting /\ ~Refused(seq, timeout)
    /\ clock + timeout <= MaxTime
    /\ ctx' = [ctx EXCEPT ![r] = [seq |-> seq, at |-> clock + timeout]]
    /\ readQ' = readQ \cup {r}
    /\ timeoutQ' = InsertSorted(r, clock + timeout)
    /\ minReq' = Smallest(minReq, seq)
    /\ rdEvent' = (rdEvent \/ curSeq >= seq)
    /\ UNCHANGED <<curSeq, clock, rdPrimary, rdSaving, rdShutting, rdStop,
                   callbackQ, rpc, rdDone, rdTouched>>

-----------------------------------------------------------------------------
(* FastReadLoop. *)

Expired(r) == clock >= ctx[r].at

\* The whole queue is searched when some read in it may be ready.
ScanAll ==
    LET aborting == ~rdPrimary /\ rdSaving
        move == {r \in readQ : curSeq >= ctx[r].seq \/ aborting \/ Expired(r)}
    IN  /\ curSeq >= minReq \/ aborting
        /\ readQ' = readQ \ move
        /\ timeoutQ' = SelectSeq(timeoutQ, LAMBDA r : r \notin move)
        /\ callbackQ' = callbackQ \o SetToSeq(move)
        /\ minReq' = Min({Never} \cup {ctx[r].seq : r \in readQ \ move})
        /\ UNCHANGED rdTouched

\* Otherwise only the reads at the head of the timeout queue that are late.
\* Stop deletes reads that stay in this queue: what a loop finds in their place
\* is undefined, here what they held (the memory has not been used again).
ScanLate ==
    LET n == Max({0} \cup {i \in DOMAIN timeoutQ :
                               \A j \in 1..i : Expired(timeoutQ[j])})
    IN  /\ curSeq < minReq /\ (rdPrimary \/ ~rdSaving)
        /\ readQ' = readQ \ {timeoutQ[i] : i \in 1..n}
        /\ callbackQ' = callbackQ \o SubSeq(timeoutQ, 1, n)
        /\ timeoutQ' = SubSeq(timeoutQ, n + 1, Len(timeoutQ))
        /\ rdTouched' = (rdTouched \/ (timeoutQ # <<>>
                                       /\ rdDone[Head(timeoutQ)] # <<>>))
        /\ UNCHANGED minReq

\* Under m_lock; then the thread has callbacks to make, or waits.
Scan(t) ==
    /\ rpc[t] = "scan" /\ rdStop # "ending"
    /\ ScanAll \/ ScanLate
    /\ rpc' = [rpc EXCEPT ![t] = IF callbackQ' = <<>> THEN "wait" ELSE "call"]
    /\ rdEvent' = (rdEvent \/ Len(callbackQ') > 2)
    /\ UNCHANGED <<curSeq, clock, rdPrimary, rdSaving, rdShutting, rdStop,
                   ctx, rdDone>>

\* The wait ends at the event, or after 100 milliseconds.
WaitEnds(t) ==
    /\ rpc[t] = "wait"
    /\ rpc' = [rpc EXCEPT ![t] = "scan"]
    /\ rdEvent' = FALSE
    /\ UNCHANGED <<curSeq, clock, rdPrimary, rdSaving, rdShutting, rdStop,
                   ctx, readQ, timeoutQ, minReq, callbackQ, rdDone, rdTouched>>

CallBackPeek(t) ==
    /\ rpc[t] = "call" /\ callbackQ # <<>>
    /\ rpc' = [rpc EXCEPT ![t] = Head(callbackQ)]
    /\ UNCHANGED <<callbackQ, curSeq, clock, rdPrimary, rdSaving, rdShutting,
                   rdStop, ctx, readQ, timeoutQ, minReq, rdEvent, rdDone,
                   rdTouched>>

\* One RequestCtx is dequeued (the thread's place is then that read) ...
CallBackTake(t) ==
    /\ rpc[t] = "call" /\ callbackQ # <<>>
    /\ rpc' = [rpc EXCEPT ![t] = Head(callbackQ)]
    /\ callbackQ' = Tail(callbackQ)
    /\ UNCHANGED <<curSeq, clock, rdPrimary, rdSaving, rdShutting, rdStop,
                   ctx, readQ, timeoutQ, minReq, rdEvent, rdDone, rdTouched>>

\* ... and called back, by the sequence number at that moment.
CallBack(t, r) ==
    /\ rpc[t] = r
    /\ rdDone' = [rdDone EXCEPT ![r] =
           Append(@, IF curSeq >= ctx[r].seq THEN "Execute" ELSE "Stale")]
    /\ rpc' = [rpc EXCEPT ![t] = "call"]
    /\ UNCHANGED <<curSeq, clock, rdPrimary, rdSaving, rdShutting, rdStop, ctx,
                   readQ, timeoutQ, minReq, rdEvent, callbackQ, rdTouched>>

CallBackEnd(t) ==
    /\ rpc[t] = "call" /\ callbackQ = <<>>
    /\ rpc' = [rpc EXCEPT ![t] = "scan"]
    /\ UNCHANGED <<curSeq, clock, rdPrimary, rdSaving, rdShutting, rdStop, ctx,
                   readQ, timeoutQ, minReq, rdEvent, callbackQ, rdDone,
                   rdTouched>>

\* MainThread_Terminate is seen between two rounds.
LoopEnds(t) ==
    /\ rpc[t] = "scan" /\ rdStop = "ending"
    /\ rpc' = [rpc EXCEPT ![t] = "ended"]
    /\ UNCHANGED <<curSeq, clock, rdPrimary, rdSaving, rdShutting, rdStop,
                   ctx, readQ, timeoutQ, minReq, rdEvent, callbackQ, rdDone,
                   rdTouched>>

LoopStep(t) ==
    \/ Scan(t) \/ WaitEnds(t) \/ CallBackTake(t) \/ CallBackEnd(t)
    \/ LoopEnds(t)
    \/ \E r \in Read : CallBack(t, r)

-----------------------------------------------------------------------------
(* The other threads. *)

\* ExecuteVote, not while the execute thread saves a checkpoint.
ExecuteDecree ==
    /\ curSeq < MaxSeq /\ ~rdSaving /\ rdStop # "ending"
    /\ curSeq' = curSeq + 1
    /\ rdEvent' = (rdEvent \/ curSeq' >= minReq)
    /\ UNCHANGED <<clock, rdPrimary, rdSaving, rdShutting, rdStop, ctx, readQ,
                   timeoutQ, minReq, callbackQ, rpc, rdDone, rdTouched>>

\* ExecuteLoop begins or ends a checkpoint.
SaveCheckpoint ==
    /\ rdStop # "ending"
    /\ rdSaving' = ~rdSaving
    /\ UNCHANGED <<curSeq, clock, rdPrimary, rdShutting, rdStop, ctx, readQ,
                   timeoutQ, minReq, rdEvent, callbackQ, rpc, rdDone,
                   rdTouched>>

Tick ==
    /\ clock < MaxTime
    /\ clock' = clock + 1
    /\ UNCHANGED <<curSeq, rdPrimary, rdSaving, rdShutting, rdStop, ctx, readQ,
                   timeoutQ, minReq, rdEvent, callbackQ, rpc, rdDone,
                   rdTouched>>

\* Stop: DeclareShutdown ...
StopReads ==
    /\ rdStop = "run"
    /\ rdStop' = "called" /\ rdShutting' = TRUE
    /\ UNCHANGED <<curSeq, clock, rdPrimary, rdSaving, ctx, readQ, timeoutQ,
                   minReq, rdEvent, callbackQ, rpc, rdDone, rdTouched>>

\* ... then m_shutdownLock, which every thread lets go only in its wait; the
\* reads left in m_fastReadQ are aborted.  m_fastReadTimeoutQ is left alone.
StopReadsEnd ==
    /\ rdStop = "called" /\ ~rdSaving
    /\ \A t \in ReadThread : rpc[t] = "wait"
    /\ rdStop' = "done"
    /\ rdDone' = [r \in Read |-> IF r \in readQ
                                 THEN Append(rdDone[r], "ShuttingDown")
                                 ELSE rdDone[r]]
    /\ readQ' = {}
    /\ UNCHANGED <<curSeq, clock, rdPrimary, rdSaving, rdShutting, ctx,
                   timeoutQ, minReq, rdEvent, callbackQ, rpc, rdTouched>>

\* StopFastReadLoops, later in Unload; StopExeLoop came before it.
StopFastReadLoops ==
    /\ rdStop = "done" /\ ~rdSaving
    /\ rdStop' = "ending" /\ rdEvent' = TRUE
    /\ UNCHANGED <<curSeq, clock, rdPrimary, rdSaving, rdShutting, ctx, readQ,
                   timeoutQ, minReq, callbackQ, rpc, rdDone, rdTouched>>

-----------------------------------------------------------------------------
NextFastReads ==
    \/ \E r \in Read, seq \in 1..(MaxSeq + 1), timeout \in 0..1 :
           FastReadRequest(r, seq, timeout)
    \/ \E t \in ReadThread : LoopStep(t)
    \/ ExecuteDecree \/ SaveCheckpoint \/ Tick
    \/ StopReads \/ StopReadsEnd \/ StopFastReadLoops

\* The threads run and time passes; nothing need be executed.
FairFastReads ==
    /\ \A t \in ReadThread : WF_readVars(LoopStep(t))
    /\ WF_readVars(Tick)

SpecFastReads ==
    InitFastReads /\ [][NextFastReads]_readVars /\ FairFastReads

-----------------------------------------------------------------------------
(* Properties. *)

\* A fast read that was accepted is called back once, although two loops and
\* Stop take reads from three queues.  The exception is a read that Stop has
\* aborted: it stays in m_fastReadTimeoutQ, where a loop that is still running
\* before StopFastReadLoops may find it again (FastReadLoop, Stop, Unload).
ReadOnce ==
    /\ rdTouched => rdStop \in {"done", "ending"}
    /\ \A r \in Read :
           Len(rdDone[r]) > 1 => rdTouched /\ rdDone[r][1] = "ShuttingDown"

\* ... and it is called back in the end: when it expires, if nothing else
\* happens to it before.
ReadAnswered ==
    \A r \in Read : ctx[r] # NoCtx ~> rdDone[r] # <<>>

\* The queues agree while the replica runs.  m_minFastReadReq is not above
\* any waiting read, so that the execute thread and the scan of the whole
\* queue miss none.  m_fastReadTimeoutQ holds the same reads as m_fastReadQ, in
\* the order of their timeouts: the scan for late reads stops at the first
\* that is not late.
ReadQueuesAgree ==
    rdStop \in {"run", "called"} =>
        /\ \A r \in readQ : minReq <= ctx[r].seq
        /\ {timeoutQ[i] : i \in DOMAIN timeoutQ} = readQ
        /\ \A i, j \in DOMAIN timeoutQ :
               i < j => /\ timeoutQ[i] # timeoutQ[j]
                        /\ ctx[timeoutQ[i]].at <= ctx[timeoutQ[j]].at
=============================================================================
