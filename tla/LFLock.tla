------------------------------- MODULE LFLock --------------------------------
(***************************************************************************)
(* The reader-writer lock of the LF library with its own events (LF.c,     *)
(* LFLockAcquireEx and LFLockRelease): a state word that threads change by *)
(* compare-and-swap, an auto-reset event for waiting writers, a semaphore  *)
(* for waiting readers.                                                    *)
(*                                                                         *)
(* A read of the word and the compare-and-swap that follows are one step:  *)
(* a swap that fails has no effect and starts over.  What happens after a  *)
(* swap is a step of its own: the signal of a release, the check of a      *)
(* thread that was woken.  dwThreadID is set and cleared with the swap; a  *)
(* thread only compares it with its own id.                                *)
(***************************************************************************)
EXTENDS LockState, FiniteSets

CONSTANTS
    Thread,
    Modes,       \* [flag, spins, respins]: the lock's Flag, the fWaitSpin of
                 \* its calls, and that of calls by the exclusive owner
    Waits,       \* subset of {"try", "timed", "forever"}: LF_LOCK_TRY, a
                 \* finite dwMilliseconds, INFINITE
    MaxLockCalls \* bound: acquire, upgrade and downgrade calls, in all

ASSUME LFLockAssumption ==
    /\ IsFiniteSet(Thread) /\ Waits \subseteq {"try", "timed", "forever"}
    /\ MaxLockCalls \in Nat
    /\ \A m \in Modes : m.flag \in {-1, 0, 1} /\ m.spins \subseteq BOOLEAN
                            /\ m.respins \subseteq BOOLEAN

VARIABLES
    mode,        \* the mode of this lock
    word,        \* State
    owner,       \* dwThreadID, {} for THREAD_ID_NONE
    recursion,   \* dwRecursion
    readers,     \* the count of the semaphore ReadersEvent
    writer,      \* WriterEvent is set
    pc,          \* where a thread is in its call; "idle" outside
    call,        \* its call: [op, fWaitSpin, wait]
    sh, ex,      \* the shared and exclusive locks a thread holds
    calls        \* calls still to come (bounded by MaxLockCalls)

lockVars == <<mode, word, owner, recursion, readers, writer, pc, call, sh, ex,
              calls>>

Idle == [op |-> "none", fWaitSpin |-> FALSE, wait |-> "forever", n |-> 0]

Begin(t) ==
    /\ pc[t] = "idle" /\ calls > 0
    /\ calls' = calls - 1

Return(t) ==
    /\ pc' = [pc EXCEPT ![t] = "idle"]
    /\ call' = [call EXCEPT ![t] = Idle]

\* The call c of thread t goes on at p.
Continue(t, p, c) ==
    /\ pc' = [pc EXCEPT ![t] = p]
    /\ call' = [call EXCEPT ![t] = c]

Registered(t, op, fWaitSpin, wait) ==
    Continue(t, IF word.spin THEN "spin" ELSE "wait",
             [op |-> op, fWaitSpin |-> fWaitSpin, wait |-> wait, n |-> 0])

\* SetEvent or ReleaseSemaphore follows the compare-and-swap, if kind # "".
ThenSignal(t, kind, n) ==
    IF kind = "" THEN Return(t)
    ELSE Continue(t, "signal", [Idle EXCEPT !.op = kind, !.n = n])

HoldShared(t) == sh' = [sh EXCEPT ![t] = @ + 1]
HoldExclusive(t) == ex' = [ex EXCEPT ![t] = @ + 1] /\ owner' = {t}

(***************************************************************************)
(* LF_LOCK_SHARED                                                          *)
(***************************************************************************)

AcquireSharedOwner(t, fWaitSpin) ==
    /\ mode.flag >= 0 /\ owner = {t} /\ fWaitSpin \in mode.respins
    /\ Begin(t)
    /\ IF mode.flag = 0 THEN UNCHANGED <<word, sh>>   \* ERROR_LF_LOCK_RECURSE
       ELSE word' = GrantShared(word, fWaitSpin, FALSE) /\ HoldShared(t)
    /\ UNCHANGED <<mode, owner, recursion, readers, writer, pc, call, ex>>

AcquireShared(t, fWaitSpin, wait) ==
    /\ sh[t] = 0 /\ ex[t] = 0 /\ fWaitSpin \in mode.spins
    /\ Begin(t)
    /\ CASE ~ExAll(word) ->
              /\ word' = GrantShared(word, fWaitSpin, FALSE)
              /\ HoldShared(t)
              /\ UNCHANGED <<pc, call>>
         [] ExAll(word) /\ wait = "try" -> UNCHANGED <<word, sh, pc, call>>
         [] OTHER ->
              /\ word' = [word EXCEPT !.shw = @ + 1]
              /\ Registered(t, "shared", fWaitSpin, wait)
              /\ sh' = sh
    /\ UNCHANGED <<mode, owner, recursion, readers, writer, ex>>

SpinShared(t) ==
    /\ pc[t] = "spin" /\ call[t].op = "shared"
    /\ ~ExAll(word)
    /\ word' = GrantShared(word, call[t].fWaitSpin, TRUE)
    /\ HoldShared(t) /\ Return(t)
    /\ UNCHANGED <<mode, owner, recursion, readers, writer, ex, calls>>

WaitShared(t) ==
    /\ pc[t] = "wait" /\ call[t].op = "shared"
    /\ readers > 0 /\ readers' = readers - 1
    /\ Continue(t, "woken", call[t])
    /\ UNCHANGED <<mode, word, owner, recursion, writer, sh, ex, calls>>

WokenShared(t) ==
    /\ pc[t] = "woken" /\ call[t].op = "shared"
    /\ IF ExAll(word)
       THEN Continue(t, "wait", call[t]) /\ UNCHANGED <<word, sh>>  \* bogus
       ELSE /\ word' = GrantShared(word, call[t].fWaitSpin, TRUE)
            /\ HoldShared(t) /\ Return(t)
    /\ UNCHANGED <<mode, owner, recursion, readers, writer, ex, calls>>

TimeoutShared(t) ==
    /\ pc[t] = "wait" /\ call[t].op = "shared" /\ call[t].wait = "timed"
    /\ word' = [word EXCEPT !.shw = @ - 1]
    /\ Return(t)
    /\ UNCHANGED <<mode, owner, recursion, readers, writer, sh, ex, calls>>

(***************************************************************************)
(* LF_LOCK_EXCLUSIVE                                                       *)
(***************************************************************************)

\* The owner acquires again.  To clear SpinWait the code swaps the word it
\* read in if the word is the one it read without the bit: a set bit keeps it
\* in the loop.
AcquireExclusiveOwner(t, fWaitSpin) ==
    /\ mode.flag >= 0 /\ owner = {t} /\ fWaitSpin \in mode.respins
    /\ Begin(t)
    /\ IF mode.flag = 0 THEN UNCHANGED <<recursion, ex, pc, call>>
       ELSE /\ recursion' = recursion + 1
            /\ ex' = [ex EXCEPT ![t] = @ + 1]
            /\ IF ~fWaitSpin /\ word.spin
               THEN Continue(t, "clear", Idle)
               ELSE UNCHANGED <<pc, call>>
    /\ UNCHANGED <<mode, word, owner, readers, writer, sh>>

ClearSpin(t) ==
    /\ pc[t] = "clear"
    /\ ~word.spin
    /\ Return(t)
    /\ UNCHANGED <<mode, word, owner, recursion, readers, writer, sh, ex, calls>>

AcquireExclusive(t, fWaitSpin, wait) ==
    /\ sh[t] = 0 /\ ex[t] = 0 /\ fWaitSpin \in mode.spins
    /\ Begin(t)
    /\ CASE ExclusiveFree(word) ->
              /\ word' = GrantExclusive(word, fWaitSpin, FALSE)
              /\ HoldExclusive(t)
              /\ UNCHANGED <<pc, call>>
         [] ~ExclusiveFree(word) /\ wait = "try" ->
              UNCHANGED <<word, owner, ex, pc, call>>
         [] OTHER ->
              /\ word' = [word EXCEPT !.exw = @ + 1]
              /\ Registered(t, "exclusive", fWaitSpin, wait)
              /\ UNCHANGED <<owner, ex>>
    /\ UNCHANGED <<mode, recursion, readers, writer, sh>>

\* A defect: a spinning writer does not look at the readers.
SpinExclusiveActive(t) ==
    /\ pc[t] = "spin" /\ call[t].op = "exclusive"
    /\ ~word.exa /\ ~word.exu
    /\ word' = GrantExclusive(word, call[t].fWaitSpin, TRUE)
    /\ HoldExclusive(t) /\ Return(t)
    /\ UNCHANGED <<mode, recursion, readers, writer, sh, calls>>

SpinExclusive(t) ==
    /\ pc[t] = "spin" /\ call[t].op = "exclusive"
    /\ ~ActiveAllOrExUpgrade(word)
    /\ word' = GrantExclusive(word, call[t].fWaitSpin, TRUE)
    /\ HoldExclusive(t) /\ Return(t)
    /\ UNCHANGED <<mode, recursion, readers, writer, sh, calls>>

\* WriterEvent wakes one thread, a writer or the one that upgrades.
WaitWriter(t) ==
    /\ pc[t] = "wait" /\ call[t].op \in {"exclusive", "upgrade"}
    /\ writer /\ writer' = FALSE
    /\ Continue(t, "woken", call[t])
    /\ UNCHANGED <<mode, word, owner, recursion, readers, sh, ex, calls>>

WokenExclusive(t) ==
    /\ pc[t] = "woken" /\ call[t].op = "exclusive"
    /\ IF ActiveAllOrExUpgrade(word)
       THEN /\ Continue(t, "wait", call[t])             \* bogus event
            /\ writer' = (writer \/ word.exu)           \* let the upgrade go
            /\ UNCHANGED <<word, owner, ex>>
       ELSE /\ word' = GrantExclusive(word, call[t].fWaitSpin, TRUE)
            /\ HoldExclusive(t) /\ Return(t)
            /\ writer' = writer
    /\ UNCHANGED <<mode, recursion, readers, sh, calls>>

\* The word after a writer gave up: the last one lets the readers go.
GiveUp(t, w) ==
    /\ word' = w
    /\ IF ~ExAll(w) /\ w.shw > 0 THEN ThenSignal(t, "readers", w.shw)
       ELSE Return(t)

\* A defect: a writer that gives up leaves the waiting readers alone.
TimeoutExclusiveQuietly(t) ==
    /\ pc[t] = "wait" /\ call[t].op = "exclusive" /\ call[t].wait = "timed"
    /\ word' = [word EXCEPT !.exw = @ - 1] /\ Return(t)
    /\ UNCHANGED <<mode, owner, recursion, readers, writer, sh, ex, calls>>

TimeoutExclusive(t) ==
    /\ pc[t] = "wait" /\ call[t].op = "exclusive" /\ call[t].wait = "timed"
    /\ GiveUp(t, [word EXCEPT !.exw = @ - 1])
    /\ UNCHANGED <<mode, owner, recursion, readers, writer, sh, ex, calls>>

(***************************************************************************)
(* LF_LOCK_DOWNGRADE, LF_LOCK_UPGRADE_SAFELY and LF_LOCK_UPGRADE_IGNORE    *)
(***************************************************************************)

Downgrade(t, fWaitSpin) ==
    /\ ex[t] > 0 /\ fWaitSpin \in mode.respins
    /\ Begin(t)
    /\ ex' = [ex EXCEPT ![t] = @ - 1]
    /\ HoldShared(t)
    /\ LET w == [word EXCEPT !.exa = recursion > 0, !.sha = @ + 1,
                             !.spin = fWaitSpin]
       IN  /\ word' = w
           /\ IF recursion > 0
              THEN recursion' = recursion - 1 /\ UNCHANGED <<owner, pc, call>>
              ELSE /\ recursion' = recursion
                   /\ owner' = {}
                   /\ ThenSignal(t, IF w.exw = 0 /\ w.shw > 0 THEN "readers"
                                    ELSE "", w.shw)
    /\ UNCHANGED <<mode, readers, writer>>

UpgradeOwner(t, fWaitSpin) ==
    /\ mode.flag > 0 /\ owner = {t} /\ sh[t] > 0 /\ fWaitSpin \in mode.respins
    /\ Begin(t)
    /\ word' = [word EXCEPT !.sha = @ - 1, !.spin = @ /\ fWaitSpin]
    /\ recursion' = recursion + 1
    /\ sh' = [sh EXCEPT ![t] = @ - 1]
    /\ ex' = [ex EXCEPT ![t] = @ + 1]
    /\ UNCHANGED <<mode, owner, readers, writer, pc, call>>

\* A pending upgrade makes another fail, and so does a waiting writer if the
\* caller wants to be safe.
Upgrade(t, safely, fWaitSpin, wait) ==
    /\ sh[t] = 1 /\ ex[t] = 0 /\ fWaitSpin \in mode.spins
    /\ Begin(t)
    /\ LET w == [word EXCEPT !.sha = @ - 1]
           refused == word.exu \/ (safely /\ word.exw > 0)
       IN  CASE refused \/ (ActiveAll(w) /\ wait = "try") ->
                  UNCHANGED <<word, owner, sh, ex, pc, call>>
             [] ~refused /\ ~ActiveAll(w) ->
                  /\ word' = GrantExclusive(w, fWaitSpin, FALSE)
                  /\ sh' = [sh EXCEPT ![t] = 0]
                  /\ HoldExclusive(t)
                  /\ UNCHANGED <<pc, call>>
             [] OTHER ->
                  /\ word' = [w EXCEPT !.exw = @ + 1, !.exu = TRUE]
                  /\ sh' = [sh EXCEPT ![t] = 0]
                  /\ Registered(t, "upgrade", fWaitSpin, wait)
                  /\ UNCHANGED <<owner, ex>>
    /\ UNCHANGED <<mode, recursion, readers, writer>>

SpinUpgrade(t) ==
    /\ pc[t] = "spin" /\ call[t].op = "upgrade"
    /\ ~ActiveAll(word)
    /\ word' = GrantUpgrade(word, call[t].fWaitSpin)
    /\ HoldExclusive(t) /\ Return(t)
    /\ UNCHANGED <<mode, recursion, readers, writer, sh, calls>>

WokenUpgrade(t) ==
    /\ pc[t] = "woken" /\ call[t].op = "upgrade"
    /\ IF ActiveAll(word)
       THEN Continue(t, "wait", call[t]) /\ UNCHANGED <<word, owner, ex>>
       ELSE /\ word' = GrantUpgrade(word, call[t].fWaitSpin)
            /\ HoldExclusive(t) /\ Return(t)
    /\ UNCHANGED <<mode, recursion, readers, writer, sh, calls>>

TimeoutUpgrade(t) ==
    /\ pc[t] = "wait" /\ call[t].op = "upgrade" /\ call[t].wait = "timed"
    /\ GiveUp(t, CancelUpgrade(word))
    /\ HoldShared(t)
    /\ UNCHANGED <<mode, owner, recursion, readers, writer, ex, calls>>

(***************************************************************************)
(* Spinning ends, releases and their signals                               *)
(***************************************************************************)

\* SPIN_COUNT rounds without the lock, or SpinWait was cleared.
SpinEnd(t) ==
    /\ pc[t] = "spin"
    /\ Continue(t, "wait", call[t])
    /\ UNCHANGED <<mode, word, owner, recursion, readers, writer, sh, ex, calls>>

ReleaseShared(t) ==
    /\ pc[t] = "idle" /\ sh[t] > 0
    /\ LET w == [word EXCEPT !.sha = @ - 1]
       IN  /\ word' = w
           /\ ThenSignal(t, IF ~ActiveAll(w) /\ w.exw > 0 THEN "writer" ELSE "",
                         0)
    /\ sh' = [sh EXCEPT ![t] = @ - 1]
    /\ UNCHANGED <<mode, owner, recursion, readers, writer, ex, calls>>

ReleaseExclusive(t) ==
    /\ pc[t] = "idle" /\ ex[t] > 0
    /\ ex' = [ex EXCEPT ![t] = @ - 1]
    /\ IF recursion > 0
       THEN recursion' = recursion - 1 /\ UNCHANGED <<word, owner, pc, call>>
       ELSE LET w == [word EXCEPT !.exa = FALSE]
            IN  /\ word' = w
                /\ owner' = {}
                /\ recursion' = recursion
                /\ CASE w.exw > 0 ->
                          ThenSignal(t, IF w.sha = 0 THEN "writer" ELSE "", 0)
                     [] w.exw = 0 /\ w.shw > 0 -> ThenSignal(t, "readers", w.shw)
                     [] OTHER -> Return(t)
    /\ UNCHANGED <<mode, readers, writer, sh, calls>>

Signal(t) ==
    /\ pc[t] = "signal"
    /\ IF call[t].op = "writer"
       THEN writer' = TRUE /\ readers' = readers
       ELSE readers' = readers + call[t].n /\ writer' = writer
    /\ Return(t)
    /\ UNCHANGED <<mode, word, owner, recursion, sh, ex, calls>>

-----------------------------------------------------------------------------

InitLFLock ==
    /\ mode \in Modes
    /\ word = FreeWord
    /\ owner = {} /\ recursion = 0
    /\ readers = 0 /\ writer = FALSE
    /\ pc = [t \in Thread |-> "idle"]
    /\ call = [t \in Thread |-> Idle]
    /\ sh = [t \in Thread |-> 0] /\ ex = [t \in Thread |-> 0]
    /\ calls = MaxLockCalls

NextLFLock ==
    \E t \in Thread :
        \/ \E s \in BOOLEAN : AcquireSharedOwner(t, s)
        \/ \E s \in BOOLEAN, w \in Waits : AcquireShared(t, s, w)
        \/ \E s \in BOOLEAN : AcquireExclusiveOwner(t, s)
        \/ \E s \in BOOLEAN, w \in Waits : AcquireExclusive(t, s, w)
        \/ \E s \in BOOLEAN : Downgrade(t, s)
        \/ \E s \in BOOLEAN : UpgradeOwner(t, s)
        \/ \E s, safely \in BOOLEAN, w \in Waits : Upgrade(t, safely, s, w)
        \/ ClearSpin(t)
        \/ SpinShared(t)
        \/ SpinExclusive(t)
        \/ SpinUpgrade(t)
        \/ SpinEnd(t)
        \/ WaitShared(t)
        \/ WaitWriter(t)
        \/ WokenShared(t)
        \/ WokenExclusive(t)
        \/ WokenUpgrade(t)
        \/ TimeoutShared(t)
        \/ TimeoutExclusive(t)
        \/ TimeoutUpgrade(t)
        \/ ReleaseShared(t)
        \/ ReleaseExclusive(t)
        \/ Signal(t)

\* A thread that runs goes on, and a caller gives back what it holds.
LockStep(t) ==
    \/ ClearSpin(t) \/ SpinEnd(t) \/ WokenShared(t) \/ WokenExclusive(t)
    \/ WokenUpgrade(t) \/ Signal(t) \/ ReleaseShared(t) \/ ReleaseExclusive(t)

\* An event or a semaphore serves the threads that wait for it in turn.
WakeStep(t) == WaitShared(t) \/ WaitWriter(t)

FairLFLock ==
    \A t \in Thread : WF_lockVars(LockStep(t)) /\ SF_lockVars(WakeStep(t))

SpecLFLock == InitLFLock /\ [][NextLFLock]_lockVars /\ FairLFLock

-----------------------------------------------------------------------------

\* An exclusive lock excludes every lock of another thread, through upgrades,
\* downgrades, overtaking spinners and timeouts (LFLockAcquireEx).
MutualExclusion ==
    \A t \in Thread :
        ex[t] > 0 => \A u \in Thread \ {t} : ex[u] = 0 /\ sh[u] = 0

\* When no thread can go on and nobody holds the lock, nobody waits for it:
\* no wakeup is lost, whichever writers gave up or were woken for somebody
\* else (LFLockRelease).
LockWakesWaiters ==
    (\A t \in Thread :
         \/ pc[t] = "idle" /\ sh[t] = 0 /\ ex[t] = 0
         \/ /\ pc[t] = "wait"
            /\ IF call[t].op = "shared" THEN readers = 0 ELSE ~writer)
    => \A t \in Thread : pc[t] = "idle"

=============================================================================
