------------------------------ MODULE LFExLock -------------------------------
(***************************************************************************)
(* The fast exclusive lock of LF.c (LFExLockAcquireEx, LFExLockRelease): a *)
(* word with the bits RELEASED and SPIN and a count of waiting threads,    *)
(* and one auto-reset event.  A read of the word and the compare-and-swap  *)
(* that follows are one step, as in module LFLock.                         *)
(***************************************************************************)
EXTENDS Integers, FiniteSets

CONSTANTS
    ExThread,
    ExFlags,      \* Flag: 1 recursion allowed, 0 watch thread, -1 nothing
    ExWaits,      \* of {"try", "timed", "forever"}; "try" is a timeout of 0
    MaxExCalls    \* bound: acquire calls, in all

ASSUME LFExLockAssumption ==
    /\ IsFiniteSet(ExThread) /\ ExFlags \subseteq {-1, 0, 1}
    /\ ExWaits \subseteq {"try", "timed", "forever"} /\ MaxExCalls \in Nat

VARIABLES
    xflag,
    xword,        \* State: [released, spin, waiting]
    xevent,       \* Event is set
    xowner,       \* dwThreadID, {} for THREAD_ID_NONE
    xdepth,       \* dwRecursion
    xat,          \* where a thread is in its call; "idle" outside
    xcall,        \* its call: [spin, wait]
    xheld,        \* times a thread holds the lock
    xcalls        \* acquire calls still to come

exVars == <<xflag, xword, xevent, xowner, xdepth, xat, xcall, xheld, xcalls>>

NoExCall == [spin |-> FALSE, wait |-> "forever"]

GotoX(t, p, c) ==
    /\ xat' = [xat EXCEPT ![t] = p]
    /\ xcall' = [xcall EXCEPT ![t] = c]

\* The caller has the lock, and its fWaitSpin says whether others spin for it;
\* n is what it leaves of the waiting count.
ObtainX(t, spin, n) ==
    /\ xword' = [released |-> FALSE, spin |-> spin, waiting |-> xword.waiting - n]
    /\ xowner' = IF xflag >= 0 THEN {t} ELSE {}
    /\ xheld' = [xheld EXCEPT ![t] = @ + 1]
    /\ GotoX(t, "idle", NoExCall)

\* A recursive acquire is counted, or refused.
ExAcquireOwner(t) ==
    /\ xat[t] = "idle" /\ xcalls > 0 /\ xflag >= 0 /\ xowner = {t}
    /\ xcalls' = xcalls - 1
    /\ IF xflag = 0 THEN UNCHANGED <<xdepth, xheld>>
       ELSE xdepth' = xdepth + 1 /\ xheld' = [xheld EXCEPT ![t] = @ + 1]
    /\ UNCHANGED <<xflag, xword, xevent, xowner, xat, xcall>>

\* A released lock is taken at once if nobody waits, or everybody spins.
ExAcquire(t, spin, wait) ==
    /\ xat[t] = "idle" /\ xcalls > 0 /\ xheld[t] = 0
    /\ xcalls' = xcalls - 1
    /\ CASE xword.released /\ (xword.spin \/ xword.waiting = 0) -> ObtainX(t, spin, 0)
         [] ~(xword.released /\ (xword.spin \/ xword.waiting = 0))
              /\ ~xword.spin /\ wait = "try" ->
              UNCHANGED <<xword, xowner, xheld, xat, xcall>>
         [] OTHER ->
              /\ xword' = [xword EXCEPT !.waiting = @ + 1]
              /\ GotoX(t, IF xword.spin THEN "spin" ELSE "wait",
                       [spin |-> spin, wait |-> wait])
              /\ UNCHANGED <<xowner, xheld>>
    /\ UNCHANGED <<xflag, xevent, xdepth>>

ExSpin(t) ==
    /\ xat[t] = "spin" /\ xword.released
    /\ ObtainX(t, xcall[t].spin, 1)
    /\ UNCHANGED <<xflag, xevent, xdepth, xcalls>>

\* SPIN_COUNT attempts, or the lock is no longer one to spin for.
ExSpinEnd(t) ==
    /\ xat[t] = "spin"
    /\ GotoX(t, "wait", xcall[t])
    /\ UNCHANGED <<xflag, xword, xevent, xowner, xdepth, xheld, xcalls>>

ExWait(t) ==
    /\ xat[t] = "wait" /\ xcall[t].wait # "try" /\ xevent
    /\ xevent' = FALSE
    /\ GotoX(t, "woken", xcall[t])
    /\ UNCHANGED <<xflag, xword, xowner, xdepth, xheld, xcalls>>

\* The event may be one that was set for somebody else.
ExWoken(t) ==
    /\ xat[t] = "woken"
    /\ IF xword.released THEN ObtainX(t, xcall[t].spin, 1)
       ELSE GotoX(t, "wait", xcall[t]) /\ UNCHANGED <<xword, xowner, xheld>>
    /\ UNCHANGED <<xflag, xevent, xdepth, xcalls>>

ExWaitFails(t) ==
    /\ xat[t] = "wait" /\ xcall[t].wait \in {"try", "timed"}
    /\ xword' = [xword EXCEPT !.waiting = @ - 1]
    /\ GotoX(t, "idle", NoExCall)
    /\ UNCHANGED <<xflag, xevent, xowner, xdepth, xheld, xcalls>>

\* LFExLockRelease
ExRelease(t) ==
    /\ xat[t] = "idle" /\ xheld[t] > 0
    /\ xheld' = [xheld EXCEPT ![t] = @ - 1]
    /\ IF xdepth > 0
       THEN xdepth' = xdepth - 1 /\ UNCHANGED <<xword, xowner, xat, xcall>>
       ELSE /\ xword' = [xword EXCEPT !.released = TRUE]
            /\ xowner' = {}
            /\ GotoX(t, IF xword.waiting > 0 THEN "signal" ELSE "idle", NoExCall)
            /\ xdepth' = xdepth
    /\ UNCHANGED <<xflag, xevent, xcalls>>

ExSignal(t) ==
    /\ xat[t] = "signal"
    /\ xevent' = TRUE
    /\ GotoX(t, "idle", NoExCall)
    /\ UNCHANGED <<xflag, xword, xowner, xdepth, xheld, xcalls>>

-----------------------------------------------------------------------------

\* LFExLockCreateBase
InitLFExLock ==
    /\ xflag \in ExFlags
    /\ xword = [released |-> TRUE, spin |-> FALSE, waiting |-> 0]
    /\ xevent = FALSE /\ xowner = {} /\ xdepth = 0
    /\ xat = [t \in ExThread |-> "idle"]
    /\ xcall = [t \in ExThread |-> NoExCall]
    /\ xheld = [t \in ExThread |-> 0]
    /\ xcalls = MaxExCalls

NextLFExLock ==
    \E t \in ExThread :
        \/ ExAcquireOwner(t)
        \/ \E s \in BOOLEAN, w \in ExWaits : ExAcquire(t, s, w)
        \/ ExSpin(t)
        \/ ExSpinEnd(t)
        \/ ExWait(t)
        \/ ExWoken(t)
        \/ ExWaitFails(t)
        \/ ExRelease(t)
        \/ ExSignal(t)

SpecLFExLock == InitLFExLock /\ [][NextLFExLock]_exVars

-----------------------------------------------------------------------------

\* LFExLockAcquireEx: one thread at most holds the exclusive lock.
ExMutualExclusion == Cardinality({t \in ExThread : xheld[t] > 0}) <= 1

\* When no thread can go on and nobody holds the lock, nobody waits for it.
ExWakesWaiters ==
    (\A t \in ExThread :
         \/ xat[t] = "idle" /\ xheld[t] = 0
         \/ xat[t] = "wait" /\ ~xevent)
    => \A t \in ExThread : xat[t] = "idle"
=============================================================================
