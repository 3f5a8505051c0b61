------------------------------ MODULE LockState ------------------------------
(***************************************************************************)
(* The state word of a reader-writer lock of the LF library (LF.c), and    *)
(* what every compare-and-swap on it does.  A lock with its own events     *)
(* (module LFLock) and a lock that borrows them from a pool (module        *)
(* LFPool) keep the same counters in different bits:                       *)
(*   exw   ExWaiting, threads registered as waiting writers                *)
(*   exa   ExActive, the exclusive lock is granted                         *)
(*   exu   ExUpgrade, one of the waiting writers held a shared lock        *)
(*   spin  SpinWait, a thread may spin first, and overtake waiting ones    *)
(*   shw   ShWaiting, threads registered as waiting readers                *)
(*   sha   ShActive, shared locks granted                                  *)
(***************************************************************************)
EXTENDS Integers

FreeWord == [exw |-> 0, exa |-> FALSE, exu |-> FALSE, spin |-> FALSE,
             shw |-> 0, sha |-> 0]

\* LockTstExAll: a writer is active or waiting.
ExAll(w) == w.exa \/ w.exw > 0

\* LockTstActiveAll
ActiveAll(w) == w.exa \/ w.sha > 0

\* LockTstActiveAllOrExUpgrade
ActiveAllOrExUpgrade(w) == ActiveAll(w) \/ w.exu

\* LockTstAllActiveOrExWaiting
AllActiveOrExWaiting(w) == ActiveAll(w) \/ w.exw > 0

\* An exclusive lock is there for the taking: nobody holds it or waits for it,
\* or waiting threads may be overtaken.
ExclusiveFree(w) ==
    ~AllActiveOrExWaiting(w) \/ (w.spin /\ ~ActiveAllOrExUpgrade(w))

\* A shared lock is granted; the thread was registered as waiting or not.
GrantShared(w, fWaitSpin, waited) ==
    [w EXCEPT !.sha = @ + 1,
              !.shw = @ - (IF waited THEN 1 ELSE 0),
              !.spin = IF ~fWaitSpin THEN FALSE
                       ELSE IF w.sha = 0 THEN TRUE ELSE @]

\* The exclusive lock is granted to a new call, or to a registered writer.
GrantExclusive(w, fWaitSpin, waited) ==
    [w EXCEPT !.exa = TRUE, !.spin = fWaitSpin,
              !.exw = @ - (IF waited THEN 1 ELSE 0)]

\* ... to the thread that waited to upgrade its shared lock.
GrantUpgrade(w, fWaitSpin) ==
    [w EXCEPT !.exa = TRUE, !.spin = fWaitSpin, !.exw = @ - 1, !.exu = FALSE]

\* The wait for an upgrade failed: the shared lock is taken back.
CancelUpgrade(w) == [w EXCEPT !.exw = @ - 1, !.exu = FALSE, !.sha = @ + 1]
=============================================================================
