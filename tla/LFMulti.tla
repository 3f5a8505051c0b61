------------------------------- MODULE LFMulti -------------------------------
(***************************************************************************)
(* LFProcessMultipleObjects of LF.c: one operation on each of several LF   *)
(* objects, any of them or all.  The code recurses down the objects: an    *)
(* object that has to wait calls the wait callback, which goes on with the *)
(* next object, and the innermost callback waits on the handles of all.    *)
(* The result then travels back up, through every object that is waiting.  *)
(*                                                                         *)
(* An LF object is what modules LFExLock and LFStack show of one: how many *)
(* operations it can satisfy (a released lock, the values of a stack), how *)
(* many threads registered to wait, and the signals its event or semaphore *)
(* holds.  System handles are auto-reset events.                           *)
(***************************************************************************)
EXTENDS Naturals, Sequences, FiniteSets

CONSTANTS
    MultiModes,   \* [all, wait, kinds, steps]: fWaitAll; the timeout, one of
                  \* "zero", "timed", "forever"; of each object "lock", "stack"
                  \* (a pop), "handle" or "bad" (an operation that is refused);
                  \* bound: operations of other threads, in all
    MultiThread   \* threads that use the same objects one at a time

VARIABLES
    mmode,
    mobj,         \* of each object [have, waiting, signals]
    mcall,        \* the caller, its LF_MULTI_STATE included
    mheld,        \* the objects whose operation was done for the caller
    mother,       \* of each other thread [at, obj]
    msteps

multiVars == <<mmode, mobj, mcall, mheld, mother, msteps>>

MObjects == 1..Len(mmode.kinds)
MKind(i) == mmode.kinds[i]
MHandles == {i \in MObjects : MKind(i) = "handle"}

\* A status, and the object it names.
Status(s) == [is |-> s, of |-> 0]
GotObject(i) == [is |-> "got", of |-> i]

NewCall ==
    [at |-> "begin", next |-> 1, frames |-> <<>>, ret |-> "timeout",
     state |-> Status("timeout"), stat |-> [i \in MObjects |-> "timeout"],
     completed |-> FALSE, retry |-> FALSE, timeout |-> FALSE, left |-> TRUE]

\* The object whose wait called the callback that runs now; 0 for the first.
WaitObject(c) == IF c.frames = <<>> THEN 0 ELSE c.frames[Len(c.frames)]

Ret(c, s) == [c EXCEPT !.at = "return", !.ret = s]

-----------------------------------------------------------------------------
(* The callbacks after the call of object j returned status s              *)

\* LFMultiWaitAnyCb: one result is enough, every pending wait is abandoned.
WaitAnyReturned(c, j, s) ==
    LET d == [c EXCEPT !.stat[j] = s]
    IN  CASE s = "got" -> Ret([d EXCEPT !.state = GotObject(j)], "timeout")
          [] s = "timeout" /\ c.state = GotObject(WaitObject(c)) -> Ret(d, "got")
          [] OTHER ->
                Ret([d EXCEPT !.state = IF c.state.is = "timeout" THEN Status(s) ELSE @],
                    "timeout")

\* LFMultiWaitAllCb: an object that had its operation done at once is followed
\* by the next; the first that fails ends the pass.
WaitAllReturned(c, j, s) ==
    LET d == [c EXCEPT !.stat[j] = s,
                       !.state = IF @.is = "got" /\ s # "got" THEN Status(s) ELSE @]
    IN  CASE c.completed ->
                Ret(d, IF WaitObject(c) = 0 THEN "timeout" ELSE d.stat[WaitObject(c)])
          [] ~c.completed /\ s # "got" ->
                Ret([d EXCEPT !.completed = TRUE, !.state = Status(s)], "timeout")
          [] OTHER -> [d EXCEPT !.next = j + 1]

Returned(c, j, s) ==
    IF mmode.all THEN WaitAllReturned(c, j, s) ELSE WaitAnyReturned(c, j, s)

-----------------------------------------------------------------------------
(* LF objects                                                              *)

\* The operation is done at once if nobody who came earlier waits for it.
Available(o) == o.have > o.waiting

\* A wait that ended without the object: the thread is not counted any more.
Withdrawn(o) == [o EXCEPT !.waiting = @ - 1]

Granted(o) == [o EXCEPT !.have = @ - 1, !.waiting = @ - 1]

\* A released lock or a pushed value, and the signal if somebody is to have it.
Added(o) == [o EXCEPT !.have = @ + 1]
ToSignal(o) == o.have + 1 <= o.waiting
Signalled(i, o) ==
    [o EXCEPT !.signals = IF MKind(i) = "stack" THEN @ + 1 ELSE 1]

-----------------------------------------------------------------------------
(* The caller                                                              *)

\* One pass over the objects.  A retry for all objects keeps what it has.
BeginPass ==
    /\ mcall.at = "begin"
    /\ mcall' = [mcall EXCEPT
                    !.at = "down", !.next = 1, !.frames = <<>>,
                    !.stat = IF mcall.retry /\ mmode.all THEN @ ELSE NewCall.stat,
                    !.completed = FALSE, !.retry = FALSE]
    /\ UNCHANGED <<mmode, mobj, mheld, mother, msteps>>

\* Objects the callback passes over: system handles, and what it has already.
PassedOver(i) == MKind(i) = "handle" \/ (mmode.all /\ mcall.stat[i] # "timeout")

\* LFMultiCallObject.  A lock that is held does not wait at all for a timeout
\* of 0; a stack does, and finds out from the callback.
CallObject ==
    /\ mcall.at = "down" /\ mcall.next \in MObjects
    /\ LET i == mcall.next
           o == mobj[i]
       IN  CASE PassedOver(i) ->
                   /\ mcall' = [mcall EXCEPT !.next = i + 1]
                   /\ UNCHANGED <<mobj, mheld>>
             [] ~PassedOver(i) /\ MKind(i) = "bad" ->
                   /\ mcall' = Returned(mcall, i, "error")
                   /\ UNCHANGED <<mobj, mheld>>
             [] ~PassedOver(i) /\ MKind(i) # "bad" /\ Available(o) ->
                   /\ mobj' = [mobj EXCEPT ![i].have = @ - 1]
                   /\ mheld' = mheld \cup {i}
                   /\ mcall' = Returned(mcall, i, "got")
             [] ~PassedOver(i) /\ MKind(i) = "lock" /\ ~Available(o)
                  /\ mmode.wait = "zero" ->
                   /\ mcall' = Returned(mcall, i, "timeout")
                   /\ UNCHANGED <<mobj, mheld>>
             [] OTHER ->
                   /\ mobj' = [mobj EXCEPT ![i].waiting = @ + 1]
                   /\ mcall' = [mcall EXCEPT !.frames = Append(@, i), !.next = i + 1]
                   /\ UNCHANGED mheld
    /\ UNCHANGED <<mmode, mother, msteps>>

\* LFMultiWait on the handles hs, any or all: what it may return.  It does not
\* look at the handles if the timeout is 0, and without handles it succeeds.
WaitReturns(hs, all, zero) ==
    LET ready == {i \in hs : mobj[i].signals > 0}
    IN  CASE hs = {} -> {Status("got")}
          [] hs # {} /\ zero -> {Status("timeout")}
          [] OTHER ->
                (IF all THEN IF ready = hs THEN {GotObject(CHOOSE i \in hs : TRUE)} ELSE {}
                 ELSE {GotObject(i) : i \in ready})
                \cup (IF ready = {} \/ (all /\ ready # hs)
                      THEN {Status("apc")}
                           \cup (IF mmode.wait = "timed" THEN {Status("timeout")} ELSE {})
                      ELSE {})

\* The wait takes the signals it reports.
TakeSignals(hs) ==
    mobj' = [i \in MObjects |->
                IF i \in hs THEN [mobj[i] EXCEPT !.signals = @ - 1] ELSE mobj[i]]

Waiters == {mcall.frames[k] : k \in DOMAIN mcall.frames}

\* The end of LFMultiWaitAnyCb: every object is waiting.
WaitAny ==
    /\ mcall.at = "down" /\ mcall.next \notin MObjects /\ ~mmode.all
    /\ \E r \in WaitReturns(Waiters \cup MHandles, FALSE, mmode.wait = "zero") :
         /\ mcall' = Ret([mcall EXCEPT
                             !.completed = TRUE, !.state = r,
                             !.timeout = @ \/ r.is = "timeout",
                             !.stat = [i \in MObjects |->
                                          IF r = GotObject(i) THEN "got" ELSE @[i]]],
                         IF r.is = "got" /\ r.of = WaitObject(mcall) THEN "got"
                         ELSE "timeout")
         /\ TakeSignals({r.of} \cap MObjects)
         /\ mheld' = mheld \cup ({r.of} \cap MHandles)
    /\ UNCHANGED <<mmode, mother, msteps>>

\* LFMultiWaitAllSetStatus: the result of a wait for all of hs.
SetStatus(c, hs, r) ==
    [c EXCEPT !.timeout = @ \/ r.is = "timeout",
              !.state = IF r.is = "timeout" THEN @ ELSE Status(r.is),
              !.stat = [i \in MObjects |->
                           IF i \in hs /\ r.is # "timeout" /\ @[i] = "timeout"
                           THEN r.is ELSE @[i]]]

\* The end of LFMultiWaitAllCb
WaitAll ==
    /\ mcall.at = "down" /\ mcall.next \notin MObjects /\ mmode.all
    /\ \E r \in WaitReturns(Waiters, TRUE, mmode.wait = "zero") :
         /\ mcall' = Ret([SetStatus(mcall, Waiters, r) EXCEPT !.completed = TRUE], r.is)
         /\ TakeSignals(IF r.is = "got" THEN Waiters ELSE {})
    /\ UNCHANGED <<mmode, mheld, mother, msteps>>

\* A defect: the object reported by the wait stays the result.
BogusKept(c, o) == [c EXCEPT !.retry = TRUE, !.stat[o] = IF @ = "got" THEN "timeout" ELSE @]

\* The callback is called again after the wait: the signal was for somebody
\* else, and the object is told to give up.
Bogus(c, o) ==
    [c EXCEPT !.retry = TRUE,
              !.stat[o] = IF @ = "got" THEN "timeout" ELSE @,
              !.state = IF ~mmode.all /\ @ = GotObject(o) THEN Status("timeout") ELSE @]

\* The innermost object that waits gets the status of its wait, ends its own
\* operation, and the callback that called it goes on.
ObjectReturns ==
    /\ mcall.at = "return" /\ mcall.frames # <<>>
    /\ LET o == WaitObject(mcall)
           c == [mcall EXCEPT !.frames = SubSeq(@, 1, Len(@) - 1)]
       IN  CASE c.ret = "got" /\ mobj[o].have > 0 ->
                   /\ mobj' = [mobj EXCEPT ![o] = Granted(@)]
                   /\ mheld' = mheld \cup {o}
                   /\ mcall' = Returned(c, o, "got")
             [] c.ret = "got" /\ mobj[o].have = 0 ->
                   /\ mobj' = [mobj EXCEPT ![o] = Withdrawn(@)]
                   /\ mcall' = LET d == Bogus(c, o) IN Returned(d, o, d.stat[o])
                   /\ UNCHANGED mheld
             [] OTHER ->
                   /\ mobj' = [mobj EXCEPT ![o] = Withdrawn(@)]
                   /\ mcall' = Returned(c, o, c.ret)
                   /\ UNCHANGED mheld
    /\ UNCHANGED <<mmode, mother, msteps>>

\* The outermost callback returned: another pass if a signal was for somebody
\* else and time is left; then, for all objects, the system handles.
PassReturns ==
    /\ mcall.at = "return" /\ mcall.frames = <<>>
    /\ \E left \in CASE mmode.wait = "zero" -> {FALSE}
                     [] mmode.wait = "timed" -> BOOLEAN
                     [] OTHER -> {TRUE} :
         mcall' = [mcall EXCEPT
                      !.left = left,
                      !.at = CASE mcall.state.is = "timeout" /\ mcall.retry /\ left
                                    /\ ~mcall.timeout -> "begin"
                               [] mmode.all /\ mcall.state.is = "got" -> "handles"
                               [] mmode.all /\ mcall.state.is # "got"
                                    /\ ~(mcall.state.is = "timeout" /\ mcall.retry /\ left
                                           /\ ~mcall.timeout) -> "undo"
                               [] OTHER -> "done"]
    /\ UNCHANGED <<mmode, mobj, mheld, mother, msteps>>

\* The LF objects are all had: LFProcessMultipleObjects waits for the handles.
WaitHandles ==
    /\ mcall.at = "handles"
    /\ \E r \in WaitReturns(MHandles, TRUE, ~mcall.left) :
         /\ mcall' = [SetStatus(mcall, MHandles, r) EXCEPT
                         !.at = IF r.is = "got" THEN "done" ELSE "undo",
                         !.state = Status(r.is)]
         /\ TakeSignals(IF r.is = "got" THEN MHandles ELSE {})
         /\ mheld' = IF r.is = "got" THEN mheld \cup MHandles ELSE mheld
    /\ UNCHANGED <<mmode, mother, msteps>>

\* LFMultiLockRelease: what was popped stays popped, a lock is released.
UndoObject ==
    /\ mcall.at = "undo"
    /\ LET got == {i \in MObjects : mcall.stat[i] = "got"}
           i == CHOOSE k \in got : \A l \in got : k <= l
       IN  IF got = {} THEN mcall' = [mcall EXCEPT !.at = "done"] /\ UNCHANGED <<mobj, mheld>>
           ELSE /\ mcall' = [mcall EXCEPT !.stat[i] = mcall.state.is]
                /\ IF MKind(i) = "lock"
                   THEN /\ mobj' = [mobj EXCEPT
                                ![i] = IF ToSignal(@) THEN Signalled(i, Added(@)) ELSE Added(@)]
                        /\ mheld' = mheld \ {i}
                   ELSE UNCHANGED <<mobj, mheld>>
    /\ UNCHANGED <<mmode, mother, msteps>>

-----------------------------------------------------------------------------
(* The other threads                                                       *)

OtherAt(t, a, i) == mother' = [mother EXCEPT ![t] = [at |-> a, obj |-> i]]

OtherAcquires(t, i) ==
    /\ mother[t].at = "idle" /\ msteps > 0 /\ MKind(i) \in {"lock", "stack"}
    /\ msteps' = msteps - 1
    /\ IF Available(mobj[i])
       THEN /\ mobj' = [mobj EXCEPT ![i].have = @ - 1]
            /\ OtherAt(t, IF MKind(i) = "lock" THEN "has" ELSE "idle", i)
       ELSE /\ mobj' = [mobj EXCEPT ![i].waiting = @ + 1]
            /\ OtherAt(t, "wait", i)
    /\ UNCHANGED <<mmode, mcall, mheld>>

OtherWakes(t) ==
    /\ mother[t].at = "wait" /\ mobj[mother[t].obj].signals > 0
    /\ mobj' = [mobj EXCEPT ![mother[t].obj].signals = @ - 1]
    /\ OtherAt(t, "woken", mother[t].obj)
    /\ UNCHANGED <<mmode, mcall, mheld, msteps>>

OtherWoken(t) ==
    /\ mother[t].at = "woken"
    /\ LET i == mother[t].obj
       IN  IF mobj[i].have > 0
           THEN /\ mobj' = [mobj EXCEPT ![i] = Granted(@)]
                /\ OtherAt(t, IF MKind(i) = "lock" THEN "has" ELSE "idle", i)
           ELSE OtherAt(t, "wait", i) /\ UNCHANGED mobj
    /\ UNCHANGED <<mmode, mcall, mheld, msteps>>

\* A wait with a timeout of its own: the signal may still come.
OtherGivesUp(t) ==
    /\ mother[t].at = "wait"
    /\ mobj' = [mobj EXCEPT ![mother[t].obj] = Withdrawn(@)]
    /\ OtherAt(t, "idle", mother[t].obj)
    /\ UNCHANGED <<mmode, mcall, mheld, msteps>>

\* The release of a lock, or the push of a value; the signal is a step of its
\* own, as SetEvent and ReleaseSemaphore are.
OtherAdds(t, i) ==
    /\ \/ MKind(i) = "lock" /\ mother[t] = [at |-> "has", obj |-> i] /\ UNCHANGED msteps
       \/ /\ MKind(i) = "stack" /\ mother[t].at = "idle" /\ msteps > 0
          /\ msteps' = msteps - 1
    /\ mobj' = [mobj EXCEPT ![i] = Added(@)]
    /\ OtherAt(t, IF ToSignal(mobj[i]) THEN "signal" ELSE "idle", i)
    /\ UNCHANGED <<mmode, mcall, mheld>>

OtherSignals(t) ==
    /\ mother[t].at = "signal"
    /\ mobj' = [mobj EXCEPT ![mother[t].obj] = Signalled(mother[t].obj, @)]
    /\ OtherAt(t, "idle", mother[t].obj)
    /\ UNCHANGED <<mmode, mcall, mheld, msteps>>

\* Somebody sets a system handle.
HandleSet(i) ==
    /\ msteps > 0 /\ MKind(i) = "handle" /\ mobj[i].signals = 0
    /\ msteps' = msteps - 1
    /\ mobj' = [mobj EXCEPT ![i].signals = 1]
    /\ UNCHANGED <<mmode, mcall, mheld, mother>>

-----------------------------------------------------------------------------

InitLFMulti ==
    /\ mmode \in MultiModes
    /\ mobj = [i \in MObjects |->
                  [have |-> IF MKind(i) = "lock" THEN 1 ELSE 0, waiting |-> 0, signals |-> 0]]
    /\ mcall = NewCall
    /\ mheld = {}
    /\ mother = [t \in MultiThread |-> [at |-> "idle", obj |-> 1]]
    /\ msteps = mmode.steps

NextLFMulti ==
    \/ BeginPass
    \/ CallObject
    \/ WaitAny
    \/ WaitAll
    \/ ObjectReturns
    \/ PassReturns
    \/ WaitHandles
    \/ UndoObject
    \/ \E t \in MultiThread :
          \/ \E i \in MObjects : OtherAcquires(t, i)
          \/ OtherWakes(t)
          \/ OtherWoken(t)
          \/ OtherGivesUp(t)
          \/ \E i \in MObjects : OtherAdds(t, i)
          \/ OtherSignals(t)
    \/ \E i \in MObjects : HandleSet(i)

SpecLFMulti == InitLFMulti /\ [][NextLFMulti]_multiVars

-----------------------------------------------------------------------------

\* What LFProcessMultipleObjects returns is what it did (LF.h, the comment
\* above its declaration).  For any: the operation it names and no other was
\* done, and the status of every other object says so; if it fails, none was.
\* For all: every operation was done, or no lock and no handle is kept.
ReportsWhatItDid ==
    mcall.at = "done" =>
        CASE ~mmode.all /\ mcall.state.is = "got" ->
                /\ mheld = {mcall.state.of}
                /\ \A i \in MObjects : mcall.stat[i] = "got" <=> i \in mheld
          [] ~mmode.all /\ mcall.state.is # "got" -> mheld = {}
          [] mmode.all /\ mcall.state.is = "got" -> mheld = MObjects
          [] OTHER -> \A i \in mheld : MKind(i) = "stack"

\* A lock is the caller's, another thread's or released, and never two of them
\* (LFMultiLockRelease releases a lock once).
OneHolder ==
    \A i \in MObjects : MKind(i) = "lock" =>
        mobj[i].have + Cardinality(mheld \cap {i})
          + Cardinality({t \in MultiThread : mother[t] = [at |-> "has", obj |-> i]}) = 1

\* The waits a call abandons take no signal with them: once it is over and
\* the other threads are at rest, none waits for an object it could have.
AbandonedWaitsHarmless ==
    (mcall.at = "done" /\ \A t \in MultiThread : mother[t].at \notin {"signal", "woken"}) =>
        \A t \in MultiThread :
            mother[t].at = "wait" =>
                mobj[mother[t].obj].have = 0 \/ mobj[mother[t].obj].signals > 0
=============================================================================
