------------------------------- MODULE LFPool --------------------------------
(***************************************************************************)
(* Reader-writer locks that borrow their events from a pool (LF.c,         *)
(* LFPoolObjectLockAcquireEx and LFPoolObjectLockRelease).  They are the   *)
(* locks of the state library: CPoolLock wraps them for m_callbackLock,    *)
(* m_shutdownLock and m_replicasLock.                                      *)
(*                                                                         *)
(* An object has an event pair (a semaphore for readers, an auto-reset     *)
(* event for writers) only while a thread waits for it.  The thread that   *)
(* registers first attaches one, the thread that leaves last detaches it   *)
(* and pushes it on the stack of free events.  A release reads the index   *)
(* of the pair in its compare-and-swap and signals it later, when the pair *)
(* may belong to another object.                                           *)
(*                                                                         *)
(* Steps are those of module LFLock; in addition the event is fetched in a *)
(* step of its own, between two reads of the state word.                   *)
(***************************************************************************)
EXTENDS LockState, Sequences, FiniteSets

CONSTANTS
    PoolThread,
    Object,
    Uses,         \* the objects a thread calls for
    PoolModes,    \* [flag, spins]: the Flag of the pool, -1, 0 or 1, and the
                  \* fWaitSpin of the calls
    PoolWaits,    \* subset of {"try", "timed", "forever"}
    MaxEvents,    \* EVENT_TABLE_MAX_SIZE - 1, or what memory allows
    MaxPoolCalls  \* bound: acquire, upgrade and downgrade calls, in all

ASSUME LFPoolAssumption ==
    /\ \A m \in PoolModes : m.flag \in {-1, 0, 1} /\ m.spins \subseteq BOOLEAN
    /\ PoolWaits \subseteq {"try", "timed", "forever"}
    /\ Uses \in [PoolThread -> SUBSET Object]
    /\ MaxEvents \in Nat /\ MaxPoolCalls \in Nat

VARIABLES
    pmode,        \* Pool->Flag, and how the pool is used
    state,        \* State of an object; ev is its event index, 0 for none
    powner,       \* dwThreadID of an object, {} for THREAD_ID_NONE
    depth,        \* dwRecursion of an object
    freeEvents,   \* FreeEvents, the top first
    made,         \* events in EventTable: 1 .. made
    sem,          \* the count of an event's ReadersEvent
    evt,          \* an event's WriterEvent is set
    at,           \* where a thread is in its call; "idle" outside
    pcall,        \* its call: [op, obj, fWaitSpin, wait, ev, n]
    shared, excl, \* the objects' locks a thread holds
    pcalls        \* calls still to come (bounded by MaxPoolCalls)

poolVars == <<pmode, state, powner, depth, freeEvents, made, sem, evt, at,
              pcall, shared, excl, pcalls>>

EventId == 1 .. MaxEvents
NoCall == [op |-> "none", obj |-> {}, fWaitSpin |-> FALSE, wait |-> "forever",
           ev |-> 0, n |-> 0]

\* ObjectTstWaitingAll
WaitingAll(w) == w.exw > 0 \/ w.shw > 0

\* A defect: the event is given up when the last writer leaves.
DetachedByWriters(w) == IF w.exw > 0 THEN w ELSE [w EXCEPT !.ev = 0]

\* ObjectClrEvent once nobody waits.
Detached(w) == IF WaitingAll(w) THEN w ELSE [w EXCEPT !.ev = 0]

PoolReturn(t) ==
    /\ at' = [at EXCEPT ![t] = "idle"]
    /\ pcall' = [pcall EXCEPT ![t] = NoCall]

Goto(t, p, c) ==
    /\ at' = [at EXCEPT ![t] = p]
    /\ pcall' = [pcall EXCEPT ![t] = c]

Swap(o, w) == state' = [state EXCEPT ![o] = w]
Push(e) == freeEvents' = IF e = 0 THEN freeEvents ELSE <<e>> \o freeEvents

TakeShared(t, o) == shared' = [shared EXCEPT ![t][o] = @ + 1]
TakeExclusive(t, o) ==
    /\ excl' = [excl EXCEPT ![t][o] = @ + 1]
    /\ powner' = [powner EXCEPT ![o] = {t}]

Holds(t, o) == shared[t][o] + excl[t][o]

BeginCall(t) ==
    /\ at[t] = "idle" /\ pcalls > 0
    /\ pcalls' = pcalls - 1

\* A call of the thread that owns the object exclusively; "clear" is the loop
\* that module LFLock describes at AcquireExclusiveOwner.
OwnerCall(t, o, op, fWaitSpin) ==
    /\ pmode.flag >= 0 /\ powner[o] = {t}
    /\ op = "upgrade" => pmode.flag > 0 /\ shared[t][o] > 0
    /\ BeginCall(t)
    /\ CASE pmode.flag = 0 ->                        \* ERROR_LF_LOCK_RECURSE
              UNCHANGED <<state, depth, shared, excl, at, pcall>>
         [] pmode.flag > 0 /\ op = "shared" ->
              /\ Swap(o, GrantShared(state[o], fWaitSpin, FALSE))
              /\ TakeShared(t, o)
              /\ UNCHANGED <<depth, excl, at, pcall>>
         [] pmode.flag > 0 /\ op = "exclusive" ->
              /\ depth' = [depth EXCEPT ![o] = @ + 1]
              /\ excl' = [excl EXCEPT ![t][o] = @ + 1]
              /\ IF ~fWaitSpin /\ state[o].spin
                 THEN Goto(t, "clear", [NoCall EXCEPT !.obj = o])
                 ELSE UNCHANGED <<at, pcall>>
              /\ UNCHANGED <<state, shared>>
         [] OTHER ->
              /\ Swap(o, [state[o] EXCEPT !.sha = @ - 1, !.spin = @ /\ fWaitSpin])
              /\ depth' = [depth EXCEPT ![o] = @ + 1]
              /\ shared' = [shared EXCEPT ![t][o] = @ - 1]
              /\ excl' = [excl EXCEPT ![t][o] = @ + 1]
              /\ UNCHANGED <<at, pcall>>
    /\ UNCHANGED <<pmode, powner, freeEvents, made, sem, evt>>

\* Any other call; a thread uses one object at a time.
Call(t, o, op, fWaitSpin, wait) ==
    /\ o \in Uses[t] /\ \A x \in Object \ {o} : Holds(t, x) = 0
    /\ Holds(t, o) = (IF op \in {"shared", "exclusive"} THEN 0 ELSE 1)
    /\ excl[t][o] = 0
    /\ BeginCall(t)
    /\ Goto(t, "try", [op |-> op, obj |-> o, fWaitSpin |-> fWaitSpin,
                       wait |-> wait, ev |-> 0, n |-> 0])
    /\ UNCHANGED <<pmode, state, powner, depth, freeEvents, made, sem, evt,
                   shared, excl>>

\* The object has no event and the caller none either: POP, PoolAllocEvent, or
\* ERROR_NOT_ENOUGH_MEMORY.
Fetch(t) ==
    CASE freeEvents # <<>> ->
           /\ Goto(t, "try", [pcall[t] EXCEPT !.ev = Head(freeEvents)])
           /\ freeEvents' = Tail(freeEvents) /\ made' = made
      [] freeEvents = <<>> /\ made < MaxEvents ->
           /\ Goto(t, "try", [pcall[t] EXCEPT !.ev = made + 1])
           /\ made' = made + 1 /\ freeEvents' = freeEvents
      [] OTHER -> PoolReturn(t) /\ UNCHANGED <<freeEvents, made>>

\* Register with the event of the object, or attach the caller's.
Register(t, w) ==
    LET o == pcall[t].obj
        e == IF state[o].ev = 0 THEN pcall[t].ev ELSE state[o].ev
    IN  /\ Swap(o, [w EXCEPT !.ev = e])
        /\ Push(IF pcall[t].ev = e THEN 0 ELSE pcall[t].ev)
        /\ Goto(t, IF w.spin THEN "spin" ELSE "wait",
                [pcall[t] EXCEPT !.ev = e])

MustFetch(t) == state[pcall[t].obj].ev = 0 /\ pcall[t].ev = 0

TryShared(t) ==
    LET c == pcall[t]  o == c.obj  w == state[o]
    IN  /\ at[t] = "try" /\ c.op = "shared"
        /\ CASE ~ExAll(w) ->
                  /\ Swap(o, GrantShared(w, c.fWaitSpin, FALSE))
                  /\ TakeShared(t, o) /\ Push(c.ev) /\ PoolReturn(t)
                  /\ made' = made
             [] ExAll(w) /\ c.wait = "try" ->
                  Push(c.ev) /\ PoolReturn(t) /\ UNCHANGED <<state, shared, made>>
             [] ExAll(w) /\ c.wait # "try" /\ MustFetch(t) ->
                  Fetch(t) /\ UNCHANGED <<state, shared>>
             [] OTHER ->
                  /\ Register(t, [w EXCEPT !.shw = @ + 1])
                  /\ UNCHANGED <<shared, made>>
        /\ UNCHANGED <<pmode, powner, depth, sem, evt, excl, pcalls>>

TryExclusive(t) ==
    LET c == pcall[t]  o == c.obj  w == state[o]
    IN  /\ at[t] = "try" /\ c.op = "exclusive"
        /\ CASE ExclusiveFree(w) ->
                  /\ Swap(o, GrantExclusive(w, c.fWaitSpin, FALSE))
                  /\ TakeExclusive(t, o) /\ Push(c.ev) /\ PoolReturn(t)
                  /\ made' = made
             [] ~ExclusiveFree(w) /\ c.wait = "try" ->
                  /\ Push(c.ev) /\ PoolReturn(t)
                  /\ UNCHANGED <<state, powner, excl, made>>
             [] ~ExclusiveFree(w) /\ c.wait # "try" /\ MustFetch(t) ->
                  Fetch(t) /\ UNCHANGED <<state, powner, excl>>
             [] OTHER ->
                  /\ Register(t, [w EXCEPT !.exw = @ + 1])
                  /\ UNCHANGED <<powner, excl, made>>
        /\ UNCHANGED <<pmode, depth, sem, evt, shared, pcalls>>

\* LF_LOCK_UPGRADE_SAFELY ("upgrade"), LF_LOCK_UPGRADE_IGNORE ("ignore")
TryUpgrade(t) ==
    LET c == pcall[t]  o == c.obj
        w == [state[o] EXCEPT !.sha = @ - 1]
        refused == w.exu \/ (w.exw > 0 /\ c.op = "upgrade")
    IN  /\ at[t] = "try" /\ c.op \in {"upgrade", "ignore"}
        /\ CASE refused \/ (ActiveAll(w) /\ c.wait = "try") ->
                  /\ Push(c.ev) /\ PoolReturn(t)
                  /\ UNCHANGED <<state, powner, shared, excl, made>>
             [] ~refused /\ ~ActiveAll(w) ->
                  /\ Swap(o, GrantExclusive(w, c.fWaitSpin, FALSE))
                  /\ shared' = [shared EXCEPT ![t][o] = 0]
                  /\ TakeExclusive(t, o) /\ Push(c.ev) /\ PoolReturn(t)
                  /\ made' = made
             [] ~refused /\ ActiveAll(w) /\ c.wait # "try" /\ MustFetch(t) ->
                  Fetch(t) /\ UNCHANGED <<state, powner, shared, excl>>
             [] OTHER ->
                  /\ Register(t, [w EXCEPT !.exw = @ + 1, !.exu = TRUE])
                  /\ shared' = [shared EXCEPT ![t][o] = 0]
                  /\ UNCHANGED <<powner, excl, made>>
        /\ UNCHANGED <<pmode, depth, sem, evt, pcalls>>

\* The word of a registered thread's object becomes w, less the event if
\* nobody waits any longer; the thread pushes an event it detached.
Leave(t, w) ==
    /\ Swap(pcall[t].obj, Detached(w))
    /\ Push(IF Detached(w).ev = 0 THEN pcall[t].ev ELSE 0)

ObtainShared(t) ==
    /\ Leave(t, GrantShared(state[pcall[t].obj], pcall[t].fWaitSpin, TRUE))
    /\ TakeShared(t, pcall[t].obj)
    /\ PoolReturn(t)
    /\ UNCHANGED <<powner, excl>>

ObtainExclusive(t) ==
    LET w == state[pcall[t].obj]
    IN  /\ Leave(t, IF pcall[t].op = "exclusive"
                    THEN GrantExclusive(w, pcall[t].fWaitSpin, TRUE)
                    ELSE GrantUpgrade(w, pcall[t].fWaitSpin))
        /\ TakeExclusive(t, pcall[t].obj)
        /\ PoolReturn(t)
        /\ shared' = shared

\* What a registered thread waits for.
MayObtain(t) ==
    LET w == state[pcall[t].obj]
    IN  CASE pcall[t].op = "shared"    -> ~ExAll(w)
          [] pcall[t].op = "exclusive" -> ~ActiveAllOrExUpgrade(w)
          [] OTHER                     -> ~ActiveAll(w)

Obtain(t) ==
    IF pcall[t].op = "shared" THEN ObtainShared(t) ELSE ObtainExclusive(t)

Spin(t) ==
    /\ at[t] = "spin" /\ MayObtain(t)
    /\ Obtain(t)
    /\ UNCHANGED <<pmode, depth, made, sem, evt, pcalls>>

PoolSpinEnd(t) ==
    /\ at[t] = "spin"
    /\ Goto(t, "wait", pcall[t])
    /\ UNCHANGED <<pmode, state, powner, depth, freeEvents, made, sem, evt,
                   shared, excl, pcalls>>

WaitReaders(t) ==
    /\ at[t] = "wait" /\ pcall[t].op = "shared"
    /\ sem[pcall[t].ev] > 0
    /\ sem' = [sem EXCEPT ![pcall[t].ev] = @ - 1]
    /\ Goto(t, "woken", pcall[t])
    /\ UNCHANGED <<pmode, state, powner, depth, freeEvents, made, evt, shared,
                   excl, pcalls>>

WaitWriters(t) ==
    /\ at[t] = "wait" /\ pcall[t].op # "shared"
    /\ evt[pcall[t].ev]
    /\ evt' = [evt EXCEPT ![pcall[t].ev] = FALSE]
    /\ Goto(t, "woken", pcall[t])
    /\ UNCHANGED <<pmode, state, powner, depth, freeEvents, made, sem, shared,
                   excl, pcalls>>

Woken(t) ==
    /\ at[t] = "woken"
    /\ IF MayObtain(t) THEN Obtain(t) /\ evt' = evt
       ELSE /\ Goto(t, "wait", pcall[t])                \* bogus event
            /\ evt' = [evt EXCEPT ![pcall[t].ev] =
                  @ \/ (pcall[t].op = "exclusive" /\ state[pcall[t].obj].exu)]
            /\ UNCHANGED <<state, powner, freeEvents, shared, excl>>
    /\ UNCHANGED <<pmode, depth, made, sem, pcalls>>

\* SetEvent or ReleaseSemaphore on the event pair of w, if kind # "".
Then(t, kind, w) ==
    IF kind = "" THEN PoolReturn(t)
    ELSE Goto(t, "signal", [NoCall EXCEPT !.op = kind, !.ev = w.ev, !.n = w.shw])

WaitFails(t) ==
    LET o == pcall[t].obj
        w == CASE pcall[t].op = "shared" -> [state[o] EXCEPT !.shw = @ - 1]
               [] pcall[t].op = "exclusive" -> [state[o] EXCEPT !.exw = @ - 1]
               [] OTHER -> CancelUpgrade(state[o])
    IN  /\ at[t] = "wait" /\ pcall[t].wait = "timed"
        /\ Leave(t, w)
        /\ Then(t, IF pcall[t].op # "shared" /\ ~ExAll(w) /\ w.shw > 0
                   THEN "readers" ELSE "", w)
        /\ IF pcall[t].op \in {"upgrade", "ignore"} THEN TakeShared(t, o)
           ELSE shared' = shared
        /\ UNCHANGED <<pmode, powner, depth, made, sem, evt, excl, pcalls>>

PoolDowngrade(t, o, fWaitSpin) ==
    LET w == [state[o] EXCEPT !.exa = depth[o] > 0, !.sha = @ + 1,
                              !.spin = fWaitSpin]
    IN  /\ excl[t][o] > 0
        /\ BeginCall(t)
        /\ Swap(o, w)
        /\ excl' = [excl EXCEPT ![t][o] = @ - 1]
        /\ TakeShared(t, o)
        /\ IF depth[o] > 0
           THEN /\ depth' = [depth EXCEPT ![o] = @ - 1]
                /\ UNCHANGED <<powner, at, pcall>>
           ELSE /\ powner' = [powner EXCEPT ![o] = {}]
                /\ Then(t, IF w.exw = 0 /\ w.shw > 0 THEN "readers" ELSE "", w)
                /\ depth' = depth
        /\ UNCHANGED <<pmode, freeEvents, made, sem, evt>>

UnlockShared(t, o) ==
    LET w == [state[o] EXCEPT !.sha = @ - 1]
    IN  /\ at[t] = "idle" /\ shared[t][o] > 0
        /\ Swap(o, w)
        /\ shared' = [shared EXCEPT ![t][o] = @ - 1]
        /\ Then(t, IF ~ActiveAll(w) /\ w.exw > 0 THEN "writer" ELSE "", w)
        /\ UNCHANGED <<pmode, powner, depth, freeEvents, made, sem, evt, excl,
                       pcalls>>

UnlockExclusive(t, o) ==
    LET w == [state[o] EXCEPT !.exa = FALSE]
    IN  /\ at[t] = "idle" /\ excl[t][o] > 0
        /\ excl' = [excl EXCEPT ![t][o] = @ - 1]
        /\ IF depth[o] > 0
           THEN /\ depth' = [depth EXCEPT ![o] = @ - 1]
                /\ UNCHANGED <<state, powner, at, pcall>>
           ELSE /\ Swap(o, w)
                /\ powner' = [powner EXCEPT ![o] = {}]
                /\ Then(t, CASE w.exw > 0 /\ w.sha = 0 -> "writer"
                             [] w.exw = 0 /\ w.shw > 0 -> "readers"
                             [] OTHER -> "", w)
                /\ depth' = depth
        /\ UNCHANGED <<pmode, freeEvents, made, sem, evt, shared, pcalls>>

PoolSignal(t) ==
    LET c == pcall[t]
    IN  /\ at[t] = "signal"
        /\ IF c.op = "writer"
           THEN evt' = [evt EXCEPT ![c.ev] = TRUE] /\ sem' = sem
           ELSE sem' = [sem EXCEPT ![c.ev] = @ + c.n] /\ evt' = evt
        /\ PoolReturn(t)
        /\ UNCHANGED <<pmode, state, powner, depth, freeEvents, made, shared,
                       excl, pcalls>>

-----------------------------------------------------------------------------

\* LFPoolCreateBase, LFPoolObjectInit
InitLFPool ==
    /\ pmode \in PoolModes
    /\ state = [o \in Object |-> [exw |-> 0, exa |-> FALSE, exu |-> FALSE,
                                  spin |-> FALSE, shw |-> 0, sha |-> 0,
                                  ev |-> 0]]
    /\ powner = [o \in Object |-> {}] /\ depth = [o \in Object |-> 0]
    /\ freeEvents = <<>> /\ made = 0
    /\ sem = [e \in EventId |-> 0] /\ evt = [e \in EventId |-> FALSE]
    /\ at = [t \in PoolThread |-> "idle"]
    /\ pcall = [t \in PoolThread |-> NoCall]
    /\ shared = [t \in PoolThread |-> [o \in Object |-> 0]]
    /\ excl = [t \in PoolThread |-> [o \in Object |-> 0]]
    /\ pcalls = MaxPoolCalls

NextLFPool ==
    \E t \in PoolThread :
        \/ \E o \in Object, op \in {"shared", "exclusive", "upgrade"},
              s \in pmode.spins : OwnerCall(t, o, op, s)
        \/ \E o \in Object, op \in {"shared", "exclusive", "upgrade", "ignore"},
              s \in pmode.spins, w \in PoolWaits : Call(t, o, op, s, w)
        \/ \E o \in Object, s \in pmode.spins : PoolDowngrade(t, o, s)
        \/ TryShared(t)
        \/ TryExclusive(t)
        \/ TryUpgrade(t)
        \/ Spin(t)
        \/ PoolSpinEnd(t)
        \/ WaitReaders(t)
        \/ WaitWriters(t)
        \/ Woken(t)
        \/ WaitFails(t)
        \/ \E o \in Object : UnlockShared(t, o)
        \/ \E o \in Object : UnlockExclusive(t, o)
        \/ PoolSignal(t)

SpecLFPool == InitLFPool /\ [][NextLFPool]_poolVars

-----------------------------------------------------------------------------

\* An object locked exclusively is locked by nobody else, whatever stale
\* signals its borrowed event still gets (LFPoolObjectLockAcquireEx).
PoolMutualExclusion ==
    \A o \in Object, t \in PoolThread :
        excl[t][o] > 0 => \A u \in PoolThread \ {t} : Holds(u, o) = 0

Waiting(t) == at[t] \in {"spin", "wait", "woken"}

\* An event pair is in one place: attached to one object, free, or fetched by
\* one thread; and a registered thread waits on the event of its object, as
\* the assertions ObjectGetEvent (Object->State) == Event->Index say.
EventInOnePlace ==
    /\ \A e \in 1 .. made :
           Cardinality({o \in Object : state[o].ev = e})
               + Cardinality({i \in 1 .. Len(freeEvents) : freeEvents[i] = e})
               + Cardinality({t \in PoolThread :
                                 at[t] = "try" /\ pcall[t].ev = e}) = 1
    /\ \A t \in PoolThread : Waiting(t) => state[pcall[t].obj].ev = pcall[t].ev

\* When no thread can go on and nobody holds an object, nobody waits for one:
\* no wakeup is lost when events move between objects.
PoolWakesWaiters ==
    (\A t \in PoolThread :
         \/ at[t] = "idle" /\ \A o \in Object : Holds(t, o) = 0
         \/ /\ at[t] = "wait"
            /\ IF pcall[t].op = "shared" THEN sem[pcall[t].ev] = 0
               ELSE ~evt[pcall[t].ev])
    => \A t \in PoolThread : at[t] = "idle"
=============================================================================
