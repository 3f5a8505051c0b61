-------------------------------- MODULE MCLF ---------------------------------
(***************************************************************************)
(* The objects of the LF library for TLC, one at a time: object says which *)
(* one a behaviour is about, and the others stay as they were created.     *)
(***************************************************************************)
EXTENDS LFLock, LFPool, LFExLock, LFStack, LFQueue, LFMulti, TLC

CONSTANTS t1, t2, t3, o1, o2

VARIABLE object

lfVars == <<object, lockVars, poolVars, exVars, stackVars, queueVars, multiVars>>

\* A lock whose Flag lets the owner call again is not spun for: with a spinning
\* owner LFLockAcquireExclusiveEx can loop for ever.
LockModes ==
    {[flag |-> -1, spins |-> BOOLEAN, respins |-> BOOLEAN],
     [flag |-> 0, spins |-> {FALSE}, respins |-> {FALSE}],
     [flag |-> 1, spins |-> {FALSE}, respins |-> {FALSE}]}

ObjectUses == t1 :> {o1} @@ t2 :> {o1, o2} @@ t3 :> {o2}
ObjectModes ==
    {[flag |-> -1, spins |-> {FALSE}], [flag |-> 1, spins |-> {FALSE}],
     [flag |-> -1, spins |-> {TRUE}]}

Flags == {-1, 0, 1}

StacksOf ==
    {[events |-> {}, max |-> -1, calls |-> 5],
     [events |-> {"Free"}, max |-> 1, calls |-> 3],
     [events |-> {"Head"}, max |-> -1, calls |-> 3]}

QueuesOf ==
    {[events |-> {}, max |-> 3, calls |-> 5, ops |-> {"put", "get"}],
     [events |-> {}, max |-> 3, calls |-> 3,
      ops |-> {"put", "get", "isempty", "peek"}],
     [events |-> {"Free"}, max |-> 1, calls |-> 3,
      ops |-> {"put", "get", "grow"}],
     [events |-> {"Free", "Used"}, max |-> 2, calls |-> 3,
      ops |-> {"put", "get"}]}

\* Waits for any and for all of two or three objects, a handle or something
\* that cannot be waited for among them.
WaitFor(all, wait, kinds, steps) ==
    [all |-> all, wait |-> wait, kinds |-> kinds, steps |-> steps]
WaitsFor ==
    {WaitFor(FALSE, "timed", <<"lock", "stack">>, 4),
     WaitFor(TRUE, "timed", <<"lock", "stack">>, 4),
     WaitFor(TRUE, "timed", <<"lock", "stack", "lock">>, 3),
     WaitFor(FALSE, "forever", <<"lock", "handle", "lock">>, 3),
     WaitFor(TRUE, "timed", <<"lock", "handle", "lock">>, 3),
     WaitFor(FALSE, "zero", <<"stack", "lock">>, 3),
     WaitFor(TRUE, "zero", <<"stack", "lock", "handle">>, 2),
     WaitFor(FALSE, "timed", <<"lock", "bad", "stack">>, 2),
     WaitFor(TRUE, "forever", <<"lock", "lock", "bad">>, 2)}

InitLF ==
    /\ object \in {"lock", "pool", "exlock", "stack", "queue", "multi"}
    /\ object = "lock" \/ mode = CHOOSE m \in Modes : TRUE
    /\ object = "pool" \/ pmode = CHOOSE m \in PoolModes : TRUE
    /\ object = "exlock" \/ xflag = CHOOSE f \in ExFlags : TRUE
    /\ object = "stack" \/ smode = CHOOSE m \in StackModes : TRUE
    /\ object = "queue" \/ qmode = CHOOSE m \in QueueModes : TRUE
    /\ object = "multi" \/ mmode = CHOOSE m \in MultiModes : TRUE
    /\ InitLFLock /\ InitLFPool /\ InitLFExLock /\ InitLFStack /\ InitLFQueue
    /\ InitLFMulti

NextLF ==
    \/ /\ object = "lock" /\ NextLFLock
       /\ UNCHANGED <<object, poolVars, exVars, stackVars, queueVars, multiVars>>
    \/ /\ object = "pool" /\ NextLFPool
       /\ UNCHANGED <<object, lockVars, exVars, stackVars, queueVars, multiVars>>
    \/ /\ object = "exlock" /\ NextLFExLock
       /\ UNCHANGED <<object, lockVars, poolVars, stackVars, queueVars, multiVars>>
    \/ /\ object = "stack" /\ NextLFStack
       /\ UNCHANGED <<object, lockVars, poolVars, exVars, queueVars, multiVars>>
    \/ /\ object = "queue" /\ NextLFQueue
       /\ UNCHANGED <<object, lockVars, poolVars, exVars, stackVars, multiVars>>
    \/ /\ object = "multi" /\ NextLFMulti
       /\ UNCHANGED <<object, lockVars, poolVars, exVars, stackVars, queueVars>>

SpecLF == InitLF /\ [][NextLF]_lfVars

\* A thread that holds a lock exclusively is the only one that holds it, for
\* all three kinds of lock and for those an LFProcessMultipleObjects call takes:
\* through upgrades and downgrades, spinners that overtake, waits that fail and
\* signals meant for somebody else.
LocksExclude ==
    /\ object = "lock" => MutualExclusion
    /\ object = "pool" => PoolMutualExclusion
    /\ object = "exlock" => ExMutualExclusion
    /\ object = "multi" => OneHolder

\* What was pushed or queued is there until it is popped or taken, once, and a
\* queue gives it back in order, whatever CAS fails and whichever node is reused.
ContentsKept == ValuesConserved /\ FirstInFirstOut

\* No wakeup is lost: when no thread can go on, none waits for a lock that
\* nobody holds, a node that is free or a message that is queued, whichever
\* waits failed and whoever took signals meant for others.
WaitersWoken ==
    /\ object = "lock" => LockWakesWaiters
    /\ object = "pool" => PoolWakesWaiters
    /\ object = "exlock" => ExWakesWaiters
    /\ object = "stack" => NodesWakeWaiters
    /\ object = "queue" => QueueWakesWaiters
    /\ object = "multi" => AbandonedWaitsHarmless
=============================================================================
