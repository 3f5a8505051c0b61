------------------------------ MODULE LFQueue --------------------------------
(***************************************************************************)
(* The lock-free queue of LF.c: a linked list that always has a node, its  *)
(* first one spent.  A put links its node behind the last one and moves    *)
(* Tail after it in a second compare-and-swap, which any thread that finds *)
(* Tail behind may do; a get moves Head.  Nodes are used again at once, so *)
(* every pointer carries a counter.                                        *)
(*                                                                         *)
(* Nodes come from a list of free nodes, or a block is allocated.  POP and *)
(* PUSH on that list are the ones of module LFStack and are one step here. *)
(* The semaphores work as those of the stack.  Otherwise a step is one     *)
(* access to shared memory.                                                *)
(***************************************************************************)
EXTENDS Integers, Sequences, FiniteSets

CONSTANTS
    QueueThread,
    QueueNode,      \* the nodes memory has room for
    QueueUnits,     \* AllocUnits, nodes allocated at once
    QueueModes,     \* [events, max, calls, ops]: the semaphores the queue has,
                    \* of {"Free", "Used"}; MaxUnits, -1 for no limit; a bound
                    \* on the calls; the calls made
    QueueWaits,     \* of {"no", "timed", "forever"}
    QueueSpins,     \* bound: attempts of a thread that spins (SPIN_COUNT)
    QueueGrowth     \* units by which the limit is increased

ASSUME LFQueueAssumption ==
    /\ \A m \in QueueModes : /\ m.events \subseteq {"Free", "Used"}
                             /\ m.max < 0 => "Free" \notin m.events
                             /\ m.calls \in Nat
    /\ QueueWaits \subseteq {"no", "timed", "forever"}
    /\ QueueUnits \in Nat \ {0} /\ QueueGrowth \subseteq Nat
    /\ QueueNode # {} /\ QueueNode \subseteq Nat \ {0}
    /\ QueueSpins \in Nat

VARIABLES
    qmode,
    qhead, qtail,   \* Queue->Head, Queue->Tail: [ptr, cnt]
    qlink,          \* Link of a node: [ptr, cnt]
    qmsg,           \* Msg of a node
    qfree,          \* Queue->Free, first node first
    qcount,         \* FreeCnt, UsedCnt
    qsem,           \* counts of FreeEvent, UsedEvent
    qmax,           \* MaxUnits
    qfresh,         \* nodes not allocated
    qat,            \* where a thread is in its call; "idle" outside
    qcall,          \* its call (see NoQueueCall)
    qput,           \* the messages, in the order they were linked
    qgot,           \* the messages, in the order Head passed them
    qcalls          \* calls still to come

queueVars == <<qmode, qhead, qtail, qlink, qmsg, qfree, qcount, qsem, qmax,
               qfresh, qat, qcall, qput, qgot, qcalls>>

Nil == 0

\* TailCopy, LastCopy, HeadCopy and NextNode are locals of the code.
NoPtr == [ptr |-> Nil, cnt |-> 0]
NoQueueCall == [op |-> "none", wait |-> "no", msg |-> 0, node |-> Nil,
                head |-> NoPtr, tail |-> NoPtr, last |-> NoPtr, units |-> 0,
                spins |-> 0, late |-> FALSE]

\* The count a call claims from, and the one it adds to.
Claims(c) == IF c.op = "put" THEN "Free" ELSE "Used"
Adds(c) == IF c.op = "put" THEN "Used" ELSE "Free"

GotoQ(t, p, c) ==
    /\ qat' = [qat EXCEPT ![t] = p]
    /\ qcall' = [qcall EXCEPT ![t] = c]
ReturnQ(t) == GotoQ(t, "idle", NoQueueCall)

\* The value CASPtr stores where it finds p.
CountUp(p, n) == [ptr |-> n, cnt |-> p.cnt + 1]

StartQ(t, op) ==
    /\ qat[t] = "idle" /\ qcalls > 0 /\ op \in qmode.ops
    /\ qcalls' = qcalls - 1

\* LFQueuePut, LFQueuePutWaitEx; the message is the number of the call.
PutCall(t, wait, spins) ==
    /\ StartQ(t, "put")
    /\ GotoQ(t, IF "Free" \in qmode.events THEN "decrement" ELSE "take",
             [NoQueueCall EXCEPT !.op = "put", !.wait = wait, !.msg = qcalls,
                                 !.spins = spins])
    /\ UNCHANGED <<qmode, qhead, qtail, qlink, qmsg, qfree, qcount, qsem, qmax,
                   qfresh, qput, qgot>>

\* LFQueueGet, LFQueueGetWaitEx
GetCall(t, wait, spins) ==
    /\ StartQ(t, "get")
    /\ GotoQ(t, IF "Used" \in qmode.events THEN "decrement" ELSE "head",
             [NoQueueCall EXCEPT !.op = "get", !.wait = wait, !.spins = spins])
    /\ UNCHANGED <<qmode, qhead, qtail, qlink, qmsg, qfree, qcount, qsem, qmax,
                   qfresh, qput, qgot>>

\* LFQueueIsEmpty
IsEmptyCall(t) ==
    /\ StartQ(t, "isempty")
    /\ GotoQ(t, "head", [NoQueueCall EXCEPT !.op = "isempty"])
    /\ UNCHANGED <<qmode, qhead, qtail, qlink, qmsg, qfree, qcount, qsem, qmax,
                   qfresh, qput, qgot>>

\* LFQueuePeek
PeekCall(t) ==
    /\ StartQ(t, "peek")
    /\ GotoQ(t, "head", [NoQueueCall EXCEPT !.op = "peek"])
    /\ UNCHANGED <<qmode, qhead, qtail, qlink, qmsg, qfree, qcount, qsem, qmax,
                   qfresh, qput, qgot>>

\* No node, no message: the call fails, takes its claim back first, or waits.
MissQ(t, c) ==
    CASE c.op \in {"isempty", "peek"} \/ Claims(c) \notin qmode.events -> ReturnQ(t)
      [] c.op \in {"put", "get"} /\ Claims(c) \in qmode.events /\ c.wait = "no" ->
           GotoQ(t, "forget", c)
      [] OTHER -> GotoQ(t, "wait", [c EXCEPT !.late = TRUE])

\* Decrement (&Queue->FreeCnt) >= 0, Decrement (&Queue->UsedCnt) >= 0
DecrementQ(t) ==
    LET c == qcall[t]
    IN  /\ qat[t] = "decrement"
        /\ qcount' = [qcount EXCEPT ![Claims(c)] = @ - 1]
        /\ CASE qcount[Claims(c)] > 0 -> GotoQ(t, IF c.op = "put" THEN "take" ELSE "head", c)
             [] qcount[Claims(c)] <= 0 /\ c.op = "put" -> GotoQ(t, "allocate", c)
             [] OTHER -> MissQ(t, c)
        /\ UNCHANGED <<qmode, qhead, qtail, qlink, qmsg, qfree, qsem, qmax,
                       qfresh, qput, qgot, qcalls>>

\* A node for a put: Msg is set, Link is NULL with the counter counted up.
Prepare(c, n) ==
    /\ qmsg' = [qmsg EXCEPT ![n] = c.msg]
    /\ qlink' = [qlink EXCEPT ![n] = CountUp(@, Nil)]

\* POP (Queue->Free, Node, Msg.Data)
TakeNode(t) ==
    LET c == qcall[t]
    IN  /\ qat[t] = "take"
        /\ IF qfree # <<>>
           THEN /\ qfree' = Tail(qfree)
                /\ Prepare(c, Head(qfree))
                /\ GotoQ(t, "tail", [c EXCEPT !.node = Head(qfree)])
           ELSE /\ IF c.late THEN MissQ(t, c) ELSE GotoQ(t, "allocate", c)
                /\ UNCHANGED <<qfree, qmsg, qlink>>
        /\ UNCHANGED <<qmode, qhead, qtail, qcount, qsem, qmax, qfresh, qput,
                       qgot, qcalls>>

\* LFQueueAllocNodes: some of MaxUnits, a block, all but one node to the free
\* list.  Without memory there are no further allocations.
QueueAllocNodes(t) ==
    LET c == qcall[t]
        units == IF qmax < 0 \/ QueueUnits <= qmax THEN QueueUnits ELSE qmax
        n == CHOOSE x \in qfresh : \A y \in qfresh : x <= y
        block == {x \in qfresh : x >= n /\ x < n + units}
    IN  /\ qat[t] = "allocate"
        /\ IF qmax = 0 \/ Cardinality(qfresh) < units
           THEN /\ MissQ(t, c)
                /\ qmax' = 0
                /\ UNCHANGED <<qfree, qmsg, qlink, qfresh>>
           ELSE /\ qmax' = IF qmax < 0 THEN qmax ELSE qmax - units
                /\ qfresh' = qfresh \ block
                /\ qfree' = [i \in 1 .. units - 1 |-> n + i] \o qfree
                /\ Prepare(c, n)
                /\ GotoQ(t, IF "Free" \in qmode.events THEN "credit" ELSE "tail",
                         [c EXCEPT !.node = n, !.units = units])
        /\ UNCHANGED <<qmode, qhead, qtail, qcount, qsem, qput, qgot, qcalls>>

\* LFInterlockedAdd (&Queue->FreeCnt, AllocUnits): the threads that want a
\* node, less the caller, may have the spare ones.
CreditQ(t) ==
    LET c == qcall[t]  wanting == 0 - qcount["Free"] - 1
        woken == IF wanting > c.units - 1 THEN c.units - 1 ELSE wanting
    IN  /\ qat[t] = "credit"
        /\ qcount' = [qcount EXCEPT !["Free"] = @ + c.units]
        /\ GotoQ(t, IF woken > 0 THEN "release" ELSE "tail", [c EXCEPT !.units = woken])
        /\ UNCHANGED <<qmode, qhead, qtail, qlink, qmsg, qfree, qsem, qmax,
                       qfresh, qput, qgot, qcalls>>

ReleaseQ(t) ==
    /\ qat[t] = "release"
    /\ qsem' = [qsem EXCEPT !["Free"] = @ + qcall[t].units]
    /\ GotoQ(t, "tail", qcall[t])
    /\ UNCHANGED <<qmode, qhead, qtail, qlink, qmsg, qfree, qcount, qmax, qfresh,
                   qput, qgot, qcalls>>

\* The put loop: load Tail ...
LoadTail(t) ==
    /\ qat[t] = "tail"
    /\ GotoQ(t, "last", [qcall[t] EXCEPT !.tail = qtail])
    /\ UNCHANGED <<qmode, qhead, qtail, qlink, qmsg, qfree, qcount, qsem, qmax,
                   qfresh, qput, qgot, qcalls>>

\* ... and the link of its node ...
LoadLast(t) ==
    /\ qat[t] = "last"
    /\ GotoQ(t, "check", [qcall[t] EXCEPT !.last = qlink[qcall[t].tail.ptr]])
    /\ UNCHANGED <<qmode, qhead, qtail, qlink, qmsg, qfree, qcount, qsem, qmax,
                   qfresh, qput, qgot, qcalls>>

\* ... which belong together if Tail is still the same.
CheckTail(t) ==
    LET c == qcall[t]
    IN  /\ qat[t] = "check"
        /\ GotoQ(t, CASE qtail # c.tail -> "tail"
                      [] qtail = c.tail /\ c.last.ptr = Nil -> "link"
                      [] OTHER -> "help", c)
        /\ UNCHANGED <<qmode, qhead, qtail, qlink, qmsg, qfree, qcount, qsem,
                       qmax, qfresh, qput, qgot, qcalls>>

\* CASPtr (&LastNode->Link, Node, LastCopy)
LinkNode(t) ==
    LET c == qcall[t]  last == c.tail.ptr
    IN  /\ qat[t] = "link"
        /\ IF qlink[last] = c.last
           THEN /\ qlink' = [qlink EXCEPT ![last] = CountUp(@, c.node)]
                /\ qput' = Append(qput, c.msg)
                /\ GotoQ(t, "swing", c)
           ELSE /\ GotoQ(t, "tail", c)
                /\ UNCHANGED <<qlink, qput>>
        /\ UNCHANGED <<qmode, qhead, qtail, qmsg, qfree, qcount, qsem, qmax,
                       qfresh, qgot, qcalls>>

\* Tail moves to n if it still is what the thread loaded.
MoveTail(t, n) == qtail' = IF qtail = qcall[t].tail THEN CountUp(qtail, n) ELSE qtail

\* The put moves Tail to its own node, and is done.
SwingTail(t) ==
    LET c == qcall[t]
    IN  /\ qat[t] = "swing"
        /\ MoveTail(t, c.node)
        /\ IF "Used" \in qmode.events THEN GotoQ(t, "increment", c) ELSE ReturnQ(t)
        /\ UNCHANGED <<qmode, qhead, qlink, qmsg, qfree, qcount, qsem, qmax,
                       qfresh, qput, qgot, qcalls>>

\* Somebody linked a node and did not move Tail yet; then start again.
HelpTail(t) ==
    LET c == qcall[t]
    IN  /\ qat[t] = "help"
        /\ MoveTail(t, c.last.ptr)
        /\ GotoQ(t, IF c.op = "put" THEN "tail" ELSE "head", c)
        /\ UNCHANGED <<qmode, qhead, qlink, qmsg, qfree, qcount, qsem, qmax,
                       qfresh, qput, qgot, qcalls>>

\* QueueGet: load Head ...
LoadHead(t) ==
    /\ qat[t] = "head"
    /\ GotoQ(t, "gettail", [qcall[t] EXCEPT !.head = qhead])
    /\ UNCHANGED <<qmode, qhead, qtail, qlink, qmsg, qfree, qcount, qsem, qmax,
                   qfresh, qput, qgot, qcalls>>

\* ... then Tail (order of loads is important) ...
LoadTailAfterHead(t) ==
    /\ qat[t] = "gettail"
    /\ GotoQ(t, "getnext", [qcall[t] EXCEPT !.tail = qtail])
    /\ UNCHANGED <<qmode, qhead, qtail, qlink, qmsg, qfree, qcount, qsem, qmax,
                   qfresh, qput, qgot, qcalls>>

\* ... then the second node.
LoadNext(t) ==
    /\ qat[t] = "getnext"
    /\ GotoQ(t, "getcheck", [qcall[t] EXCEPT !.last = qlink[qcall[t].head.ptr]])
    /\ UNCHANGED <<qmode, qhead, qtail, qlink, qmsg, qfree, qcount, qsem, qmax,
                   qfresh, qput, qgot, qcalls>>

\* They are coherent if Head is still the same.
CheckHead(t) ==
    LET c == qcall[t]
    IN  /\ qat[t] = "getcheck"
        /\ CASE qhead # c.head -> GotoQ(t, "head", c)
             [] qhead = c.head /\ c.head.ptr = c.tail.ptr /\ c.last.ptr = Nil ->
                  MissQ(t, c)
             [] qhead = c.head /\ c.head.ptr = c.tail.ptr /\ c.last.ptr # Nil ->
                  GotoQ(t, "help", c)
             [] qhead = c.head /\ c.head.ptr # c.tail.ptr /\ c.op = "isempty" ->
                  ReturnQ(t)
             [] OTHER -> GotoQ(t, "getmsg", c)
        /\ UNCHANGED <<qmode, qhead, qtail, qlink, qmsg, qfree, qcount, qsem,
                       qmax, qfresh, qput, qgot, qcalls>>

\* The message is read before the head moves, it may spoil after.
LoadMsg(t) ==
    LET c == qcall[t]
    IN  /\ qat[t] = "getmsg"
        /\ GotoQ(t, "gethead", [c EXCEPT !.msg = qmsg[c.last.ptr]])
        /\ UNCHANGED <<qmode, qhead, qtail, qlink, qmsg, qfree, qcount, qsem,
                       qmax, qfresh, qput, qgot, qcalls>>

\* CASPtr (&Queue->Head, NextNode, HeadCopy); a peek only compares.
MoveHead(t) ==
    LET c == qcall[t]
    IN  /\ qat[t] = "gethead"
        /\ CASE qhead = c.head /\ c.op = "get" ->
                  /\ qhead' = CountUp(qhead, c.last.ptr)
                  /\ qgot' = Append(qgot, c.msg)
                  /\ GotoQ(t, "free", [c EXCEPT !.node = c.head.ptr])
             [] qhead = c.head /\ c.op = "peek" ->
                  ReturnQ(t) /\ UNCHANGED <<qhead, qgot>>
             [] OTHER -> GotoQ(t, "head", c) /\ UNCHANGED <<qhead, qgot>>
        /\ UNCHANGED <<qmode, qtail, qlink, qmsg, qfree, qcount, qsem, qmax,
                       qfresh, qput, qcalls>>

\* PUSH (Queue->Free, Node, Msg.Data)
FreeNode(t) ==
    LET c == qcall[t]
    IN  /\ qat[t] = "free"
        /\ qfree' = <<c.node>> \o qfree
        /\ IF "Free" \in qmode.events THEN GotoQ(t, "increment", c) ELSE ReturnQ(t)
        /\ UNCHANGED <<qmode, qhead, qtail, qlink, qmsg, qcount, qsem, qmax,
                       qfresh, qput, qgot, qcalls>>

\* Increment (&Queue->UsedCnt) <= 0, Increment (&Queue->FreeCnt) <= 0
IncrementQ(t) ==
    LET c == qcall[t]
    IN  /\ qat[t] = "increment"
        /\ qcount' = [qcount EXCEPT ![Adds(c)] = @ + 1]
        /\ IF qcount[Adds(c)] < 0 THEN GotoQ(t, "signal", c) ELSE ReturnQ(t)
        /\ UNCHANGED <<qmode, qhead, qtail, qlink, qmsg, qfree, qsem, qmax,
                       qfresh, qput, qgot, qcalls>>

SignalQ(t) ==
    /\ qat[t] = "signal"
    /\ qsem' = [qsem EXCEPT ![Adds(qcall[t])] = @ + 1]
    /\ ReturnQ(t)
    /\ UNCHANGED <<qmode, qhead, qtail, qlink, qmsg, qfree, qcount, qmax, qfresh,
                   qput, qgot, qcalls>>

ForgetQ(t) ==
    /\ qat[t] = "forget"
    /\ qcount' = [qcount EXCEPT ![Claims(qcall[t])] = @ + 1]
    /\ ReturnQ(t)
    /\ UNCHANGED <<qmode, qhead, qtail, qlink, qmsg, qfree, qsem, qmax, qfresh,
                   qput, qgot, qcalls>>

\* A thread that spins or was signalled tries again.
RetryQ(c) == IF c.op = "put" THEN "take" ELSE "head"

SpinQ(t) ==
    /\ qat[t] = "wait" /\ qcall[t].spins > 0
    /\ GotoQ(t, RetryQ(qcall[t]), [qcall[t] EXCEPT !.spins = @ - 1])
    /\ UNCHANGED <<qmode, qhead, qtail, qlink, qmsg, qfree, qcount, qsem, qmax,
                   qfresh, qput, qgot, qcalls>>

WaitQ(t) ==
    LET c == qcall[t]
    IN  /\ qat[t] = "wait" /\ c.spins = 0 /\ qsem[Claims(c)] > 0
        /\ qsem' = [qsem EXCEPT ![Claims(c)] = @ - 1]
        /\ GotoQ(t, RetryQ(c), c)
        /\ UNCHANGED <<qmode, qhead, qtail, qlink, qmsg, qfree, qcount, qmax,
                       qfresh, qput, qgot, qcalls>>

WaitQFails(t) ==
    /\ qat[t] = "wait" /\ qcall[t].spins = 0 /\ qcall[t].wait = "timed"
    /\ GotoQ(t, "forget", qcall[t])
    /\ UNCHANGED <<qmode, qhead, qtail, qlink, qmsg, qfree, qcount, qsem, qmax,
                   qfresh, qput, qgot, qcalls>>

\* LFQueueIncreaseMaxLength
QueueIncreaseMaxLength(t, n) ==
    /\ StartQ(t, "grow") /\ qmax >= 0
    /\ qmax' = qmax + n
    /\ UNCHANGED <<qmode, qhead, qtail, qlink, qmsg, qfree, qcount, qsem, qfresh,
                   qat, qcall, qput, qgot>>

-----------------------------------------------------------------------------

\* LFQueueCreateBase: a first block, one node of it spent.
InitLFQueue ==
    \E m \in QueueModes :
        LET units == IF m.max < 0 \/ QueueUnits <= m.max THEN QueueUnits ELSE m.max
        IN  /\ qmode = m
            /\ qhead = [ptr |-> 1, cnt |-> 0] /\ qtail = [ptr |-> 1, cnt |-> 0]
            /\ qlink = [x \in QueueNode |-> NoPtr]
            /\ qmsg = [x \in QueueNode |-> 0]
            /\ qfree = [i \in 1 .. units - 1 |-> i + 1]
            /\ qcount = [l \in {"Free", "Used"} |->
                           IF l = "Free" /\ l \in m.events THEN units - 1 ELSE 0]
            /\ qsem = [l \in {"Free", "Used"} |-> 0]
            /\ qmax = IF m.max < 0 THEN m.max ELSE m.max - units
            /\ qfresh = {x \in QueueNode : x > units}
            /\ qat = [t \in QueueThread |-> "idle"]
            /\ qcall = [t \in QueueThread |-> NoQueueCall]
            /\ qput = <<>> /\ qgot = <<>>
            /\ qcalls = m.calls

\* Without a semaphore the timeout is ignored, without a wait fWaitSpin is.
PatienceQ(l) == IF l \in qmode.events THEN QueueWaits ELSE {"no"}
SpinsQ(wait) == IF wait = "no" THEN {0} ELSE {0, QueueSpins}

NextLFQueue ==
    \E t \in QueueThread :
        \/ \E w \in PatienceQ("Free") : \E k \in SpinsQ(w) : PutCall(t, w, k)
        \/ \E w \in PatienceQ("Used") : \E k \in SpinsQ(w) : GetCall(t, w, k)
        \/ IsEmptyCall(t)
        \/ PeekCall(t)
        \/ \E n \in QueueGrowth : QueueIncreaseMaxLength(t, n)
        \/ DecrementQ(t)
        \/ TakeNode(t)
        \/ QueueAllocNodes(t)
        \/ CreditQ(t)
        \/ ReleaseQ(t)
        \/ LoadTail(t)
        \/ LoadLast(t)
        \/ CheckTail(t)
        \/ LinkNode(t)
        \/ SwingTail(t)
        \/ HelpTail(t)
        \/ LoadHead(t)
        \/ LoadTailAfterHead(t)
        \/ LoadNext(t)
        \/ CheckHead(t)
        \/ LoadMsg(t)
        \/ MoveHead(t)
        \/ FreeNode(t)
        \/ IncrementQ(t)
        \/ SignalQ(t)
        \/ ForgetQ(t)
        \/ SpinQ(t)
        \/ WaitQ(t)
        \/ WaitQFails(t)

SpecLFQueue == InitLFQueue /\ [][NextLFQueue]_queueVars

-----------------------------------------------------------------------------

\* The messages behind the spent node, followed for as many steps as there
\* are nodes.
Messages ==
    LET walk[i \in 0 .. Cardinality(QueueNode)] ==
            IF i = 0 THEN <<>>
            ELSE LET w == walk[i - 1]
                     p == qlink[IF w = <<>> THEN qhead.ptr ELSE w[Len(w)]].ptr
                 IN  IF p = Nil \/ Len(w) < i - 1 THEN w ELSE Append(w, p)
        nodes == walk[Cardinality(QueueNode)]
    IN  [i \in 1 .. Len(nodes) |-> qmsg[nodes[i]]]

\* The messages got and those still queued are the messages put, in their
\* order, whatever steps of puts, gets and helpers interleave and however soon
\* a node is used again (LFQueuePut, QueueGet).
FirstInFirstOut == qput = qgot \o Messages

\* When no call can go on, a get that waits waits for an empty queue and a put
\* that waits has no free node: no wakeup is lost (LFQueuePutWaitEx,
\* LFQueueGetWaitEx).
QueueWakesWaiters ==
    (\A t \in QueueThread :
         \/ qat[t] = "idle"
         \/ qat[t] = "wait" /\ qcall[t].spins = 0 /\ qsem[Claims(qcall[t])] = 0)
    => \A t \in QueueThread :
           qat[t] = "wait" =>
               IF qcall[t].op = "put" THEN qfree = <<>> ELSE Messages = <<>>
=============================================================================
