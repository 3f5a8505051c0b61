------------------------------ MODULE LFStack --------------------------------
(***************************************************************************)
(* The lock-free stack of LF.c.  Its nodes move between two linked lists,  *)
(* Free and Head.  A list is a pointer packed with a counter, and POP and  *)
(* PUSH change it by a compare-and-swap that counts up (the 64-bit build). *)
(* A push takes a node from Free, or allocates a block of nodes, and puts  *)
(* it on Head; a pop does the reverse.                                     *)
(*                                                                         *)
(* A stack may have a semaphore for threads that wait for a free node      *)
(* (FreeEvent) and one for threads that wait for a push (UsedEvent), each  *)
(* with a count of the nodes of its list less the threads that want one.   *)
(*                                                                         *)
(* A step is one access to shared memory: a load, an interlocked operation *)
(* or a call on a semaphore, with the thread's own computations.           *)
(***************************************************************************)
EXTENDS Integers, Sequences, FiniteSets

CONSTANTS
    StackThread,
    StackNode,      \* the nodes memory has room for
    AllocUnits,     \* nodes allocated at once
    StackModes,     \* [events, max, calls]: the semaphores the stack has, of
                    \* {"Free", "Head"}; MaxUnits, -1 for no limit; and the
                    \* number of calls, a bound
    StackWaits,     \* of {"no", "timed", "forever"}: a call that does not
                    \* wait, or its timeout
    MaxStackSpins,  \* bound: POPs while a thread spins (SPIN_COUNT)
    StackGrowth     \* units by which the limit, the nodes are increased

ASSUME LFStackAssumption ==
    /\ \A m \in StackModes : /\ m.events \subseteq {"Free", "Head"}
                             /\ m.max < 0 => "Free" \notin m.events
                             /\ m.calls \in Nat
    /\ StackWaits \subseteq {"no", "timed", "forever"}
    /\ AllocUnits \in Nat \ {0} /\ StackGrowth \subseteq Nat
    /\ StackNode # {} /\ StackNode \subseteq Nat \ {0}
    /\ MaxStackSpins \in Nat

VARIABLES
    smode,          \* which semaphores the stack has
    list,           \* Stack->Free, Stack->Head: [ptr, cnt]
    nodeNext,       \* NodeNext of a node
    nodeData,       \* Data of a node
    count,          \* FreeCnt, UsedCnt
    semaphore,      \* counts of FreeEvent, UsedEvent
    maxUnits,       \* MaxUnits
    fresh,          \* nodes not allocated
    sat,            \* where a thread is in its call; "idle" outside
    scall,          \* its call (see NoStackCall)
    pushed,         \* the values whose push took effect, a set
    popped,         \* the values popped, a sequence
    scalls          \* calls still to come (bounded by smode)

stackVars == <<smode, list, nodeNext, nodeData, count, semaphore, maxUnits,
               fresh, sat, scall, pushed, popped, scalls>>

Null == 0

\* op "push", "pop" or "grow"; the value to push; the node held; the copies of
\* a list and of a link; the nodes of a block still to be freed; the nodes to
\* count or to signal; the spins left; late: the thread spins or waits.
NoStackCall == [op |-> "none", wait |-> "no", val |-> 0, node |-> Null,
                copy |-> [ptr |-> Null, cnt |-> 0], nxt |-> Null, spare |-> {},
                units |-> 0, spins |-> 0, late |-> FALSE]

\* The list a call takes its node from, and the one it puts it on.
From(c) == IF c.op = "pop" THEN "Head" ELSE "Free"
To(c) == IF c.op = "push" THEN "Head" ELSE "Free"

GotoS(t, p, c) ==
    /\ sat' = [sat EXCEPT ![t] = p]
    /\ scall' = [scall EXCEPT ![t] = c]
ReturnS(t) == GotoS(t, "idle", NoStackCall)

StartS(t) ==
    /\ sat[t] = "idle" /\ scalls > 0
    /\ scalls' = scalls - 1

\* LFStackPush, LFStackPushWaitEx; the value pushed is the number of the call.
\* With a FreeEvent a node is claimed in FreeCnt first.
PushCall(t, wait, spins) ==
    /\ StartS(t)
    /\ GotoS(t, IF "Free" \in smode.events THEN "decrement" ELSE "load",
             [NoStackCall EXCEPT !.op = "push", !.wait = wait, !.val = scalls,
                                 !.spins = spins])
    /\ UNCHANGED <<smode, list, nodeNext, nodeData, count, semaphore, maxUnits,
                   fresh, pushed, popped>>

\* LFStackPop, LFStackPopWaitEx
PopCall(t, wait, spins) ==
    /\ StartS(t)
    /\ GotoS(t, IF "Head" \in smode.events THEN "decrement" ELSE "load",
             [NoStackCall EXCEPT !.op = "pop", !.wait = wait, !.spins = spins])
    /\ UNCHANGED <<smode, list, nodeNext, nodeData, count, semaphore, maxUnits,
                   fresh, pushed, popped>>

\* There is no node for the call: it fails, takes its claim back first, or waits.
Miss(t, c) ==
    CASE From(c) \notin smode.events -> ReturnS(t)
      [] From(c) \in smode.events /\ c.wait = "no" -> GotoS(t, "forget", c)
      [] OTHER -> GotoS(t, "wait", [c EXCEPT !.late = TRUE])

\* Decrement (&Stack->FreeCnt) >= 0, Decrement (&Stack->UsedCnt) >= 0
DecrementCount(t) ==
    LET c == scall[t]
    IN  /\ sat[t] = "decrement"
        /\ count' = [count EXCEPT ![From(c)] = @ - 1]
        /\ CASE count[From(c)] > 0 -> GotoS(t, "load", c)
             [] count[From(c)] <= 0 /\ c.op = "push" -> GotoS(t, "allocate", c)
             [] OTHER -> Miss(t, c)
        /\ UNCHANGED <<smode, list, nodeNext, nodeData, semaphore, maxUnits,
                       fresh, pushed, popped, scalls>>

\* POP: load the list ...
PopLoad(t) ==
    LET c == scall[t]  l == list[From(c)]
    IN  /\ sat[t] = "load"
        /\ CASE l.ptr # Null -> GotoS(t, "next", [c EXCEPT !.copy = l])
             [] l.ptr = Null /\ c.op = "push" /\ ~c.late -> GotoS(t, "allocate", c)
             [] OTHER -> Miss(t, c)
        /\ UNCHANGED <<smode, list, nodeNext, nodeData, count, semaphore,
                       maxUnits, fresh, pushed, popped, scalls>>

\* ... and the link of its node ...
PopNext(t) ==
    /\ sat[t] = "next"
    /\ GotoS(t, "swap", [scall[t] EXCEPT !.nxt = nodeNext[scall[t].copy.ptr]])
    /\ UNCHANGED <<smode, list, nodeNext, nodeData, count, semaphore, maxUnits,
                   fresh, pushed, popped, scalls>>

\* A defect: the counter stays, and only says what it said before.
CASPtrPlain(l, p) == [list EXCEPT ![l].ptr = p]

\* CASPtr on a list that is still what it was: the new pointer, and count up.
CASPtr(l, p) == [list EXCEPT ![l] = [ptr |-> p, cnt |-> @.cnt + 1]]

\* ... and swap, if nothing has changed.  The node is out; a pop returns its
\* data.
PopSwap(t) ==
    LET c == scall[t]  l == From(c)
    IN  /\ sat[t] = "swap"
        /\ IF list[l] = c.copy
           THEN /\ list' = CASPtr(l, c.nxt)
                /\ GotoS(t, "link", [c EXCEPT !.node = c.copy.ptr])
                /\ popped' = IF c.op = "pop"
                             THEN Append(popped, nodeData[c.copy.ptr]) ELSE popped
           ELSE /\ GotoS(t, "load", c)
                /\ UNCHANGED <<list, popped>>
        /\ UNCHANGED <<smode, nodeNext, nodeData, count, semaphore, maxUnits,
                       fresh, pushed, scalls>>

\* Spare nodes go to Free one by one; with a FreeEvent they are then counted.
AfterSpare(spare) ==
    IF spare # {} \/ "Free" \notin smode.events THEN "link" ELSE "credit"

\* The block that units of MaxUnits buy: none at the limit or without memory.
Reserved(units) == IF maxUnits < 0 \/ units <= maxUnits THEN units ELSE maxUnits
Block(units) ==
    IF units = 0 \/ Cardinality(fresh) < units THEN {}
    ELSE CHOOSE b \in SUBSET fresh : Cardinality(b) = units

\* Reserve units and allocate them (without memory, MaxUnits becomes 0).
Allocate(units) ==
    /\ fresh' = fresh \ Block(units)
    /\ maxUnits' = CASE maxUnits = 0 \/ Block(units) = {} -> 0
                     [] maxUnits < 0 /\ Block(units) # {} -> maxUnits
                     [] OTHER -> maxUnits - units

\* LFStackAllocNodes
StackAllocNodes(t) ==
    LET c == scall[t]  b == Block(Reserved(AllocUnits))
        n == CHOOSE x \in b : TRUE
    IN  /\ sat[t] = "allocate"
        /\ Allocate(Reserved(AllocUnits))
        /\ IF b = {} THEN Miss(t, c)
           ELSE GotoS(t, AfterSpare(b \ {n}),
                      [c EXCEPT !.node = n, !.spare = b \ {n},
                                !.units = Cardinality(b)])
        /\ UNCHANGED <<smode, list, nodeNext, nodeData, count, semaphore, pushed,
                       popped, scalls>>

\* LFStackIncreaseNumberOfNodes
StackIncreaseNumberOfNodes(t, n) ==
    LET b == Block(Reserved(n))
    IN  /\ StartS(t)
        /\ Allocate(Reserved(n))
        /\ IF b = {} THEN UNCHANGED <<sat, scall>>
           ELSE GotoS(t, "link", [NoStackCall EXCEPT !.op = "grow", !.spare = b,
                                                     !.units = Cardinality(b)])
        /\ UNCHANGED <<smode, list, nodeNext, nodeData, count, semaphore, pushed,
                       popped>>

\* LFStackIncreaseMaxDepth
StackIncreaseMaxDepth(t, n) ==
    /\ StartS(t) /\ maxUnits >= 0
    /\ maxUnits' = maxUnits + n
    /\ UNCHANGED <<smode, list, nodeNext, nodeData, count, semaphore, fresh, sat,
                   scall, pushed, popped>>

\* The spare nodes are free: count them.  The threads that want a node, less
\* the caller, may have them.
CreditNodes(t) ==
    LET c == scall[t]  own == IF c.op = "push" THEN 1 ELSE 0
        wanting == 0 - count["Free"] - own
        spare == c.units - own
        woken == IF wanting > spare THEN spare ELSE wanting
    IN  /\ sat[t] = "credit"
        /\ count' = [count EXCEPT !["Free"] = @ + c.units]
        /\ CASE woken > 0 -> GotoS(t, "release", [c EXCEPT !.units = woken])
             [] woken <= 0 /\ c.op = "push" -> GotoS(t, "link", c)
             [] OTHER -> ReturnS(t)
        /\ UNCHANGED <<smode, list, nodeNext, nodeData, semaphore, maxUnits,
                       fresh, pushed, popped, scalls>>

\* ReleaseSemaphore (Stack->FreeEvent, ...) of an allocation; a push goes on.
ReleaseNodes(t) ==
    LET c == scall[t]
    IN  /\ sat[t] = "release"
        /\ semaphore' = [semaphore EXCEPT !["Free"] = @ + c.units]
        /\ IF c.op = "push" THEN GotoS(t, "link", c) ELSE ReturnS(t)
        /\ UNCHANGED <<smode, list, nodeNext, nodeData, count, maxUnits, fresh,
                       pushed, popped, scalls>>

\* The node a thread puts on a list now, and the list.
Putting(c) ==
    IF c.spare = {} THEN [node |-> c.node, to |-> To(c)]
    ELSE [node |-> CHOOSE n \in c.spare : TRUE, to |-> "Free"]

\* PUSH: load the list and link it behind the node ...
PushLink(t) ==
    LET c == scall[t]  p == Putting(c)
    IN  /\ sat[t] = "link"
        /\ nodeNext' = [nodeNext EXCEPT ![p.node] = list[p.to].ptr]
        /\ nodeData' = IF p.to = "Head" THEN [nodeData EXCEPT ![p.node] = c.val]
                       ELSE nodeData
        /\ GotoS(t, "put", [c EXCEPT !.copy = list[p.to]])
        /\ UNCHANGED <<smode, list, count, semaphore, maxUnits, fresh, pushed,
                       popped, scalls>>

\* ... and swap, if nothing has changed.
PushSwap(t) ==
    LET c == scall[t]  p == Putting(c)  rest == c.spare \ {p.node}
    IN  /\ sat[t] = "put"
        /\ IF list[p.to] # c.copy
           THEN GotoS(t, "link", c) /\ UNCHANGED <<list, pushed>>
           ELSE /\ list' = CASPtr(p.to, p.node)
                /\ pushed' = IF p.to = "Head" THEN pushed \cup {c.val} ELSE pushed
                /\ CASE rest # {} \/ (c.spare # {} /\ c.op = "push")
                          \/ (c.spare # {} /\ "Free" \in smode.events) ->
                          GotoS(t, AfterSpare(rest), [c EXCEPT !.spare = rest])
                     [] c.spare = {} /\ To(c) \in smode.events ->
                          GotoS(t, "increment", c)
                     [] OTHER -> ReturnS(t)
        /\ UNCHANGED <<smode, nodeNext, nodeData, count, semaphore, maxUnits,
                       fresh, popped, scalls>>

\* Increment (&Stack->UsedCnt) <= 0, Increment (&Stack->FreeCnt) <= 0: a
\* thread wants the node.
IncrementCount(t) ==
    LET c == scall[t]
    IN  /\ sat[t] = "increment"
        /\ count' = [count EXCEPT ![To(c)] = @ + 1]
        /\ IF count[To(c)] < 0 THEN GotoS(t, "signal", c) ELSE ReturnS(t)
        /\ UNCHANGED <<smode, list, nodeNext, nodeData, semaphore, maxUnits,
                       fresh, pushed, popped, scalls>>

\* ReleaseSemaphore (..., 1, NULL)
SignalNode(t) ==
    /\ sat[t] = "signal"
    /\ semaphore' = [semaphore EXCEPT ![To(scall[t])] = @ + 1]
    /\ ReturnS(t)
    /\ UNCHANGED <<smode, list, nodeNext, nodeData, count, maxUnits, fresh,
                   pushed, popped, scalls>>

\* Increment (&Stack->FreeCnt), Increment (&Stack->UsedCnt) of a call that fails
ForgetClaim(t) ==
    /\ sat[t] = "forget"
    /\ count' = [count EXCEPT ![From(scall[t])] = @ + 1]
    /\ ReturnS(t)
    /\ UNCHANGED <<smode, list, nodeNext, nodeData, semaphore, maxUnits, fresh,
                   pushed, popped, scalls>>

\* Before it waits a thread may spin on POP.
SpinNode(t) ==
    /\ sat[t] = "wait" /\ scall[t].spins > 0
    /\ GotoS(t, "load", [scall[t] EXCEPT !.spins = @ - 1])
    /\ UNCHANGED <<smode, list, nodeNext, nodeData, count, semaphore, maxUnits,
                   fresh, pushed, popped, scalls>>

\* LF_WAIT succeeds: POP again, the signal may be bogus.
WaitNode(t) ==
    LET l == From(scall[t])
    IN  /\ sat[t] = "wait" /\ scall[t].spins = 0
        /\ semaphore[l] > 0
        /\ semaphore' = [semaphore EXCEPT ![l] = @ - 1]
        /\ GotoS(t, "load", scall[t])
        /\ UNCHANGED <<smode, list, nodeNext, nodeData, count, maxUnits, fresh,
                       pushed, popped, scalls>>

WaitNodeFails(t) ==
    /\ sat[t] = "wait" /\ scall[t].spins = 0 /\ scall[t].wait = "timed"
    /\ GotoS(t, "forget", scall[t])
    /\ UNCHANGED <<smode, list, nodeNext, nodeData, count, semaphore, maxUnits,
                   fresh, pushed, popped, scalls>>

-----------------------------------------------------------------------------

\* LFStackCreateBase: one node is free.
InitLFStack ==
    LET n == CHOOSE x \in StackNode : TRUE
    IN  /\ smode \in StackModes
        /\ list = [l \in {"Free", "Head"} |->
                      [ptr |-> IF l = "Free" THEN n ELSE Null, cnt |-> 0]]
        /\ nodeNext = [x \in StackNode |-> Null]
        /\ nodeData = [x \in StackNode |-> 0]
        /\ count = [l \in {"Free", "Head"} |->
                       IF l = "Free" /\ "Free" \in smode.events THEN 1 ELSE 0]
        /\ semaphore = [l \in {"Free", "Head"} |-> 0]
        /\ maxUnits = smode.max
        /\ fresh = StackNode \ {n}
        /\ sat = [t \in StackThread |-> "idle"]
        /\ scall = [t \in StackThread |-> NoStackCall]
        /\ pushed = {} /\ popped = <<>>
        /\ scalls = smode.calls

\* Without a semaphore the timeout is ignored, without a wait fWaitSpin is.
Patience(l) == IF l \in smode.events THEN StackWaits ELSE {"no"}
Spins(wait) == IF wait = "no" THEN {0} ELSE {0, MaxStackSpins}

NextLFStack ==
    \E t \in StackThread :
        \/ \E w \in Patience("Free") : \E k \in Spins(w) : PushCall(t, w, k)
        \/ \E w \in Patience("Head") : \E k \in Spins(w) : PopCall(t, w, k)
        \/ \E n \in StackGrowth : StackIncreaseNumberOfNodes(t, n)
        \/ \E n \in StackGrowth : StackIncreaseMaxDepth(t, n)
        \/ DecrementCount(t)
        \/ PopLoad(t)
        \/ PopNext(t)
        \/ PopSwap(t)
        \/ StackAllocNodes(t)
        \/ CreditNodes(t)
        \/ ReleaseNodes(t)
        \/ PushLink(t)
        \/ PushSwap(t)
        \/ IncrementCount(t)
        \/ SignalNode(t)
        \/ ForgetClaim(t)
        \/ SpinNode(t)
        \/ WaitNode(t)
        \/ WaitNodeFails(t)

SpecLFStack == InitLFStack /\ [][NextLFStack]_stackVars

-----------------------------------------------------------------------------

\* The nodes of a list, followed for as many steps as there are nodes.
Nodes(l) ==
    LET walk[i \in 0 .. Cardinality(StackNode)] ==
            IF i = 0 THEN <<>>
            ELSE LET w == walk[i - 1]
                     p == IF w = <<>> THEN list[l].ptr ELSE nodeNext[w[Len(w)]]
                 IN  IF p = Null \/ Len(w) < i - 1 THEN w ELSE Append(w, p)
    IN  walk[Cardinality(StackNode)]

\* Every value whose push took effect is on the stack or was popped, and not
\* twice: no compare-and-swap succeeds against a list that was changed and
\* changed back while a thread held its copy (PUSH and POP).
ValuesConserved ==
    LET on == [i \in 1 .. Len(Nodes("Head")) |-> nodeData[Nodes("Head")[i]]]
        all == popped \o on
    IN  /\ {all[i] : i \in 1 .. Len(all)} = pushed
        /\ Len(all) = Cardinality(pushed)

\* When no call can go on, a call that waits for a node waits for a list that
\* is empty: no push, pop, allocation or failed call loses a wakeup, though
\* signals are taken by threads that no longer need them
\* (LFStackPushWaitEx, LFStackPopWaitEx).
NodesWakeWaiters ==
    (\A t \in StackThread :
         \/ sat[t] = "idle"
         \/ sat[t] = "wait" /\ scall[t].spins = 0
                /\ semaphore[From(scall[t])] = 0)
    => \A t \in StackThread :
           sat[t] = "wait" => list[From(scall[t])].ptr = Null
=============================================================================
