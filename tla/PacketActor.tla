----------------------------- MODULE PacketActor -----------------------------
(***************************************************************************)
(* PacketSvc, the packet service of the Rust port, with one remote         *)
(* address: send(), close_connection() and stop() put messages into the    *)
(* inbox of a connection's task under the lock of the connection table;    *)
(* the task (Conn::run) owns the send queue, dials, serves the link with a *)
(* reader and a writer task, and leaves the table when it is finished.     *)
(***************************************************************************)
EXTENDS Naturals, Sequences, Functions

CONSTANTS
    ActorPackets,  \* the packets that are sent, each once
    ActorModes,    \* [server, fails, existing]: is it a server, the flag
                   \* fail_on_disconnect, the packets sent with send_on_existing
    MaxActors,     \* how many connections are ever created
    MaxDials,      \* how often they dial
    MaxActorCloses \* calls of close_connection

VARIABLES
    actorMode,
    psvc,          \* the service: stopped, the table's entry, what is counted
    sending,       \* packets whose send() has passed the test of stopped
    actor,         \* the connections' tasks
    told,          \* the outcomes process_send was given for each packet
    taken          \* the packets send() accepted, in the table lock's order

actorVars == <<actorMode, psvc, sending, actor, told, taken>>

Nobody == 0
NoFrame == "no frame"
CloseMsg == "close"
ActorIds == 1 .. MaxActors

ASSUME ActorAssumption ==
    /\ MaxActors \in Nat
    /\ CloseMsg \notin ActorPackets /\ NoFrame \notin ActorPackets

NewActor ==
    [at |-> "connect", open |-> TRUE, connected |-> FALSE, inbox |-> <<>>,
     sendq |-> <<>>, writing |-> NoFrame, abort |-> FALSE, wrote |-> <<>>]

InitActor ==
    /\ actorMode \in ActorModes
    /\ psvc = [stopped |-> FALSE, stopping |-> FALSE, table |-> Nobody,
               made |-> 0, dials |-> 0, closes |-> 0]
    /\ sending = {}
    /\ actor = [a \in ActorIds |-> [NewActor EXCEPT !.at = "none", !.open = FALSE]]
    /\ told = [p \in ActorPackets |-> <<>>]
    /\ taken = <<>>

-----------------------------------------------------------------------------
\* The test of stopped() with which Svc::send begins.
SendBegins(p) ==
    /\ p \notin sending /\ p \notin Range(taken) /\ told[p] = <<>>
    /\ \/ /\ psvc.stopped
          /\ told' = [told EXCEPT ![p] = <<"refused">>]
          /\ UNCHANGED sending
       \/ /\ ~psvc.stopped
          /\ sending' = sending \cup {p}
          /\ UNCHANGED told
    /\ UNCHANGED <<actorMode, psvc, actor, taken>>

Refuses(p) ==
    /\ told' = [told EXCEPT ![p] = <<"refused">>]
    /\ UNCHANGED <<psvc, actor, taken>>

\* The rest of Svc::send, under the table's lock: to the connection there is,
\* or to a new one if this is a client.
SendLocks(p) ==
    /\ p \in sending
    /\ sending' = sending \ {p}
    /\ UNCHANGED actorMode
    /\ LET a == psvc.table
           dials == ~actorMode.server /\ p \notin actorMode.existing
       IN  \/ /\ a # Nobody /\ ~actor[a].connected /\ ~dials
              /\ Refuses(p)
           \/ /\ a # Nobody /\ (actor[a].connected \/ dials) /\ actor[a].open
              /\ actor' = [actor EXCEPT ![a].inbox = Append(@, p)]
              /\ taken' = Append(taken, p)
              /\ UNCHANGED <<psvc, told>>
           \/ /\ a = Nobody /\ ~dials
              /\ Refuses(p)
           \/ /\ a = Nobody /\ dials /\ psvc.made < MaxActors
              /\ LET b == psvc.made + 1
                 IN  /\ actor' = [actor EXCEPT ![b] =
                                     [NewActor EXCEPT !.inbox = <<p>>]]
                     /\ psvc' = [psvc EXCEPT !.made = b, !.table = b]
              /\ taken' = Append(taken, p)
              /\ UNCHANGED told

\* Svc::attach: an accepted connection, unless there is one or we stopped.
Attach ==
    /\ actorMode.server /\ ~psvc.stopped
    /\ psvc.table = Nobody /\ psvc.made < MaxActors
    /\ LET b == psvc.made + 1
       IN  /\ actor' = [actor EXCEPT ![b] = [NewActor EXCEPT !.at = "start"]]
           /\ psvc' = [psvc EXCEPT !.made = b, !.table = b]
    /\ UNCHANGED <<actorMode, sending, told, taken>>

CloseTable == IF psvc.table = Nobody THEN actor
              ELSE [actor EXCEPT ![psvc.table].inbox = Append(@, CloseMsg)]

\* PacketSvc::close_connection.
CloseConnection ==
    /\ psvc.closes < MaxActorCloses /\ psvc.table # Nobody
    /\ actor' = CloseTable
    /\ psvc' = [psvc EXCEPT !.closes = @ + 1]
    /\ UNCHANGED <<actorMode, sending, told, taken>>

\* PacketSvc::stop: the flag, and then every connection of the table.
StopFlag ==
    /\ ~psvc.stopped
    /\ psvc' = [psvc EXCEPT !.stopped = TRUE, !.stopping = TRUE]
    /\ UNCHANGED <<actorMode, sending, actor, told, taken>>
StopTable ==
    /\ psvc.stopping
    /\ psvc' = [psvc EXCEPT !.stopping = FALSE]
    /\ actor' = CloseTable
    /\ UNCHANGED <<actorMode, sending, told, taken>>

-----------------------------------------------------------------------------
\* Conn::finish comes next, for the given reason.
Ends(x, abort) == [x EXCEPT !.at = "finish", !.abort = abort]

\* One message of the inbox, in any of the select! loops of the task.
Takes1(x) ==
    LET m == Head(x.inbox)
        y == [x EXCEPT !.inbox = Tail(@)]
    IN  IF m = CloseMsg THEN Ends([y EXCEPT !.connected = FALSE], TRUE)
        ELSE [y EXCEPT !.sendq = Append(@, m)]

\* How many packets of an inbox come before its first close: one number.
BeforeClose(inbox) ==
    {n \in 0 .. Len(inbox) :
        /\ \A i \in 1 .. n : inbox[i] # CloseMsg
        /\ n < Len(inbox) => inbox[n + 1] = CloseMsg}

\* Conn::drain_ready: the n packets up to the first close.
Drained(x, n) ==
    LET y == [x EXCEPT !.sendq = @ \o SubSeq(x.inbox, 1, n),
                       !.inbox = SubSeq(@, n + 2, Len(@))]
    IN  IF n < Len(x.inbox) THEN Ends(y, TRUE) ELSE y

\* Conn::connect up to the dial: it takes everything from the inbox before it
\* finds that there is nothing to connect for.
ConnectBegins(a) ==
    /\ actor[a].at = "connect" /\ psvc.dials < MaxDials
    /\ \E n \in BeforeClose(actor[a].inbox) :
          LET x == Drained(actor[a], n)
          IN  actor' = [actor EXCEPT ![a] =
                           IF x.at = "finish" THEN x
                           ELSE IF x.sendq = <<>> THEN Ends(x, FALSE)
                           ELSE IF psvc.stopped THEN Ends(x, TRUE)
                           ELSE [x EXCEPT !.at = "dialing"]]
    /\ psvc' = [psvc EXCEPT !.dials = @ + 1]
    /\ UNCHANGED <<actorMode, sending, told, taken>>

TakeMessage(a) ==
    /\ actor[a].at \in {"dialing", "backoff", "serve"} /\ actor[a].inbox # <<>>
    /\ actor' = [actor EXCEPT ![a] = Takes1(@)]
    /\ UNCHANGED <<actorMode, psvc, sending, told, taken>>

\* The dial is over: a link, or after a pause another try, or the end.
Dialed(a) ==
    /\ actor[a].at = "dialing"
    /\ actor' \in {[actor EXCEPT ![a].at = "start"],
                   [actor EXCEPT ![a] = IF actorMode.fails THEN Ends(@, FALSE)
                                        ELSE [@ EXCEPT !.at = "backoff"]]}
    /\ UNCHANGED <<actorMode, psvc, sending, told, taken>>

\* The end of Conn::wait_until.
BackoffOver(a) ==
    /\ actor[a].at = "backoff"
    /\ actor' = [actor EXCEPT ![a].at = "connect"]
    /\ UNCHANGED <<actorMode, psvc, sending, told, taken>>

\* Conn::serve begins: connected is set.
Serve(a) ==
    /\ actor[a].at = "start"
    /\ actor' = [actor EXCEPT ![a] = [@ EXCEPT !.at = "serve", !.connected = TRUE,
                                               !.writing = NoFrame]]
    /\ UNCHANGED <<actorMode, psvc, sending, told, taken>>

\* The top of the loop of Conn::serve: the first packet goes to the writer.
WriteFrame(a) ==
    LET x == actor[a]
    IN  /\ x.at = "serve" /\ x.writing = NoFrame /\ x.sendq # <<>>
        /\ actor' = [actor EXCEPT ![a] =
               [x EXCEPT !.writing = Head(x.sendq),
                         !.wrote = Append(x.wrote, Head(x.sendq))]]
        /\ UNCHANGED <<actorMode, psvc, sending, told, taken>>

\* The writer reports a frame.  A defect: the first packet of the queue is
\* taken to be the one that was written.
WrittenFirst(a) ==
    LET x == actor[a]
    IN  /\ x.at = "serve" /\ x.writing # NoFrame /\ x.sendq # <<>>
        /\ actor' = [actor EXCEPT ![a].writing = NoFrame, ![a].sendq = Tail(@)]
        /\ told' = [told EXCEPT ![Head(x.sendq)] = Append(@, "Success")]
        /\ UNCHANGED <<actorMode, psvc, sending, taken>>

\* The writer reports a frame: its packet succeeded, if it is still there and
\* did not time out meanwhile.
Written1(a) ==
    LET x == actor[a]
        there == x.sendq # <<>> /\ Head(x.sendq) = x.writing
    IN  /\ x.at = "serve" /\ x.writing # NoFrame
        /\ actor' = [actor EXCEPT ![a].writing = NoFrame,
                                  ![a].sendq = IF there THEN Tail(@) ELSE @]
        /\ told' = IF there THEN [told EXCEPT ![x.writing] = Append(@, "Success")]
                   ELSE told
        /\ UNCHANGED <<actorMode, psvc, sending, taken>>

\* The reader or the writer ends: Disconnect::Lost.
Lost(a) ==
    /\ actor[a].at = "serve"
    /\ actor' = [actor EXCEPT ![a] =
           LET x == [@ EXCEPT !.connected = FALSE, !.writing = NoFrame]
           IN  IF actorMode.server \/ actorMode.fails THEN Ends(x, FALSE)
               ELSE [x EXCEPT !.at = "connect"]]
    /\ UNCHANGED <<actorMode, psvc, sending, told, taken>>

\* Conn::expire, a packet whose deadline has passed at a time: it awaits deliver
\* for each, and the deadlines are arbitrary.
Expire(a, i) ==
    LET x == actor[a]
    IN  /\ x.at \in {"dialing", "backoff", "serve"}
        /\ actor' = [actor EXCEPT ![a].sendq =
                        SubSeq(@, 1, i - 1) \o SubSeq(@, i + 1, Len(@))]
        /\ told' = [told EXCEPT ![x.sendq[i]] = Append(@, "TimedOut")]
        /\ UNCHANGED <<actorMode, psvc, sending, taken>>

\* The first step of Conn::finish: it leaves the table, unless a successor has
\* taken its place.
Finish(a) ==
    /\ actor[a].at = "finish"
    /\ psvc' = [psvc EXCEPT !.table = IF @ = a THEN Nobody ELSE @]
    /\ actor' = [actor EXCEPT ![a] = [@ EXCEPT !.at = "drain", !.open = FALSE]]
    /\ UNCHANGED <<actorMode, sending, told, taken>>

\* The rest of Conn::finish: everything that is still owed an outcome.
Drain(a) ==
    LET x == actor[a]
        owed == Range(x.sendq) \cup (Range(x.inbox) \ {CloseMsg})
        status == IF x.abort \/ psvc.stopped THEN "Abort" ELSE "NoConnection"
    IN  /\ x.at = "drain"
        /\ actor' = [actor EXCEPT ![a] = [@ EXCEPT !.at = "done", !.sendq = <<>>,
                                                   !.inbox = <<>>]]
        /\ told' = [p \in ActorPackets |->
                       IF p \in owed THEN Append(told[p], status) ELSE told[p]]
        /\ UNCHANGED <<actorMode, psvc, sending, taken>>

NextActor ==
    \/ \E p \in ActorPackets : SendBegins(p) \/ SendLocks(p)
    \/ Attach \/ CloseConnection \/ StopFlag \/ StopTable
    \/ \E a \in ActorIds :
          \/ ConnectBegins(a) \/ TakeMessage(a) \/ Dialed(a) \/ BackoffOver(a)
          \/ Serve(a) \/ WriteFrame(a) \/ Written1(a) \/ Lost(a) \/ Finish(a)
          \/ Drain(a) \/ \E i \in DOMAIN actor[a].sendq : Expire(a, i)

SpecActor == InitActor /\ [][NextActor]_actorVars

-----------------------------------------------------------------------------
\* A packet send() accepted is in the inbox or in the queue of one connection,
\* or it has had its one outcome: no race of send(), a disconnect, a deadline,
\* close_connection() and stop() drops it or answers it twice, and none is
\* reported as sent whose frame was not written.
ActorAnswersOnce ==
    \A p \in Range(taken) :
        LET with == {a \in ActorIds :
                        p \in Range(actor[a].inbox) \cup Range(actor[a].sendq)}
        IN  /\ \/ told[p] = <<>> /\ \E a \in ActorIds : with = {a}
               \/ Len(told[p]) = 1 /\ with = {}
            /\ told[p] = <<"Success">> =>
                  \E a \in ActorIds : p \in Range(actor[a].wrote)

\* A connection in the table still reads its inbox, as the comment of
\* ConnHandle::enqueue claims ("which the table lock makes impossible"), and
\* one that has finished owes nobody an outcome.
TableEntryOpen ==
    /\ psvc.table # Nobody => actor[psvc.table].open
    /\ \A a \in ActorIds : actor[a].at = "done" =>
          actor[a].inbox = <<>> /\ actor[a].sendq = <<>>

\* On each connection the frames are written in the order in which send()
\* accepted the packets; one that is written again after a disconnect is
\* written before the others.
ActorInOrder ==
    \A a \in ActorIds :
        LET w == actor[a].wrote
        IN  \A i \in 1 .. Len(w) - 1 :
                \E m, n \in DOMAIN taken :
                    m <= n /\ taken[m] = w[i] /\ taken[n] = w[i + 1]

\* What became of each packet, for SendContract.
ActorFate ==
    [p \in ActorPackets |->
        IF p \notin Range(taken)
        THEN IF told[p] = <<>> THEN "unsent" ELSE told[p][1]
        ELSE IF told[p] = <<>> THEN "taken"
        ELSE IF Len(told[p]) = 1 THEN told[p][1] ELSE "answered twice"]

ActorContract == INSTANCE SendContract
                 WITH SendPackets <- ActorPackets, fate <- ActorFate

\* The Rust port implements the contract of the C++ service.
ActorKeepsContract == ActorContract!SpecContract
=============================================================================
