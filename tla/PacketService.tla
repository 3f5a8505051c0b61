---------------------------- MODULE PacketService ----------------------------
(***************************************************************************)
(* NetPacketSvc with one remote address: the packets an application sends, *)
(* the connections (NetCxn) that carry them, the queue for sends that      *)
(* missed a lock, the timeout queue, disconnects, reconnects and Stop().   *)
(* Every step below is a call that runs under the connection's mutex, or   *)
(* under the service's; a mutex that is tried may be found taken.  The one *)
(* call that waits for a mutex while it has another one is a step of its   *)
(* own: EventTimeout() has the timeout handler's when the application it   *)
(* calls back closes the connection, Stop() takes them the other way.      *)
(*                                                                         *)
(* The application is RSL: its ProcessSend() may call CloseConnection()    *)
(* for a packet that failed other than by an abort, and its other          *)
(* callbacks do not call back into the library.                            *)
(***************************************************************************)
EXTENDS Naturals, Sequences, SequencesExt, FiniteSets

CONSTANTS
    Packets,       \* the packets the application sends, each once
    ServiceModes,  \* [server, fails, closes, stops, existing]: is it a server,
                   \* SetFailPacketsOnDisconnect, does the application call
                   \* CloseConnection and Stop, and the packets sent with
                   \* sendOnExisting
    MaxCxns,       \* how many NetCxn objects are ever created
    MaxConnects,   \* how many times a connect is started
    MaxCloses      \* how many times the application closes the connection

VARIABLES
    svcMode,       \* which service this is, from ServiceModes
    net,           \* the service, its queues and its connections
    accepted,      \* the packets Send() took (TxSuccess), in that order
    wire           \* the packets given to the socket, in the order they were
                   \* first written

serviceVars == <<svcMode, net, accepted, wire>>

NoPacket == "none"
Cxns == 1 .. MaxCxns

\* A NetCxn as its constructor leaves it.
NewCxn ==
    [live |-> TRUE, svc |-> TRUE, closed |-> FALSE, abort |-> FALSE,
     vc |-> FALSE, connecting |-> FALSE, event |-> "none", inEvent |-> FALSE,
     sendq |-> <<>>, disq |-> <<>>, ctx |-> NoPacket, busy |-> FALSE]

InitService ==
    /\ svcMode \in ServiceModes
    /\ net = [stopped |-> FALSE, stopping |-> 0, table |-> 0, made |-> 0,
              connects |-> 0, closes |-> 0, retryq |-> <<>>, retries |-> 0,
              timeouts |-> {}, timing |-> 0, stuck |-> FALSE,
              crashed |-> FALSE,
              cxn |-> [c \in Cxns |-> [NewCxn EXCEPT !.live = FALSE]],
              answers |-> [p \in Packets |-> <<>>]]
    /\ accepted = <<>>
    /\ wire = <<>>

-----------------------------------------------------------------------------
\* NetCxn::CloseConnection.  A defect: the packets stay in the timeout queue.
CloseCxnTimed(s, c, abort) ==
    LET k == [s.cxn[c] EXCEPT !.connecting = FALSE, !.abort = @ \/ abort]
        drop == k.abort \/ svcMode.server \/ svcMode.fails
    IN  IF k.closed
        THEN [s EXCEPT !.cxn[c] = k]
        ELSE [s EXCEPT !.cxn[c] =
                 [k EXCEPT !.closed = TRUE,
                           !.disq = IF drop THEN @ \o k.sendq ELSE @,
                           !.sendq = IF drop THEN <<>> ELSE @,
                           !.ctx = NoPacket, !.busy = FALSE, !.vc = FALSE,
                           !.event = IF @ = "none" /\ ~k.inEvent
                                     THEN "immediate" ELSE @]]

\* NetCxn::CloseConnection: a pending connect is cancelled.  The first close
\* takes the packets out of the timeout queue and sets them aside to be
\* answered, unless a client is to send them again on a new connection, and
\* sees to it that CloseCleanup() follows.
CloseCxn(s, c, abort) ==
    LET k == [s.cxn[c] EXCEPT !.connecting = FALSE, !.abort = @ \/ abort]
        drop == k.abort \/ svcMode.server \/ svcMode.fails
    IN  IF k.closed
        THEN [s EXCEPT !.cxn[c] = k]
        ELSE [s EXCEPT
                 !.timeouts = IF drop THEN @ \ ToSet(k.sendq) ELSE @,
                 !.cxn[c] =
                 [k EXCEPT !.closed = TRUE,
                           !.disq = IF drop THEN @ \o k.sendq ELSE @,
                           !.sendq = IF drop THEN <<>> ELSE @,
                           !.ctx = NoPacket, !.busy = FALSE, !.vc = FALSE,
                           !.event = IF @ = "none" /\ ~k.inEvent
                                     THEN "immediate" ELSE @]]

\* NetPacketSvc::CloseConnection.
SvcCloseConnection(s) ==
    LET t == [s EXCEPT !.closes = @ + 1]
    IN  IF s.table = 0 THEN t ELSE CloseCxn(t, s.table, TRUE)

MayClose(s) == svcMode.closes /\ s.closes < MaxCloses

\* The application's ProcessSend(): it is told what became of the packet, and
\* may close the connection to a peer it could not reach.
ProcessSend(s, p, status) ==
    LET told == [s EXCEPT !.answers[p] = Append(@, status)]
    IN  {told} \cup
        {SvcCloseConnection(t) : t \in
            {u \in {told} : status \notin {"Success", "Abort"} /\ MayClose(u)}}

ProcessSends(s, q, status) ==
    FoldLeft(LAMBDA S, p : UNION {ProcessSend(t, p, status) : t \in S}, {s}, q)

\* NetProcessor::Connect for connection c: it is under way, or fails at once,
\* and then NET_EVENT_CONNECT_FAILED has scheduled PACKET_CONNECT_FAILED.
StartConnect(s, c) ==
    LET t == [s EXCEPT !.connects = @ + 1]
    IN  {[t EXCEPT !.cxn[c].connecting = TRUE],
         [t EXCEPT !.cxn[c].event = "connectFailed"]}

\* NetCxn::ReConnect asserts that there still is a service, and a client's.
ReConnect(s, c) ==
    IF ~s.cxn[c].svc \/ svcMode.server \/ s.cxn[c].disq # <<>>
    THEN {[s EXCEPT !.crashed = TRUE]}
    ELSE StartConnect([s EXCEPT !.cxn[c].closed = FALSE, !.cxn[c].abort = FALSE,
                                !.cxn[c].ctx = NoPacket], c)

\* NetCxn::CloseCleanup.  A defect: a connection that finds the service's
\* mutex taken does not come back.
CloseCleanupOnce(s, c) ==
    LET status == IF s.cxn[c].abort THEN "Abort" ELSE "NoConnection"
        told == ProcessSends([s EXCEPT !.cxn[c].event = "none",
                                       !.cxn[c].disq = <<>>],
                             s.cxn[c].disq, status)
    IN  UNION {IF t.cxn[c].sendq # <<>> THEN ReConnect(t, c)
               ELSE IF ~t.cxn[c].svc THEN {[t EXCEPT !.cxn[c].live = FALSE]}
               ELSE {t, [t EXCEPT !.table = 0, !.cxn[c].live = FALSE]} :
               t \in told}

\* NetCxn::CloseCleanup: the packets set aside are answered; packets sent
\* meanwhile make the connection connect again; otherwise it leaves the table
\* and is deleted, and tries later when the service's mutex is taken.
CloseCleanup(s, c) ==
    LET status == IF s.cxn[c].abort THEN "Abort" ELSE "NoConnection"
        told == ProcessSends([s EXCEPT !.cxn[c].event = "none",
                                       !.cxn[c].disq = <<>>],
                             s.cxn[c].disq, status)
    IN  UNION {IF t.cxn[c].sendq # <<>> THEN ReConnect(t, c)
               ELSE IF ~t.cxn[c].svc THEN {[t EXCEPT !.cxn[c].live = FALSE]}
               ELSE {[t EXCEPT !.cxn[c].event = "immediate"],
                     [t EXCEPT !.table = 0, !.cxn[c].live = FALSE]} :
               t \in told}

\* The end of NetCxn::HandlePacketEvent, and its start.
Entered(s, c) == [s EXCEPT !.cxn[c].inEvent = TRUE]
Leave(s, c) ==
    LET t == [s EXCEPT !.cxn[c].inEvent = FALSE]
    IN  IF t.cxn[c].closed THEN CloseCleanup(t, c) ELSE {t}

\* The last part of NetCxn::ProcessQueuedPacketsForWrite: the next packet goes
\* to the socket once the buffer of the last one has been written.
WriteNext(s, c) ==
    LET k == s.cxn[c]
    IN  IF k.busy \/ k.sendq = <<>> THEN s
        ELSE [s EXCEPT !.cxn[c].ctx = Head(k.sendq), !.cxn[c].busy = TRUE]

\* NetCxn::EnqueuePacket, when it takes the packet.
Takes(s, c, p) ==
    \/ ~s.cxn[c].closed
    \/ /\ ~svcMode.server
       /\ ~(p \in svcMode.existing /\ s.cxn[c].sendq = <<>>)
EnqueuePacket(s, c, p) ==
    LET t == [s EXCEPT !.cxn[c].sendq = Append(@, p), !.timeouts = @ \cup {p}]
    IN  IF t.cxn[c].vc THEN WriteNext(t, c) ELSE t

-----------------------------------------------------------------------------
\* The loop of NetPacketSvc::ProcessSendRetryQueue for one packet: a client
\* without a connection makes one.  refused is what EnqueuePacket or the
\* service answers instead of TxSuccess.
Creates(s, p) ==
    /\ s.table = 0 /\ ~svcMode.server /\ ~s.stopped
    /\ p \notin svcMode.existing
Refused(s, p) ==
    IF s.table = 0 THEN IF s.stopped THEN "Abort" ELSE "NoConnection"
    ELSE IF Takes(s, s.table, p) THEN "Success" ELSE "NoConnection"

\* NetPacketSvc::ProcessSendRetryQueue with the packets of the retry queue, in
\* their order; those that are refused are answered.  Connect() is called once
\* all have been queued.
RECURSIVE SendAll(_, _, _)
SendAll(s, q, created) ==
    IF q = <<>>
    THEN IF created # 0 THEN StartConnect(s, created) ELSE {s}
    ELSE LET p == Head(q)
             c == s.made + 1
             made == [s EXCEPT !.made = c, !.table = c, !.cxn[c] = NewCxn]
         IN  IF Creates(s, p)
             THEN SendAll(EnqueuePacket(made, c, p), Tail(q), c)
             ELSE IF Refused(s, p) = "Success"
             THEN SendAll(EnqueuePacket(s, s.table, p), Tail(q), created)
             ELSE UNION {SendAll(t, Tail(q), created) :
                         t \in ProcessSend(s, p, Refused(s, p))}

MayCreate(s) ==
    s.table = 0 => s.made < MaxCxns /\ s.connects < MaxConnects

\* The packets that have not been offered to Send() yet.
Unsent ==
    {p \in Packets : /\ p \notin ToSet(accepted)
                     /\ net.answers[p] = <<>>}

\* What Send() is given is first written to the socket in this order.
Written(s) ==
    wire' = wire \o
        SetToSeq({p \in {s.cxn[c].ctx : c \in Cxns} \ {NoPacket} :
                    p \notin ToSet(wire)})

Becomes(S) == \E s \in S : net' = s /\ Written(s)

\* The mutex of connection c, and the two mutexes TrySend() asks for.
Free(c) == ~net.crashed /\ ~net.stuck /\ net.timing # c
Locks == ~net.crashed /\ ~net.stuck /\ (net.table = 0 \/ net.timing # net.table)

\* NetPacketSvc::TrySend and ProcessSendRetryQueue for a new packet.  A
\* defect: packets that wait in the retry queue are overtaken.
SendLockedAtOnce(p) ==
    /\ Locks /\ p \in Unsent /\ MayCreate(net)
    /\ UNCHANGED svcMode
    /\ \/ /\ Creates(net, p) \/ Refused(net, p) = "Success"
          /\ Becomes(SendAll(net, <<p>>, 0))
          /\ accepted' = Append(accepted, p)
       \/ /\ ~Creates(net, p) /\ Refused(net, p) # "Success"
          /\ net' = [net EXCEPT !.answers[p] = <<"refused">>]
          /\ UNCHANGED <<accepted, wire>>

\* NetPacketSvc::Send, TrySend and ProcessSendRetryQueue when both mutexes are
\* got: behind packets that wait for a retry, or on the connection.  The
\* caller learns of a refusal from the result and is not called back.
SendLocked(p) ==
    /\ Locks /\ p \in Unsent /\ MayCreate(net)
    /\ UNCHANGED svcMode
    /\ \/ /\ net.retryq # <<>>
          /\ net' = [net EXCEPT !.retryq = Append(@, p)]
          /\ accepted' = Append(accepted, p)
          /\ UNCHANGED wire
       \/ /\ net.retryq = <<>>
          /\ Creates(net, p) \/ Refused(net, p) = "Success"
          /\ Becomes(SendAll(net, <<p>>, 0))
          /\ accepted' = Append(accepted, p)
       \/ /\ net.retryq = <<>>
          /\ ~Creates(net, p) /\ Refused(net, p) # "Success"
          /\ net' = [net EXCEPT !.answers[p] = <<"refused">>]
          /\ UNCHANGED <<accepted, wire>>

\* The same when a mutex is taken: ScheduleSendRetry queues the packet and an
\* event to come back for it.
SendMissed(p) ==
    /\ ~net.crashed /\ p \in Unsent
    /\ net' = [net EXCEPT !.retryq = Append(@, p), !.retries = @ + 1]
    /\ accepted' = Append(accepted, p)
    /\ UNCHANGED <<svcMode, wire>>

\* NetSendRetry::HandleEvent when the mutexes are got; when one is taken the
\* event is scheduled again, which changes nothing.
SendRetry ==
    /\ Locks /\ net.retries > 0 /\ MayCreate(net)
    /\ Becomes(SendAll([net EXCEPT !.retries = @ - 1, !.retryq = <<>>],
                       net.retryq, 0))
    /\ UNCHANGED <<svcMode, accepted>>

-----------------------------------------------------------------------------
\* NetServerAcceptor::HandleEvent: a second connection from an address that
\* has one is closed, which changes nothing here.
Accept ==
    /\ Locks /\ svcMode.server /\ ~net.stopped
    /\ net.table = 0 /\ net.made < MaxCxns
    /\ LET c == net.made + 1
       IN  net' = [net EXCEPT !.made = c, !.table = c,
                              !.cxn[c] = [NewCxn EXCEPT !.vc = TRUE]]
    /\ UNCHANGED <<svcMode, accepted, wire>>

Handled(c, S) ==
    /\ Becomes(UNION {Leave(s, c) : s \in S})
    /\ UNCHANGED <<svcMode, accepted>>

\* NET_EVENT_CONNECT: NetCxn::Start.
Connected(c) ==
    /\ Free(c) /\ net.cxn[c].live /\ net.cxn[c].connecting
    /\ Handled(c, {WriteNext([Entered(net, c) EXCEPT
                                  !.cxn[c].connecting = FALSE,
                                  !.cxn[c].vc = TRUE], c)})

\* NET_EVENT_CONNECT_FAILED: an event is scheduled to close the connection.
ConnectFailed(c) ==
    /\ Free(c) /\ net.cxn[c].live /\ net.cxn[c].connecting
    /\ Handled(c, {[Entered(net, c) EXCEPT !.cxn[c].connecting = FALSE,
                                           !.cxn[c].event = "connectFailed"]})

\* PACKET_CONNECT_FAILED.
PacketConnectFailed(c) ==
    /\ Free(c) /\ net.cxn[c].live /\ net.cxn[c].event = "connectFailed"
    /\ net.connects < MaxConnects
    /\ LET s == [Entered(net, c) EXCEPT !.cxn[c].event = "none"]
       IN  Handled(c, {IF s.cxn[c].closed THEN s ELSE CloseCxn(s, c, FALSE)})

\* EVENT_IMMEDIATE: the cleanup of a connection that was closed outside of
\* its own events.
Immediate(c) ==
    /\ Free(c) /\ net.cxn[c].live /\ net.cxn[c].event = "immediate"
    /\ net.connects < MaxConnects
    /\ Handled(c, {[Entered(net, c) EXCEPT !.cxn[c].event = "none"]})

\* VC_EVENT_EOS, VC_EVENT_ERROR, or a packet that does not deserialize.
Disconnected(c) ==
    /\ Free(c) /\ net.cxn[c].live /\ net.cxn[c].vc
    /\ net.connects < MaxConnects
    /\ Handled(c, {CloseCxn(Entered(net, c), c, FALSE)})

\* VC_EVENT_WRITE_READY with an empty buffer: the packet has been written, or
\* it timed out while it was and only its buffer is freed.
WriteReady(c) ==
    /\ Free(c) /\ net.cxn[c].live /\ net.cxn[c].busy
    /\ LET k == net.cxn[c]
           s == [Entered(net, c) EXCEPT !.cxn[c].busy = FALSE]
           done == [s EXCEPT !.timeouts = @ \ {k.ctx}, !.cxn[c].ctx = NoPacket,
                             !.cxn[c].sendq = Tail(@)]
       IN  Handled(c, IF k.ctx = NoPacket THEN {WriteNext(s, c)}
                      ELSE {WriteNext(t, c) : t \in ProcessSend(done, k.ctx, "Success")})

\* TimeoutHandler::EventTimeout.  A defect: the packet that is being written
\* is answered and stays in the connection's queue.
TimedOutKept(p) ==
    /\ ~net.crashed /\ ~net.stopped /\ net.timing = 0 /\ p \in net.timeouts
    /\ \E c \in Cxns :
          /\ net.cxn[c].live /\ p \in ToSet(net.cxn[c].sendq)
          /\ LET s == [net EXCEPT !.timeouts = @ \ {p},
                           !.cxn[c].sendq = IF net.cxn[c].ctx = p THEN @
                                            ELSE SelectSeq(@, LAMBDA q : q # p),
                           !.answers[p] = Append(@, "TimedOut")]
             IN  Becomes({s} \cup {[t EXCEPT !.timing = c] : t \in
                                      {u \in {s} : MayClose(u)}})
    /\ UNCHANGED <<svcMode, accepted>>

\* TimeoutHandler::EventTimeout for one packet whose time is over and whose
\* connection's mutex is free, up to the point where the application's
\* ProcessSend() closes the connection, if it does.
TimedOut(p) ==
    /\ ~net.crashed /\ ~net.stopped /\ net.timing = 0 /\ p \in net.timeouts
    /\ \E c \in Cxns :
          /\ net.cxn[c].live /\ p \in ToSet(net.cxn[c].sendq)
          /\ LET s == [net EXCEPT !.timeouts = @ \ {p},
                           !.cxn[c].sendq = SelectSeq(@, LAMBDA q : q # p),
                           !.cxn[c].ctx = IF @ = p THEN NoPacket ELSE @,
                           !.answers[p] = Append(@, "TimedOut")]
             IN  Becomes({s} \cup {[t EXCEPT !.timing = c] : t \in
                                      {u \in {s} : MayClose(u)}})
    /\ UNCHANGED <<svcMode, accepted>>

\* The rest of it: NetPacketSvc::CloseConnection waits for the service's
\* mutex, with the timeout handler's and the connection's held.
TimedOutCloses ==
    /\ net.timing # 0 /\ ~net.stuck
    /\ net' = SvcCloseConnection([net EXCEPT !.timing = 0])
    /\ UNCHANGED <<svcMode, accepted, wire>>

\* NetPacketSvc::CloseConnection from a thread of the application.
AppClose ==
    /\ Locks /\ MayClose(net) /\ net.table # 0
    /\ net' = SvcCloseConnection(net)
    /\ UNCHANGED <<svcMode, accepted, wire>>

\* NetPacketSvc::Stop up to the point where it lets go of the service's mutex
\* to take that of the connection it found.  It takes the timeout handler's
\* mutex with the service's held: when the handler's thread has the former and
\* is about to take the latter, both wait for ever.
Stop ==
    /\ ~net.crashed /\ ~net.stuck /\ svcMode.stops /\ ~net.stopped
    /\ net' = IF net.timing # 0 THEN [net EXCEPT !.stuck = TRUE]
              ELSE [net EXCEPT !.stopped = TRUE, !.stopping = net.table]
    /\ UNCHANGED <<svcMode, accepted, wire>>

\* The rest of NetPacketSvc::Stop: a connection that is still in the table is
\* taken out, closed and told that there is no service.
StopClose ==
    /\ ~net.crashed /\ net.stopping # 0
    /\ LET c == net.stopping
           s == [net EXCEPT !.stopping = 0]
       IN  net' = IF s.table # c THEN s
                  ELSE [CloseCxn([s EXCEPT !.table = 0], c, TRUE)
                            EXCEPT !.cxn[c].svc = FALSE]
    /\ UNCHANGED <<svcMode, accepted, wire>>

NextService ==
    \/ \E p \in Packets : SendLocked(p) \/ SendMissed(p) \/ TimedOut(p)
    \/ SendRetry \/ Accept \/ AppClose \/ TimedOutCloses \/ Stop \/ StopClose
    \/ \E c \in Cxns : \/ Connected(c) \/ ConnectFailed(c) \/ Immediate(c)
                       \/ PacketConnectFailed(c) \/ Disconnected(c)
                       \/ WriteReady(c)

SpecService == InitService /\ [][NextService]_serviceVars

-----------------------------------------------------------------------------
\* Where the service still has packet p.
Holders(p) ==
    {<<"retry", i>> : i \in {j \in DOMAIN net.retryq : net.retryq[j] = p}} \cup
    {<<"send", c>> : c \in {d \in Cxns : /\ net.cxn[d].live
                                         /\ p \in ToSet(net.cxn[d].sendq)}} \cup
    {<<"closed", c>> : c \in {d \in Cxns : /\ net.cxn[d].live
                                           /\ p \in ToSet(net.cxn[d].disq)}}

\* A packet Send() took is answered by ProcessSend() once and only once: until
\* then it is in one queue, and afterwards in none; a packet it refused is not
\* answered.  No packet is lost or answered twice by a timeout, a disconnect,
\* a reconnect, a close or Stop() that meet, and none is reported as sent that
\* never went to the socket.
SendAnsweredOnce ==
    \A p \in ToSet(accepted) :
        /\ Cardinality(Holders(p)) + Len(net.answers[p]) = 1
        /\ net.answers[p] = <<"Success">> => p \in ToSet(wire)

\* A packet in the timeout queue is in the send queue of a connection that
\* still exists, and the other way round: EventTimeout() follows the packet's
\* pointer to its connection and would otherwise use one that was deleted.
TimeoutQueueSound ==
    net.timeouts = UNION {ToSet(net.cxn[c].sendq) :
                             c \in {d \in Cxns : net.cxn[d].live}}

\* Nobody is forgotten: packets in the retry queue have an event that will
\* come for them, a closed connection one that will clean it up, and a
\* connection with packets to send is connecting, about to fail, or writing.
\* Stop() alone breaks this, in two cases: the connection of a client that was
\* closed, was given packets since, and then loses its service fails the
\* assertion of ReConnect(); and Stop() and a timeout callback that closes the
\* connection wait for each other's mutex, nothing else having failed.
NoneForgotten ==
    LET asserts == \E c \in Cxns :
                       LET k == net.cxn[c]
                       IN  k.live /\ ~k.svc /\ k.closed /\ k.sendq # <<>>
    IN
    /\ net.crashed => net.stopped /\ ~svcMode.server /\ asserts
    /\ net.stuck => ~net.stopped /\ net.cxn[net.timing].live
    /\ net.retryq # <<>> => net.retries > 0
    /\ ~net.crashed => \A c \in Cxns :
          LET k == net.cxn[c]
          IN  k.live =>
              /\ k.closed => k.event # "none"
              /\ k.disq # <<>> => k.closed
              /\ k.sendq # <<>> /\ ~k.closed =>
                    k.connecting \/ k.event = "connectFailed" \/ k.busy

\* The packets reach the socket in the order in which Send() took them, also
\* when some had to wait for a mutex and others did not.
SentInOrder ==
    \A i, j \in DOMAIN wire : i < j =>
        \E m, n \in DOMAIN accepted :
            m < n /\ accepted[m] = wire[i] /\ accepted[n] = wire[j]

\* What became of each packet, for SendContract.
ServiceFate ==
    [p \in Packets |->
        LET said == net.answers[p]
        IN  IF p \notin ToSet(accepted)
            THEN IF said = <<>> THEN "unsent" ELSE said[1]
            ELSE IF said = <<>> THEN "taken"
            ELSE IF Len(said) = 1 THEN said[1] ELSE "answered twice"]

ServiceContract == INSTANCE SendContract
                   WITH SendPackets <- Packets, fate <- ServiceFate

\* The service implements the contract of NetPacketSvc.h: a packet taken gets
\* one outcome, which never changes, and one refused gets none.
ServiceKeepsContract == ServiceContract!SpecContract

=============================================================================
