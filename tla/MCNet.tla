------------------------------- MODULE MCNet -------------------------------
(***************************************************************************)
(* What replicas send each other, layer by layer: the C++ packet service,  *)
(* the socket connection under it, the cutting of the stream into packets, *)
(* the encrypted connection, the packet service of the Rust port, the      *)
(* messages' encoding by either of them, the buffers of a vote, and the    *)
(* port from which replicas learn.  A behaviour is one of one layer.       *)
(***************************************************************************)
EXTENDS PacketService, VConnection, PacketStream, SecureCxn, PacketActor,
        WireFormats, VoteBuffers, LearnPort

VARIABLE layer

MCServiceModes ==
    {[server |-> FALSE, fails |-> FALSE, closes |-> TRUE, stops |-> TRUE,
      existing |-> {}],
     [server |-> FALSE, fails |-> TRUE, closes |-> TRUE, stops |-> TRUE,
      existing |-> {"p2"}],
     [server |-> TRUE, fails |-> FALSE, closes |-> TRUE, stops |-> TRUE,
      existing |-> {}]}

MCActorModes ==
    {[server |-> FALSE, fails |-> FALSE, existing |-> {}],
     [server |-> FALSE, fails |-> TRUE, existing |-> {"p2"}],
     [server |-> TRUE, fails |-> FALSE, existing |-> {}]}

\* Packets smaller and larger than the ring, and as large; receiving is
\* suspended in streams of three packets, or of four that fit in the ring.
MCStreamModes ==
    [lens : [1 .. 4 -> {2, 3, 4, 5, 7}], suspends : {FALSE}] \cup
    [lens : [1 .. 3 -> {2, 4, 5, 7}] \cup [1 .. 4 -> {2, 3, 4}],
     suspends : {TRUE}]

SecureMode(f, c, s, b, t, u) ==
    [fails |-> f, lens |-> [client |-> c, server |-> s], breaks |-> b,
     timeouts |-> t, suspends |-> u]
MCSecureModes ==
    {SecureMode(FALSE, <<3, 1>>, <<1>>, 0, 1, 0),
     SecureMode(TRUE, <<2, 3, 1>>, <<3>>, 1, 1, 0),
     SecureMode(FALSE, <<1, 3, 1>>, <<1>>, 1, 1, 0),
     SecureMode(FALSE, <<3, 2>>, <<3>>, 0, 1, 1),
     SecureMode(FALSE, <<5>>, <<>>, 2, 0, 0)}

-----------------------------------------------------------------------------
\* Messages of every kind and every protocol version, with and without
\* cookies, member sets, requests and enclosed votes.
NoSet == [nodes |-> <<>>, cookie |-> <<>>]
TwoNodes ==
    [nodes |-> <<[member |-> <<7>>, ip |-> 3, port |-> 4, learn |-> 5,
                  app |-> 6, host |-> <<8, 9>>],
                 [member |-> <<1, 2>>, ip |-> 1, port |-> 2, learn |-> 3,
                  app |-> 4, host |-> <<>>]>>,
     cookie |-> <<2>>]

PlainMsg(kind, v) ==
    [kind |-> kind, version |-> v,
     msgId |-> IF kind = "Checkpoint" THEN 0 ELSE MessageIds[kind],
     member |-> <<7>>, decree |-> 5, conf |-> 2,
     ballot |-> [id |-> 3, member |-> <<1, 2>>], payload |-> 6,
     checksum |-> <<0>>, cookie |-> <<>>, reconf |-> FALSE, set |-> NoSet,
     relinquish |-> FALSE, requests |-> <<>>, nums |-> <<9, 1, 7, 6, 5, 3>>,
     ballots |-> <<[id |-> 2, member |-> <<>>], [id |-> 4, member |-> <<7>>]>>,
     vote |-> <<>>]

VoteMsgs(v) ==
    {[PlainMsg("Vote", v) EXCEPT !.cookie = <<4>>, !.relinquish = TRUE,
                                 !.requests = <<<<1>>, <<2, 3>>>>],
     [PlainMsg("Vote", v) EXCEPT !.member = <<>>, !.ballot.member = <<>>]}
    \cup (IF v < 3 THEN {}
          ELSE {[PlainMsg("Vote", v) EXCEPT !.cookie = <<4, 4>>,
                                            !.reconf = TRUE, !.set = TwoNodes]})

CheckpointMsgs(v, votes) ==
    {[PlainMsg("Checkpoint", v) EXCEPT !.vote = <<w>>, !.set = TwoNodes]
     : w \in votes}

MCMessages ==
    UNION {{PlainMsg("Base", v), PlainMsg("Decision", v), PlainMsg("Join", v),
            PlainMsg("StatusResponse", v),
            [PlainMsg("Prepare", v) EXCEPT !.cookie = <<3>>],
            [PlainMsg("Bootstrap", v) EXCEPT !.set = TwoNodes]}
           \cup VoteMsgs(v) \cup CheckpointMsgs(v, VoteMsgs(v)) : v \in 1 .. 6}
    \cup UNION {CheckpointMsgs(v, VoteMsgs(2) \cup VoteMsgs(5))
                \cup {[PlainMsg("PrepareAccepted", v) EXCEPT !.vote = <<w>>]
                      : w \in VoteMsgs(2) \cup VoteMsgs(5)} : v \in {3, 6}}

-----------------------------------------------------------------------------
MCLearnPairs == {[server |-> s, learner |-> s] : s \in {"cpp", "rust"}}
Logged(d, b, n) == [d |-> d, b |-> b, len |-> n]
MCLearnStart ==
    <<Logged(1, 1, 2), Logged(2, 1, 1), Logged(2, 2, 1), Logged(3, 2, 1)>>

-----------------------------------------------------------------------------
netVars == <<layer, serviceVars, vcVars, streamVars, secureVars, actorVars,
             evars, vbvars, lvars>>

\* The layers a behaviour is not about stay in one initial state.
InitNet ==
    /\ layer \in {"service", "vc", "stream", "secure", "actor", "wire",
                  "buffers", "learn"}
    /\ layer = "service" \/ svcMode = CHOOSE m \in ServiceModes : TRUE
    /\ layer = "stream" \/ stream = CHOOSE m \in StreamModes : TRUE
    /\ layer = "secure" \/ secure = CHOOSE m \in SecureModes : TRUE
    /\ layer = "actor" \/ actorMode = CHOOSE m \in ActorModes : TRUE
    /\ layer = "wire" \/ emsg = CHOOSE m \in Messages : TRUE
    /\ layer = "learn" \/ lpair = CHOOSE p \in LearnPairs : TRUE
    /\ InitService /\ InitVc /\ InitStream /\ InitSecure /\ InitActor
    /\ InitWireExchange /\ InitVoteBuffers /\ InitLearnPort
    /\ layer = "buffers" \/ \A n \in HeadSizes : vbufs[1].valid <= n + RelinquishUnits

NextNet ==
    \/ /\ layer = "service" /\ NextService
       /\ UNCHANGED <<layer, vcVars, streamVars, secureVars, actorVars, evars,
                      vbvars, lvars>>
    \/ /\ layer = "vc" /\ NextVc
       /\ UNCHANGED <<layer, serviceVars, streamVars, secureVars, actorVars,
                      evars, vbvars, lvars>>
    \/ /\ layer = "stream" /\ NextStream
       /\ UNCHANGED <<layer, serviceVars, vcVars, secureVars, actorVars, evars,
                      vbvars, lvars>>
    \/ /\ layer = "secure" /\ NextSecure
       /\ UNCHANGED <<layer, serviceVars, vcVars, streamVars, actorVars, evars,
                      vbvars, lvars>>
    \/ /\ layer = "actor" /\ NextActor
       /\ UNCHANGED <<layer, serviceVars, vcVars, streamVars, secureVars, evars,
                      vbvars, lvars>>
    \/ /\ layer = "wire" /\ NextWireExchange
       /\ UNCHANGED <<layer, serviceVars, vcVars, streamVars, secureVars,
                      actorVars, vbvars, lvars>>
    \/ /\ layer = "buffers" /\ NextVoteBuffers
       /\ UNCHANGED <<layer, serviceVars, vcVars, streamVars, secureVars,
                      actorVars, evars, lvars>>
    \/ /\ layer = "learn" /\ NextLearnPort
       /\ UNCHANGED <<layer, serviceVars, vcVars, streamVars, secureVars,
                      actorVars, evars, vbvars>>

SpecNet == InitNet /\ [][NextNet]_netVars

-----------------------------------------------------------------------------
\* A packet taken by Send() of a service is in one place until it is answered,
\* once: NetPacketSvc, NetSslCxn under it, and the Rust PacketSvc.
PacketsConserved ==
    /\ layer = "service" => SendAnsweredOnce
    /\ layer = "secure" => SecureAnsweredOnce
    /\ layer = "actor" => ActorAnswersOnce

\* Packets are written in the order of Send(), by NetCxn, by NetSslCxn and by
\* Conn::serve, and come out of ReadReadyInternal as they were sent.
PacketsInOrder ==
    /\ layer = "service" => SentInOrder
    /\ layer = "stream" => StreamIntact
    /\ layer = "secure" => SecureIntact
    /\ layer = "actor" => ActorInOrder

\* Nothing is left without an event, an I/O or a task that will go on with it:
\* packets, closed connections, reads and writes, bytes in the read buffer.
NothingStalls ==
    /\ layer = "service" => NoneForgotten
    /\ layer = "vc" => VcNeverStalls
    /\ layer = "stream" => StreamNeverStalls
    /\ layer = "secure" => SecureNeverStalls

\* Nothing refers to what is gone: the timeout queue to a deleted NetCxn, an
\* event to a deleted NetVConnection, the connection table to a finished task,
\* a read to a buffer that was replaced.
NothingDangles ==
    /\ layer = "service" => TimeoutQueueSound
    /\ layer = "vc" => VcDeletedLast
    /\ layer = "stream" => ReadBufferStable
    /\ layer = "actor" => TableEntryOpen

\* What Marshal and MarshalBuf write of a message, UnMarshal of either language
\* reads back, and Vote::AddRequest keeps a growing vote in one piece; a message
\* that was altered on its way is read the same by the C++ and the Rust reader
\* and, where the checksum covers it, refused by both.
MessagesFaithful ==
    MessagesRoundTrip /\ VoteInOnePiece /\ ReadersAgree /\ DamageDetected

\* A learner that HandleFetchRequest or the Rust learn server answers has taken
\* a contiguous part of the log and, at the end, all of what was there; a
\* checkpoint it copied is whole or is not used.
LearnedWhole == LearnedContiguous /\ LearnedEverything /\ CopiedOrNothing

\* Both services implement SendContract.
KeepsSendContract == ServiceKeepsContract /\ ActorKeepsContract
=============================================================================
