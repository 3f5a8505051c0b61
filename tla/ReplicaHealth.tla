--------------------------- MODULE ReplicaHealth ---------------------------
(***************************************************************************)
(* The requests a primary sends to the other members and what it knows of  *)
(* them: the Replica objects of m_replicas, the packets that point at them *)
(* (SendRequestToAll, ReSendRequest, SendRequestToReplica, ProcessSend),   *)
(* the connection events (ProcessConnect) and the thread that looks the    *)
(* addresses up again (IPLookup) and replaces a Replica object while       *)
(* packets of the old one are under way.  Three threads take part: the     *)
(* main thread, the callbacks of the network library, the resolver; every  *)
(* action below is what one of them does under one hold of m_replicasLock. *)
(*                                                                         *)
(* Time is a pair of marks per Replica, set by the clock: `recent' (the    *)
(* last packet completed less than the resend timeout ago) and `late' (it  *)
(* has been marked failed for longer than the retry period).               *)
(***************************************************************************)
EXTENDS Naturals, FiniteSets, Bags

CONSTANTS
    HMember,                    \* the other members of the configuration
    HAddress,                   \* addresses a member may listen on
    HKnown,                     \* address of each member at the start, or 0
    MaxOutstandingPerReplica,   \* RSLConfig
    MaxMoves                    \* how often members move, stop or start

HealthAssumption == 0 \notin HAddress

ASSUME HealthConstants == HealthAssumption

VARIABLES
    hrep,        \* m_replicas: the Replica object of each member
    hpkts,       \* packets in the network library (a bag)
    hreq,        \* the request that waits for answers: a vote or a prepare
    hold,        \* the vote has been outstanding for the resend timeout
    hanswered,   \* m_responseMap
    hlook,       \* the resolver: its copies of the replicas
    hhome,       \* where each member listens now, 0 when it is down
    hmoves,
    hstopped     \* the process ended itself: the vote was not answered

hvars == <<hrep, hpkts, hreq, hold, hanswered, hlook, hhome, hmoves, hstopped>>

\* Replica::Replica; gen tells the objects of one member apart.
NewReplica(gen, addr) ==
    [gen |-> gen, addr |-> addr, conn |-> FALSE, out |-> 0, status |-> 1,
     fails |-> 0, needs |-> FALSE, recent |-> FALSE, late |-> FALSE]

Pkt(m, rep, kind) ==
    [to |-> m, gen |-> rep.gen, addr |-> rep.addr, kind |-> kind,
     abort |-> FALSE]

One(p) == SetToBag({p})

-----------------------------------------------------------------------------
(* The main thread. *)

\* SendRequestToReplica: failed members are tried now and then.
ShouldSend(rep) ==
    /\ rep.status = 1 \/ rep.late
    /\ rep.addr # 0

\* SendMessage, as client, to every member of `who' that should be sent to.
SendTo(who, kind) ==
    LET to == {m \in who : ShouldSend(hrep[m])}
    IN  /\ hrep' = [m \in HMember |->
                       IF m \in to THEN [hrep[m] EXCEPT !.out = @ + 1]
                                   ELSE hrep[m]]
        /\ hpkts' = hpkts (+) SetToBag({Pkt(m, hrep[m], kind) : m \in to})

\* SendRequestToAll: members with too much outstanding are passed over.
SendRequestToAll(kind) ==
    SendTo({m \in HMember : hrep[m].out < MaxOutstandingPerReplica}, kind)

\* A status query, once a period, while a checkpoint copy is awaited.
SendStatusRequest ==
    /\ SendRequestToAll("Other")
    /\ UNCHANGED <<hreq, hold, hanswered, hlook, hhome, hmoves, hstopped>>

\* The conditions of ReSendRequest, 3b included.
ResendDue(m) ==
    /\ m \notin hanswered
    /\ hrep[m].out = 0
    /\ \/ ~hrep[m].recent
       \/ hreq = "Vote" /\ hold

DueMembers == {m \in HMember : ResendDue(m) /\ ShouldSend(hrep[m])}

\* ReSendCurrentVote and ReSendPrepareMsg.
ReSendCurrentVote ==
    /\ hreq = "Vote"
    /\ SendTo({m \in HMember : ResendDue(m)}, "Vote")
    /\ UNCHANGED <<hreq, hold, hanswered, hlook, hhome, hmoves, hstopped>>

ReSendPrepareMsg ==
    /\ hreq = "Prepare"
    /\ SendTo({m \in HMember : ResendDue(m)}, "Prepare")
    /\ UNCHANGED <<hreq, hold, hanswered, hlook, hhome, hmoves, hstopped>>

\* The vote has been outstanding for longer than VoteMaxOutstandingInterval.
Terminate ==
    /\ hreq = "Vote" /\ hold
    /\ hanswered # HMember
    /\ hstopped' = TRUE
    /\ UNCHANGED <<hrep, hpkts, hreq, hold, hanswered, hlook, hhome, hmoves>>

\* A message to the address another message came from, outside any limit: the
\* replica with the address counts it.
SendMessageToIpPort(m, kind) ==
    /\ hrep[m].addr # 0
    /\ hrep[m].out <= MaxOutstandingPerReplica
    /\ hrep' = [hrep EXCEPT ![m].out = @ + 1]
    /\ hpkts' = hpkts (+) One(Pkt(m, hrep[m], kind))

\* News of a defunct configuration, and a request to join.  Both follow a
\* change of configuration, and end before the vote is old.
SendDefunctConfigurationMessage(m) ==
    /\ ~hold
    /\ SendMessageToIpPort(m, "Other")
    /\ UNCHANGED <<hreq, hold, hanswered, hlook, hhome, hmoves, hstopped>>

SendJoinRequestMessage(m) ==
    /\ ~hold
    /\ SendMessageToIpPort(m, "Other")
    /\ UNCHANGED <<hreq, hold, hanswered, hlook, hhome, hmoves, hstopped>>

-----------------------------------------------------------------------------
(* The callbacks of the network library. *)

\* The object the packet points at is still in m_replicas.
Current(p) == hrep[p.to].gen = p.gen

Completed(rep) == [rep EXCEPT !.recent = TRUE, !.out = @ - 1]

\* TxSuccess.
Healthy(rep) ==
    [Completed(rep) EXCEPT !.status = 1, !.fails = 0, !.conn = TRUE,
                           !.late = FALSE]

\* Any other failure but an abort; the third in a row marks the member
\* failed, once (m_consecutiveFailures, here counted up to 3).
Failed(rep) ==
    LET fails == IF rep.fails < 3 THEN rep.fails + 1 ELSE 3
    IN  [Completed(rep) EXCEPT
            !.fails = fails, !.conn = FALSE,
            !.status = IF fails >= 3 THEN 0 ELSE @,
            !.late = IF fails >= 3 /\ rep.status = 1 THEN FALSE ELSE @]

\* m_netlibClient->CloseConnection: what is queued for the address is aborted.
CloseConnection(pkts, addr) ==
    BagOfAll(LAMBDA p : IF p.addr = addr THEN [p EXCEPT !.abort = TRUE] ELSE p,
             pkts)

\* ProcessSend with TxSuccess; `answer': the member has taken the request and
\* answers it.
SendSucceeds(p, answer) ==
    /\ BagIn(p, hpkts)
    /\ ~p.abort
    /\ hhome[p.to] = p.addr
    /\ answer => p.kind = hreq
    /\ hpkts' = hpkts (-) One(p)
    /\ hrep' = IF Current(p) THEN [hrep EXCEPT ![p.to] = Healthy(@)] ELSE hrep
    /\ hanswered' = IF answer THEN hanswered \union {p.to} ELSE hanswered
    /\ UNCHANGED <<hreq, hold, hlook, hhome, hmoves, hstopped>>

\* ProcessSend with TxTimeOut or TxNoConnection.
SendFails(p) ==
    /\ BagIn(p, hpkts)
    /\ ~p.abort
    /\ IF Current(p)
       THEN /\ hrep' = [hrep EXCEPT ![p.to] = Failed(@)]
            /\ hpkts' = CloseConnection(hpkts (-) One(p), p.addr)
       ELSE /\ UNCHANGED hrep
            /\ hpkts' = hpkts (-) One(p)
    /\ UNCHANGED <<hreq, hold, hanswered, hlook, hhome, hmoves, hstopped>>

\* ProcessSend with TxAbort.
SendAborted(p) ==
    /\ BagIn(p, hpkts)
    /\ p.abort
    /\ hpkts' = hpkts (-) One(p)
    /\ hrep' = IF Current(p) THEN [hrep EXCEPT ![p.to] = Completed(@)] ELSE hrep
    /\ UNCHANGED <<hreq, hold, hanswered, hlook, hhome, hmoves, hstopped>>

\* ProcessConnect: every replica with the address hears of it.
ProcessConnect(addr, connected) ==
    /\ \E p \in BagToSet(hpkts) : p.addr = addr
    /\ connected => \E m \in HMember : hhome[m] = addr
    /\ hrep' = [m \in HMember |->
                   IF hrep[m].addr = addr
                   THEN [hrep[m] EXCEPT !.conn = connected,
                                        !.needs = @ \/ ~connected]
                   ELSE hrep[m]]
    /\ UNCHANGED <<hpkts, hreq, hold, hanswered, hlook, hhome, hmoves,
                   hstopped>>

\* VerifyMessage: a message of the member, from the address it is known by,
\* however old.  It counts as up again; m_consecutiveFailures stays.
VerifyMessage(m) ==
    /\ hrep[m].status = 0
    /\ hrep' = [hrep EXCEPT ![m].status = 1, ![m].late = FALSE]
    /\ UNCHANGED <<hpkts, hreq, hold, hanswered, hlook, hhome, hmoves, hstopped>>

-----------------------------------------------------------------------------
(* IPLookup. *)

NothingFound == [m \in HMember |-> 0]

\* Under the shared lock: copies of the replicas to resolve.
LookupCollect ==
    /\ hlook.pc = "wait"
    /\ hlook' = [pc |-> "resolve", found |-> NothingFound,
                 todo |-> {m \in HMember : hrep[m].addr = 0 \/ hrep[m].needs}]
    /\ hrep' = [m \in HMember |->
                   [hrep[m] EXCEPT !.needs = @ \/ hrep[m].addr = 0]]
    /\ UNCHANGED <<hpkts, hreq, hold, hanswered, hhome, hmoves, hstopped>>

\* ResolveNode, without a lock: the address of now, or a failure.
LookupResolve(m, ok) ==
    /\ hlook.pc = "resolve"
    /\ m \in hlook.todo
    /\ ok => hhome[m] # 0
    /\ hlook' = [hlook EXCEPT !.todo = @ \ {m},
                              !.found[m] = IF ok THEN hhome[m] ELSE 0]
    /\ UNCHANGED <<hrep, hpkts, hreq, hold, hanswered, hhome, hmoves, hstopped>>

\* A defect: the resolved address goes into the object that is in use.
ReplacedInPlace(m) ==
    [hrep[m] EXCEPT !.addr = hlook.found[m], !.needs = FALSE, !.out = 0]

\* The copy takes the place of the object; the counters start over.
Replaced(m) == NewReplica(hrep[m].gen + 1, hlook.found[m])

\* Under the exclusive lock: replicas whose address is another now.  One whose
\* address is the same keeps its m_needsResolve, and is resolved again.
LookupReplace ==
    /\ hlook.pc = "resolve"
    /\ hlook.todo = {}
    /\ hrep' = [m \in HMember |->
                   IF /\ hrep[m].needs
                      /\ hlook.found[m] \notin {0, hrep[m].addr}
                   THEN Replaced(m) ELSE hrep[m]]
    /\ hlook' = [pc |-> "wait", found |-> NothingFound, todo |-> {}]
    /\ UNCHANGED <<hpkts, hreq, hold, hanswered, hhome, hmoves, hstopped>>

-----------------------------------------------------------------------------
(* The clock and the members. *)

Silence(m) ==
    /\ hrep[m].recent
    /\ hrep' = [hrep EXCEPT ![m].recent = FALSE]
    /\ UNCHANGED <<hpkts, hreq, hold, hanswered, hlook, hhome, hmoves, hstopped>>

RetryPeriod(m) ==
    /\ hrep[m].status = 0 /\ ~hrep[m].late
    /\ hrep' = [hrep EXCEPT ![m].late = TRUE]
    /\ UNCHANGED <<hpkts, hreq, hold, hanswered, hlook, hhome, hmoves, hstopped>>

VoteAges ==
    /\ ~hold
    /\ hold' = TRUE
    /\ UNCHANGED <<hrep, hpkts, hreq, hanswered, hlook, hhome, hmoves, hstopped>>

Move(m, addr) ==
    /\ hmoves < MaxMoves
    /\ hhome[m] # addr
    /\ \A n \in HMember \ {m} : addr # 0 => hhome[n] # addr
    /\ hhome' = [hhome EXCEPT ![m] = addr]
    /\ hmoves' = hmoves + 1
    /\ UNCHANGED <<hrep, hpkts, hreq, hold, hanswered, hlook, hstopped>>

-----------------------------------------------------------------------------
InitHealth ==
    /\ hrep = [m \in HMember |-> NewReplica(0, HKnown[m])]
    /\ hpkts = EmptyBag
    /\ hreq \in {"Vote", "Prepare"}
    /\ hold = FALSE
    /\ hanswered = {}
    /\ hlook = [pc |-> "wait", found |-> NothingFound, todo |-> {}]
    /\ hhome = HKnown
    /\ hmoves = 0
    /\ hstopped = FALSE

NextHealth ==
    /\ ~hstopped
    /\ \/ SendStatusRequest
       \/ ReSendCurrentVote
       \/ ReSendPrepareMsg
       \/ Terminate
       \/ \E m \in HMember :
              \/ SendDefunctConfigurationMessage(m)
              \/ SendJoinRequestMessage(m)
       \/ \E p \in BagToSet(hpkts) :
              \/ \E answer \in BOOLEAN : SendSucceeds(p, answer)
              \/ SendFails(p)
              \/ SendAborted(p)
       \/ \E addr \in HAddress, connected \in BOOLEAN :
              ProcessConnect(addr, connected)
       \/ LookupCollect
       \/ \E m \in HMember, ok \in BOOLEAN : LookupResolve(m, ok)
       \/ LookupReplace
       \/ \E m \in HMember : VerifyMessage(m) \/ Silence(m) \/ RetryPeriod(m)
       \/ VoteAges
       \/ \E m \in HMember, addr \in HAddress \union {0} : Move(m, addr)

PacketTo(m) == {p \in BagToSet(hpkts) : p.to = m}

(***************************************************************************)
(* Fairness.  The timers of the main thread and the resolver run again and *)
(* again; a packet completes, if only by its timeout.  A connection that   *)
(* cannot be made is reported each time; an address that is asked for, a   *)
(* packet that is sent and a request that arrives succeed in the end if    *)
(* tried again and again.  Again and again no packet is outstanding: what  *)
(* is sent to a member besides is sent seconds apart.  Nothing makes the   *)
(* `Silence' of a member come: those messages may be more frequent than    *)
(* the resend timeout.                                                     *)
(***************************************************************************)
FairHealth ==
    /\ \A m \in HMember :
           /\ []<>(hrep[m].out = 0)
           /\ SF_hvars(m \in DueMembers /\ ReSendCurrentVote)
           /\ WF_hvars(RetryPeriod(m))
           /\ WF_hvars(\E p \in PacketTo(m) :
                           SendAborted(p) \/ SendFails(p) \/ SendSucceeds(p, FALSE)
                           \/ SendSucceeds(p, TRUE))
           /\ SF_hvars(\E p \in PacketTo(m) : SendSucceeds(p, TRUE))
           /\ SF_hvars(\E p \in PacketTo(m) : hhome[m] # p.addr /\ Current(p)
                           /\ ProcessConnect(p.addr, FALSE))
           /\ SF_hvars(LookupResolve(m, TRUE))
           /\ WF_hvars(LookupResolve(m, FALSE))
    /\ WF_hvars(LookupCollect)
    /\ WF_hvars(LookupReplace)
    /\ WF_hvars(VoteAges)

SpecHealth == InitHealth /\ [][NextHealth]_hvars /\ FairHealth

-----------------------------------------------------------------------------
\* FillCounters, for a member other than the primary.
FillCounters(m) ==
    [member |-> m, connected |-> hrep[m].conn, fails |-> hrep[m].fails,
     needs |-> hrep[m].needs, out |-> hrep[m].out]

\* GetReplicaInformation.
GetReplicaInformation(m) == FillCounters(m)

\* GetReplicasInformation, given room for n entries: the members, then the
\* primary itself; the number of other members when they do not all fit.
GetReplicasInformation(n) ==
    IF n <= Cardinality(HMember) THEN [result |-> Cardinality(HMember), of |-> {}]
    ELSE [result |-> 0, of |-> {FillCounters(m) : m \in HMember}]

(* What a primary reports of a member is true of the packets it has under  *)
(* way: m_numOutstanding is the number of packets that point at the        *)
(* Replica object now in m_replicas, through failures, aborts and the      *)
(* replacement of the object, so that ReSendRequest, which waits for 0, is *)
(* not shut out; and a member counts as failed only after three failures   *)
(* in a row with no success since.  (The converse does not hold: a member  *)
(* that is heard from, VerifyMessage, counts as up with the number of its  *)
(* failures as it was, until the next one.)                                *)
HealthTruthful ==
    \A h \in GetReplicasInformation(Cardinality(HMember) + 1).of :
        LET m == h.member
            mine == {p \in PacketTo(m) : Current(p)}
        IN  /\ h.out = BagCardinality([p \in mine |-> hpkts[p]])
            /\ h = GetReplicaInformation(m)
            /\ hrep[m].status = 0 => h.fails >= 3

(* A vote reaches every member that is up, however often other messages    *)
(* are sent to it and wherever it has moved: it is answered, or the        *)
(* process ends itself (ReSendRequest, ReSendCurrentVote).                 *)
VoteReachesMembers ==
    hreq = "Vote" =>
        \A m \in HMember : []<>(m \in hanswered \/ hhome[m] = 0 \/ hstopped)
=============================================================================
