--------------------------- MODULE ClientRequests ---------------------------
(***************************************************************************)
(* The life of a request between the application and the threads of one    *)
(* replica: ReplicateRequest, the main loop, the heartbeat thread, the     *)
(* execute thread, the loss of the primary role, and Unload or ShutDown    *)
(* (legislator.cpp).                                                       *)
(*                                                                         *)
(* A vote is the sequence of the cookies of its requests; a heartbeat, and *)
(* a vote that another replica proposed, is <<>>.  Elections and the votes *)
(* of other primaries come from outside: MainLoop handles any number of    *)
(* messages in an iteration, then looks at the role that results.          *)
(* The configuration has several members (QuorumSize() > 1), and nothing   *)
(* relinquishes the primary.                                               *)
(***************************************************************************)
EXTENDS Naturals, Sequences, Functions

CONSTANTS
    Cookie,        \* the requests that clients make, one cookie each
    CatchingUp,    \* AllowPrimaryPromotionWhileCatchingUp
    SpawnThread,   \* the application gave a thread routine: Unload stops the
                   \* main and heartbeat threads before it calls Stop
    MaxTerms,      \* bound: elections this replica starts
    MaxOthers,     \* bound: votes that come from other primaries
    MaxBeats       \* bound: heartbeats

ASSUME ClientRequestsAssumption ==
    /\ {CatchingUp, SpawnThread} \subseteq BOOLEAN
    /\ {MaxTerms, MaxOthers, MaxBeats} \subseteq Nat

VARIABLES
    independent, \* m_IndependentHeartbeat, which does not change
    mpc,        \* where MainLoop is
    resume,     \* where it goes after AbortReplicateRequests
    st,         \* m_state
    ballotMine, \* m_maxBallot.m_memberId = m_memberId
    isPrimary,  \* m_isPrimary
    inTransit,  \* m_IsTransitioningToPrimary
    toSend,     \* m_votesToSend
    outVote,    \* m_outstandingVote: <<>> or <<vote>>
    accVote,    \* m_maxAcceptedVote
    accMine,    \* it carries a ballot of this replica
    accPassed,  \* its decree is m_lastPassedDecree
    execQ,      \* m_executeQ
    hbLock,     \* who holds m_hbLock
    hpc,        \* where HeartBeatLoop is; "assert": it has ended the process
    inverted,   \* a vote was inverted with its prepare since it took m_hbLock
    xpc,        \* where ExecuteLoop is: "top", or "exec" with m_callbackLock
    spc,        \* where Stop is
    isShutting, \* m_isShutting
    taken,      \* the cookies of requests that were accepted
    answers,    \* cookie -> the callbacks made with it, in order
    appPrimary, \* what NotifyStatus last told the application
    spent       \* elections, votes of others and heartbeats so far

roleVars == <<st, ballotMine, isPrimary, inTransit>>
voteVars == <<toSend, outVote, accVote, accMine, accPassed, execQ>>
threadVars == <<mpc, resume, hbLock, hpc, xpc, spc>>
appVars == <<taken, answers, appPrimary>>
clientVars == <<independent, inverted, roleVars, voteVars, threadVars, appVars,
                isShutting, spent>>

InitClientRequests ==
    /\ independent \in BOOLEAN /\ inverted = FALSE
    /\ mpc = "top" /\ resume = "top"
    /\ st = "Secondary" /\ ballotMine = FALSE
    /\ isPrimary = FALSE /\ inTransit = FALSE
    /\ toSend = <<>> /\ outVote = <<>> /\ accVote = <<>>
    /\ accMine = FALSE /\ accPassed = FALSE
    /\ execQ = <<>>
    /\ hbLock = "free" /\ hpc = "idle" /\ xpc = "top" /\ spc = "run"
    /\ isShutting = FALSE
    /\ taken = {} /\ answers = [c \in Cookie |-> <<>>]
    /\ appPrimary = FALSE
    /\ spent = [terms |-> 0, others |-> 0, beats |-> 0]

Spend(what, max) ==
    /\ spent[what] < max
    /\ spent' = [spent EXCEPT ![what] = @ + 1]

\* Only a thread that takes part in independent heartbeats locks m_hbLock.
HbLockFree == independent => hbLock = "free"

-----------------------------------------------------------------------------
(* Calls of the application. *)

ReplicateRequestAny(c) ==
    /\ c \notin taken
    /\ ~isShutting
    /\ taken' = taken \cup {c}
    /\ \/ toSend' = Append(toSend, <<c>>)
       \/ /\ toSend # <<>>
          /\ toSend' = [toSend EXCEPT ![Len(toSend)] = Append(@, c)]
    /\ UNCHANGED <<independent, inverted, roleVars, outVote, accVote, accMine,
                   accPassed, execQ, threadVars, isShutting, answers,
                   appPrimary, spent>>

\* ReplicateRequest: a vote of its own, or room in the last one of the queue.
\* ReplicateRequestExclusiveVote always takes a vote of its own.
ReplicateRequest(c) ==
    /\ c \notin taken
    /\ isPrimary /\ ~isShutting
    /\ taken' = taken \cup {c}
    /\ \/ toSend' = Append(toSend, <<c>>)
       \/ /\ toSend # <<>>
          /\ toSend' = [toSend EXCEPT ![Len(toSend)] = Append(@, c)]
    /\ UNCHANGED <<independent, inverted, roleVars, outVote, accVote, accMine,
                   accPassed, execQ, threadVars, isShutting, answers,
                   appPrimary, spent>>

-----------------------------------------------------------------------------
(* Messages that the main thread handles. *)

\* AddToExecutionQueue: a decree that has passed before is ignored.
EnqueueVote(vote) == execQ' = IF accPassed THEN execQ ELSE Append(execQ, vote)

\* HandleVoteAcceptedMsg, the one that completes the quorum.
HandleVoteAccepted ==
    /\ mpc = "msgs" /\ st = "Primary" /\ outVote # <<>>
    /\ outVote' = <<>>
    /\ EnqueueVote(accVote)
    /\ accPassed' = TRUE
    /\ UNCHANGED <<independent, inverted, roleVars, toSend, accVote, accMine,
                   threadVars, isShutting, appVars, spent>>

HandlePrepareNoLock ==
    /\ mpc = "msgs" /\ Spend("others", MaxOthers)
    /\ ballotMine' = FALSE /\ st' = "Secondary"
    /\ UNCHANGED <<independent, inverted, isPrimary, inTransit, voteVars,
                   threadVars, isShutting, appVars>>

\* HandlePrepareMsg or HandleNotAcceptedMsg with a higher ballot.
HandlePrepare ==
    /\ mpc = "msgs" /\ Spend("others", MaxOthers)
    /\ HbLockFree
    /\ ballotMine' = FALSE /\ st' = "Secondary"
    /\ UNCHANGED <<independent, inverted, isPrimary, inTransit, voteVars,
                   threadVars, isShutting, appVars>>

\* LogAndAcceptVote of another primary's vote: the same decree under a higher
\* ballot, or the next decree of the ballot this replica accepted, which
\* tells that the accepted vote has passed.
AcceptOthersVote ==
    /\ ballotMine' = FALSE /\ st' = "Secondary"
    /\ accVote' = <<>> /\ accMine' = FALSE
    /\ \/ UNCHANGED <<execQ, accPassed>>
       \/ /\ ~accMine
          /\ EnqueueVote(accVote)
          /\ accPassed' = FALSE

\* HandleNewVotes.  It does not take m_hbLock.
HandleVote ==
    /\ mpc = "msgs" /\ st # "Primary" /\ Spend("others", MaxOthers)
    /\ AcceptOthersVote
    /\ UNCHANGED <<independent, inverted, isPrimary, inTransit, toSend,
                   outVote, threadVars, isShutting, appVars>>

\* Message/vote inversion: a primary gets a vote of a higher ballot.  It
\* becomes a secondary, and CheckNotifyStatus(false) comes first.  m_hbLock is
\* not taken.
HandleVoteInversion ==
    /\ mpc = "msgs" /\ st = "Primary" /\ Spend("others", MaxOthers)
    /\ st' = "Secondary"
    /\ isPrimary' = FALSE
    /\ \/ isPrimary /\ mpc' = "drain" /\ resume' = "accept"
       \/ ~isPrimary /\ mpc' = "accept" /\ UNCHANGED resume
    /\ inTransit' = (inTransit /\ isPrimary)
    /\ inverted' = TRUE
    /\ UNCHANGED <<independent, ballotMine, voteVars, hbLock, hpc, xpc, spc,
                   isShutting, appVars>>

AcceptAfterInversion ==
    /\ mpc = "accept"
    /\ AcceptOthersVote
    /\ mpc' = "msgs"
    /\ UNCHANGED <<independent, inverted, isPrimary, inTransit, toSend,
                   outVote, resume, hbLock, hpc, xpc, spc, isShutting, appVars,
                   spent>>

\* Timer, MoveToSecondaryOrPrepare and StartPreparing.
StartPrepare ==
    /\ mpc = "msgs" /\ st = "Secondary" /\ Spend("terms", MaxTerms)
    /\ CatchingUp \/ execQ = <<>>
    /\ HbLockFree
    /\ st' = "Preparing" /\ ballotMine' = TRUE
    /\ UNCHANGED <<independent, inverted, isPrimary, inTransit, voteVars,
                   threadVars, isShutting, appVars>>

\* HandlePrepareAcceptedMsg from a quorum, StartBeingStablePrimary and its
\* SendNextVote: the freshest vote is proposed again, at its decree.  It is
\* the accepted one, whose copy keeps the cookies, or one another replica had.
\* The answers come in a later iteration than the prepare, so that
\* CheckNotifyStatus(false) was called in between.
BecomePrimary ==
    /\ mpc = "msgs" /\ st = "Preparing" /\ ~isPrimary
    /\ st' = "Primary" /\ inTransit' = TRUE
    /\ \E vote \in {accVote, <<>>} :
           accVote' = vote /\ outVote' = <<vote>>
    /\ accMine' = TRUE
    /\ UNCHANGED <<independent, inverted, ballotMine, isPrimary, toSend,
                   accPassed, execQ, threadVars, isShutting, appVars, spent>>

-----------------------------------------------------------------------------
(* MainLoop. *)

MainTop ==
    /\ mpc = "top"
    /\ mpc' = "msgs"
    /\ UNCHANGED <<independent, inverted, roleVars, voteVars, resume, hbLock,
                   hpc, xpc, spc, isShutting, appVars, spent>>

\* A primary with a vote outstanding has nothing more to do.
MainWait ==
    /\ mpc = "msgs" /\ st = "Primary" /\ outVote # <<>>
    /\ mpc' = "top"
    /\ UNCHANGED <<independent, inverted, roleVars, voteVars, resume, hbLock,
                   hpc, xpc, spc, isShutting, appVars, spent>>

\* A primary without one takes m_hbLock, checks again, and begins
\* CheckNotifyStatus(true).
MainLockHb ==
    /\ mpc = "msgs" /\ st = "Primary" /\ outVote = <<>>
    /\ hbLock = "free"
    /\ hbLock' = "main"
    /\ mpc' = IF isPrimary THEN "send" ELSE "notify"
    /\ isPrimary' = TRUE
    /\ inTransit' = (inTransit /\ ~isPrimary)
    /\ UNCHANGED <<independent, inverted, st, ballotMine, voteVars, resume,
                   hpc, xpc, spc, isShutting, appVars, spent>>

CallerLockFree == xpc = "top"

MainNotify ==
    /\ mpc = "notify" /\ CallerLockFree
    /\ appPrimary' = TRUE
    /\ inTransit' = FALSE
    /\ mpc' = "send"
    /\ UNCHANGED <<independent, inverted, st, ballotMine, isPrimary, voteVars,
                   resume, hbLock, hpc, xpc, spc, isShutting, taken, answers,
                   spent>>

\* SendNextVote of a new decree, by the thread that holds m_hbLock.
SendVote(vote) ==
    /\ outVote' = <<vote>>
    /\ accVote' = vote /\ accMine' = TRUE /\ accPassed' = FALSE

MainSend ==
    /\ mpc = "send"
    /\ \/ /\ toSend # <<>>
          /\ SendVote(Head(toSend))
          /\ toSend' = Tail(toSend)
       \/ /\ toSend = <<>>
          /\ UNCHANGED <<toSend, outVote, accVote, accMine, accPassed>>
    /\ hbLock' = "free" /\ mpc' = "top"
    /\ UNCHANGED <<independent, inverted, roleVars, execQ, resume, hpc, xpc,
                   spc, isShutting, appVars, spent>>

\* CheckNotifyStatus(false).
MainNotPrimary ==
    /\ mpc = "msgs" /\ st # "Primary"
    /\ isPrimary' = FALSE
    /\ mpc' = IF isPrimary THEN "drain" ELSE "top"
    /\ resume' = "top"
    /\ inTransit' = (inTransit /\ isPrimary)
    /\ UNCHANGED <<independent, inverted, st, ballotMine, voteVars, hbLock,
                   hpc, xpc, spc, isShutting, appVars, spent>>

AbortAllKeepQueue ==
    /\ answers' = [c \in Cookie |->
                       IF \E v \in Range(outVote \o toSend) : c \in Range(v)
                       THEN Append(answers[c], "Abort") ELSE answers[c]]
    /\ outVote' = <<>> /\ UNCHANGED toSend

\* The callbacks of AbortReplicateRequests, with m_callbackLock.
AbortAll ==
    /\ answers' = [c \in Cookie |->
                       IF \E v \in Range(outVote \o toSend) : c \in Range(v)
                       THEN Append(answers[c], "Abort") ELSE answers[c]]
    /\ outVote' = <<>> /\ toSend' = <<>>

MainDrain ==
    /\ mpc = "drain" /\ execQ = <<>>
    /\ mpc' = "abort"
    /\ UNCHANGED <<independent, inverted, roleVars, voteVars, resume, hbLock,
                   hpc, xpc, spc, isShutting, appVars, spent>>

MainAbort ==
    /\ mpc = "abort" /\ CallerLockFree
    /\ AbortAll
    /\ appPrimary' = FALSE
    /\ inTransit' = FALSE
    /\ mpc' = resume
    /\ UNCHANGED <<independent, inverted, st, ballotMine, isPrimary, accVote,
                   accMine, accPassed, execQ, resume, hbLock, hpc, xpc, spc,
                   isShutting, taken, spent>>

\* StopMainLoop, from Unload.
MainEnd ==
    /\ SpawnThread
    /\ mpc = "top" /\ spc = "run"
    /\ mpc' = "ended"
    /\ UNCHANGED <<independent, inverted, roleVars, voteVars, resume, hbLock,
                   hpc, xpc, spc, isShutting, appVars, spent>>

-----------------------------------------------------------------------------
(* HeartBeatLoop. *)

BeatWanted ==
    /\ hpc = "idle"
    /\ st = "Primary" /\ isPrimary /\ ~isShutting /\ outVote = <<>>
    /\ Spend("beats", MaxBeats)
    /\ hpc' = "lock"
    /\ UNCHANGED <<independent, inverted, roleVars, voteVars, mpc, resume,
                   hbLock, xpc, spc, isShutting, appVars>>

\* It takes m_hbLock and checks everything again.
BeatLock ==
    /\ hpc = "lock" /\ hbLock = "free"
    /\ IF outVote = <<>> /\ st = "Primary" /\ isPrimary /\ ballotMine
       THEN hpc' = "send" /\ hbLock' = "hb"
       ELSE hpc' = "idle" /\ UNCHANGED hbLock
    /\ inverted' = FALSE
    /\ UNCHANGED <<independent, roleVars, voteVars, mpc, resume, xpc, spc,
                   isShutting, appVars, spent>>

\* It sends the heartbeat, or leaves that to the main thread.
BeatSend ==
    /\ hpc = "send"
    /\ \/ /\ independent /\ ballotMine
          /\ SendVote(<<>>)
          /\ UNCHANGED toSend
       \/ /\ ~independent
          /\ toSend' = Append(toSend, <<>>)
          /\ UNCHANGED <<outVote, accVote, accMine, accPassed>>
    /\ hpc' = "idle" /\ hbLock' = "free"
    /\ UNCHANGED <<independent, inverted, roleVars, execQ, mpc, resume, xpc,
                   spc, isShutting, appVars, spent>>

\* SendNextVote asserts that the ballot is this replica's; else it ends the
\* process.
BeatAsserts ==
    /\ hpc = "send" /\ independent /\ ~ballotMine
    /\ hpc' = "assert"
    /\ UNCHANGED <<independent, inverted, roleVars, voteVars, mpc, resume,
                   hbLock, xpc, spc, isShutting, appVars, spent>>

-----------------------------------------------------------------------------
(* ExecuteLoop. *)

ExecuteTake ==
    /\ xpc = "top" /\ spc # "done"
    /\ ~inTransit /\ execQ # <<>>
    /\ xpc' = "exec"
    /\ UNCHANGED <<independent, inverted, roleVars, voteVars, mpc, resume,
                   hbLock, hpc, spc, isShutting, appVars, spent>>

ExecuteReplicatedRequests ==
    /\ xpc = "exec"
    /\ answers' = [c \in Cookie |->
                       IF c \in Range(Head(execQ))
                       THEN Append(answers[c], "Execute") ELSE answers[c]]
    /\ execQ' = Tail(execQ)
    /\ xpc' = "top"
    /\ UNCHANGED <<independent, inverted, roleVars, toSend, outVote, accVote,
                   accMine, accPassed, mpc, resume, hbLock, hpc, spc,
                   isShutting, taken, appPrimary, spent>>

-----------------------------------------------------------------------------
(* Stop, called by Unload or ShutDown. *)

StopCall ==
    /\ spc = "run"
    /\ SpawnThread => mpc = "ended" /\ hpc = "idle"
    /\ isShutting' = TRUE
    /\ spc' = "drain"
    /\ hpc' = IF SpawnThread THEN "ended" ELSE hpc
    /\ UNCHANGED <<independent, inverted, roleVars, voteVars, mpc, resume,
                   hbLock, xpc, appVars, spent>>

StopDrain ==
    /\ spc = "drain" /\ execQ = <<>>
    /\ spc' = "abort"
    /\ UNCHANGED <<independent, inverted, roleVars, voteVars, mpc, resume,
                   hbLock, hpc, xpc, isShutting, appVars, spent>>

StopAbort ==
    /\ spc = "abort" /\ CallerLockFree
    /\ AbortAll
    /\ spc' = "lock"
    /\ UNCHANGED <<independent, inverted, roleVars, accVote, accMine,
                   accPassed, execQ, mpc, resume, hbLock, hpc, xpc, isShutting,
                   taken, appPrimary, spent>>

\* m_shutdownLock, then the ShutDown callback: the execute thread is out.
StopDone ==
    /\ spc = "lock" /\ xpc = "top"
    /\ spc' = "done"
    /\ UNCHANGED <<independent, inverted, roleVars, voteVars, mpc, resume,
                   hbLock, hpc, xpc, isShutting, appVars, spent>>

-----------------------------------------------------------------------------
HandleMessages ==
    \/ HandleVoteAccepted \/ HandlePrepare \/ HandleVote
    \/ HandleVoteInversion \/ StartPrepare \/ BecomePrimary

MainLoopStep ==
    \/ MainTop \/ MainWait \/ MainLockHb \/ MainNotify \/ MainSend
    \/ MainNotPrimary \/ MainDrain \/ MainAbort \/ AcceptAfterInversion

NextClientRequests ==
    /\ hpc # "assert"
    /\ \/ \E c \in Cookie : ReplicateRequest(c)
       \/ HandleMessages \/ MainLoopStep \/ MainEnd
       \/ BeatWanted \/ BeatLock \/ BeatSend \/ BeatAsserts
       \/ ExecuteTake \/ ExecuteReplicatedRequests
       \/ StopCall \/ StopDrain \/ StopAbort \/ StopDone

\* Every thread that can run does, and a thread that waits for a lock gets
\* it.  A vote stays outstanding until a quorum accepts it or another primary
\* takes over (else ReSendCurrentVote terminates the process).
Alive(A) == hpc # "assert" /\ A
FairClientRequests ==
    /\ SF_clientVars(Alive(MainTop)) /\ SF_clientVars(Alive(MainLoopStep))
    /\ SF_clientVars(Alive(HandleVoteAccepted \/ HandlePrepare))
    /\ WF_clientVars(BeatSend \/ BeatAsserts) /\ SF_clientVars(BeatLock)
    /\ WF_clientVars(Alive(ExecuteTake))
    /\ WF_clientVars(Alive(ExecuteReplicatedRequests))
    /\ WF_clientVars(Alive(mpc = "ended" /\ StopCall))
    /\ WF_clientVars(Alive(StopDrain)) /\ SF_clientVars(Alive(StopAbort))
    /\ SF_clientVars(Alive(StopDone))

SpecClientRequests ==
    InitClientRequests /\ [][NextClientRequests]_clientVars
    /\ FairClientRequests

-----------------------------------------------------------------------------
(* Properties. *)

\* "The implementation guarantees that it will subsequently call
\* ExecuteReplicatedRequest() or AbortRequest() with cookie", the "matching
\* call" (rsl.h:822-826), and either callback owns the cookie and deletes it
\* (rsl.h:1116, 1175): a cookie is called back once.
AnsweredOnce == \A c \in Cookie : Len(answers[c]) <= 1

\* What the code does keep: a cookie is executed once at most, as rsl.h:1112
\* says ("executed with cookie non-NULL at most once"), and called back no
\* more often than this replica has begun elections.  AbortReplicateRequests
\* leaves the cookies in m_maxAcceptedVote, and StartBeingStablePrimary
\* proposes a copy of it with them.
AnsweredByTerm ==
    \A c \in Cookie :
        /\ Len(answers[c]) <= spent.terms
        /\ \A i, j \in DOMAIN answers[c] :
               answers[c][i] = "Execute" /\ answers[c][j] = "Execute" => i = j

\* "There are no dangling cookie objects" (rsl.h:1223) once NotifyStatus has
\* told the application that it is not the primary: what was accepted before
\* has been executed or aborted, wherever it was: queued, outstanding or
\* passed.  The same holds when Unload has called ShutDown (without threads
\* of its own, Stop ends the process).
NoneDangling ==
    (SpawnThread /\ spc = "done") \/ (~appPrimary /\ ~isPrimary) =>
        \A c \in taken : answers[c] # <<>>

\* A cookie that ReplicateRequest has taken is in a vote or a queue from which
\* it will be answered, or has been, and not oftener than AnsweredByTerm says.
CookiesKept == AnsweredByTerm /\ NoneDangling

\* Every accepted request is executed or aborted in the end, through
\* elections, heartbeats, aborts and Unload, unless a heartbeat has ended the
\* process (see HeartbeatAlone).
RequestAnswered ==
    \A c \in Cookie : c \in taken ~> (answers[c] # <<>> \/ hpc = "assert")

\* The assertions of SendNextVote when the heartbeat thread calls it: no vote
\* is outstanding and the ballot is this replica's.  "We have to be careful to
\* not send the HB in race condition with MainLoop.  to that end, we use
\* m_hbLock to get mutual exclusion" (legislator.cpp:1772).
HeartbeatAlone ==
    independent /\ hpc = "send" => outVote = <<>> /\ ballotMine

\* What m_hbLock does ensure: no vote is outstanding, and the ballot is this
\* replica's unless a vote has overtaken the prepare of its ballot since the
\* heartbeat thread locked it.  HandleNewVotes handles that inversion, and
\* accepts the vote, without m_hbLock (legislator.cpp:2577-2590).
HeartbeatLocked ==
    independent /\ hpc = "send" => outVote = <<>> /\ (ballotMine \/ inverted)

\* Unload gets through Stop, which waits "until all the requests in the
\* m_executeq get executed" (legislator.cpp:2410).
UnloadEnds == mpc = "ended" ~> (spc = "done" \/ hpc = "assert")
=============================================================================
