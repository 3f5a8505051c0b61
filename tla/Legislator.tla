----------------------------- MODULE Legislator -----------------------------
(***************************************************************************)
(* The agreement protocol of one RSL configuration: the message handlers,  *)
(* timers and log writes of the Legislator's main thread, for every member *)
(* of the configuration at once (legislator.cpp).                          *)
(*                                                                         *)
(* RSL restricts Paxos so that a replica holds a single vote that is not   *)
(* known to be chosen (m_maxAcceptedVote).  The vote (b, d, v) passes when *)
(* its primary hears from a quorum, and everywhere else when the vote      *)
(* (b, d+1, v') of the same ballot arrives.                                *)
(*                                                                         *)
(* The network is the set of all messages ever sent: a message may be      *)
(* handled late, in any order, any number of times or never.  A handler is *)
(* one step.  Time is left out: whatever waits for a timeout may happen.   *)
(* The configuration has at least two members, no log is truncated, and    *)
(* heartbeats come from the main thread (m_IndependentHeartbeat is off).   *)
(*                                                                         *)
(* Some operators are preceded by a twin that makes a mistake in them      *)
(* (NextVoteDecreeSame, LogVoteOncePerDecree, ...).  Nothing uses them:    *)
(* put in the place of the operator, each is caught by a property below.   *)
(***************************************************************************)
EXTENDS Ballots, Sequences, FiniteSets

CONSTANTS
    Member,        \* member ids, positive naturals
    Candidates,    \* members whose state machine answers CanBecomePrimary
    Value,         \* what a vote with client requests carries
    NoValue,       \* what a vote without requests carries
    MaxBallotId,   \* bound: no larger ballot id is prepared
    MaxDecree      \* bound: no larger decree is proposed

ASSUME MemberAssumption ==
    /\ Member \subseteq Nat \ {0}
    /\ IsFiniteSet(Member)
    /\ Cardinality(Member) >= 2
    /\ Candidates \subseteq Member

ASSUME ValueAssumption == NoValue \notin Value

ASSUME BoundAssumption == MaxBallotId \in Nat /\ MaxDecree \in Nat

VARIABLES
    state,        \* m_state
    maxBallot,    \* m_maxBallot, the highest ballot prepared or accepted
    maxAccepted,  \* m_maxAcceptedVote
    outstanding,  \* m_outstandingVote, or NoVote
    oldFreshest,  \* m_oldFreshestVote, or NoVote
    responses,    \* the keys of m_responseMap
    statusMap,    \* m_statusMap: member -> the vote it reported, or NoVote
    relinquish,   \* m_relinquishPrimary
    learn,        \* the LearnVotes call the main thread is in, or NotLearning
    log,          \* the records that the next restart replays from disk
    lastPassed,   \* m_executeQ.m_lastPassedDecree
    passed,       \* history: every [dec, val] ever handed to execution
    msgs          \* every message ever sent

volatile == <<state, outstanding, oldFreshest, responses, statusMap,
              relinquish, learn>>
vars == <<state, maxBallot, maxAccepted, outstanding, oldFreshest, responses,
          statusMap, relinquish, learn, log, lastPassed, passed, msgs>>

-----------------------------------------------------------------------------
(* Data. *)

Decree == Nat \ {0}
AnyValue == Value \cup {NoValue}
Vote == [bal : Ballot, dec : Decree, val : AnyValue]

\* The vote PersistMemberSet gives a bootstrapped replica; it is not logged.
InitialVote == [bal |-> ZeroBallot, dec |-> 1, val |-> NoValue]
NoVote == [bal |-> ZeroBallot, dec |-> 0, val |-> NoValue]

Record == [kind : {"Vote", "Prepare"}, bal : Ballot, dec : Decree,
           val : AnyValue]
VoteRecord(v) ==
    [kind |-> "Vote", bal |-> v.bal, dec |-> v.dec, val |-> v.val]
PrepareRecord(bal, dec) ==
    [kind |-> "Prepare", bal |-> bal, dec |-> dec, val |-> NoValue]

NotLearning == [src |-> 0, pos |-> 0, last |-> NoVote]
Learning == [src : Member, pos : Nat \ {0}, last : Vote \cup {NoVote}]

\* A Vote comes from the owner of its ballot, and a PrepareAccepted or a
\* VoteAccepted goes to it.
PrepareMsg(bal, dec) == [type |-> "Prepare", bal |-> bal, dec |-> dec]
PrepareAcceptedMsg(src, bal, dec, vote) ==
    [type |-> "PrepareAccepted", src |-> src, bal |-> bal, dec |-> dec,
     vote |-> vote]
VoteMsg(vote, rp) == [type |-> "Vote", bal |-> vote.bal, dec |-> vote.dec,
                      val |-> vote.val, rp |-> rp]
VoteAcceptedMsg(src, bal, dec) ==
    [type |-> "VoteAccepted", src |-> src, bal |-> bal, dec |-> dec]
NotAcceptedMsg(src, dst, bal, dec) ==
    [type |-> "NotAccepted", src |-> src, dst |-> dst, bal |-> bal,
     dec |-> dec]

Message ==
    [type : {"Prepare"}, bal : Ballot, dec : Decree]
    \cup [type : {"PrepareAccepted"}, src : Member, bal : Ballot,
          dec : Decree, vote : Vote]
    \cup [type : {"Vote"}, bal : Ballot, dec : Decree, val : AnyValue,
          rp : BOOLEAN]
    \cup [type : {"VoteAccepted"}, src : Member, bal : Ballot, dec : Decree]
    \cup [type : {"NotAccepted"}, src : Member, dst : Nat, bal : Ballot,
          dec : Decree]

Sent(type) == {m \in msgs : m.type = type}
Send(m) == msgs' = msgs \cup {m}

QuorumSize == Cardinality(Member) \div 2 + 1

AmPrimary(r) == state[r] = "StablePrimary"

-----------------------------------------------------------------------------
(* What RestoreState reads back from a log. *)

VotesUpTo(l, n) == {i \in 1..n : l[i].kind = "Vote"}

HasVote(l) == VotesUpTo(l, Len(l)) # {}

\* The last vote among the first n records.
LoggedVote(l, n) ==
    IF VotesUpTo(l, n) = {}
    THEN InitialVote
    ELSE LET i == CHOOSE i \in VotesUpTo(l, n) :
                      \A j \in VotesUpTo(l, n) : j <= i
         IN  [bal |-> l[i].bal, dec |-> l[i].dec, val |-> l[i].val]

\* Replay skips a record at or below the last executed decree, which is the
\* decree before that of the last vote it has read.
Replayed(l) == {i \in 1..Len(l) : l[i].dec >= LoggedVote(l, i - 1).dec}

ReplayedBallots(l) == {ZeroBallot} \cup {l[i].bal : i \in Replayed(l)}

RestoredBallotOfVotes(l) == LoggedVote(l, Len(l)).bal

RestoredBallot(l) ==
    CHOOSE b \in ReplayedBallots(l) :
        \A c \in ReplayedBallots(l) : BallotLeq(c, b)

\* A vote executes when the vote after it in the log is for the next decree.
ReplayedDecrees(l) ==
    {[dec |-> LoggedVote(l, i - 1).dec, val |-> LoggedVote(l, i - 1).val] :
        i \in {j \in VotesUpTo(l, Len(l)) :
                   l[j].dec = LoggedVote(l, j - 1).dec + 1}}

-----------------------------------------------------------------------------
(* Steps that the handlers share. *)

MaxOf(a, b) == IF BallotLess(a, b) THEN b ELSE a

\* AddToExecutionQueue: Enqueue ignores the decree that passed last.
AddToExecutionQueue(r, vote) ==
    IF vote.dec = lastPassed[r]
    THEN UNCHANGED <<lastPassed, passed>>
    ELSE /\ lastPassed' = [lastPassed EXCEPT ![r] = vote.dec]
         /\ passed' = passed \cup {[dec |-> vote.dec, val |-> vote.val]}

LogVoteOncePerDecree(r, vote) ==
    /\ maxAccepted' = [maxAccepted EXCEPT ![r] = vote]
    /\ maxBallot' = [maxBallot EXCEPT ![r] = MaxOf(@, vote.bal)]
    /\ IF maxAccepted[r].dec = vote.dec
       THEN UNCHANGED log
       ELSE log' = [log EXCEPT ![r] = Append(@, VoteRecord(vote))]

\* LogVote: a vote with the decree and ballot of the accepted one replaces it
\* in memory only.
LogVote(r, vote) ==
    /\ maxAccepted' = [maxAccepted EXCEPT ![r] = vote]
    /\ IF IsSameDecree(maxAccepted[r], vote.dec, vote.bal)
       THEN UNCHANGED <<log, maxBallot>>
       ELSE /\ log' = [log EXCEPT ![r] = Append(@, VoteRecord(vote))]
            /\ maxBallot' = [maxBallot EXCEPT ![r] = MaxOf(@, vote.bal)]

LogAndAcceptVoteEarly(r, vote) ==
    /\ IF vote.dec = maxAccepted[r].dec + 1
       THEN AddToExecutionQueue(r, vote)
       ELSE UNCHANGED <<lastPassed, passed>>
    /\ LogVote(r, vote)

\* LogAndAcceptVote: the vote for the next decree passes the accepted one.
LogAndAcceptVote(r, vote) ==
    /\ IF vote.dec = maxAccepted[r].dec + 1
       THEN AddToExecutionQueue(r, maxAccepted[r])
       ELSE UNCHANGED <<lastPassed, passed>>
    /\ LogVote(r, vote)

LogPrepare(r, bal, dec) ==
    IF bal = maxBallot[r]
    THEN UNCHANGED <<log, maxBallot>>
    ELSE /\ log' = [log EXCEPT ![r] = Append(@, PrepareRecord(bal, dec))]
         /\ maxBallot' = [maxBallot EXCEPT ![r] = MaxOf(@, bal)]

NoStatus == [q \in Member |-> NoVote]

StartInitializing(r) ==
    /\ state' = [state EXCEPT ![r] = "Initializing"]
    /\ responses' = [responses EXCEPT ![r] = {}]
    /\ statusMap' = [statusMap EXCEPT ![r] = NoStatus]

StartBeingStableSecondary(r) ==
    /\ state' = [state EXCEPT ![r] = "StableSecondary"]
    /\ responses' = [responses EXCEPT ![r] = {}]

\* SendNextVote, and with it the first vote of StartBeingStablePrimary.
SendVote(r, vote, rp) ==
    /\ outstanding' = [outstanding EXCEPT ![r] = vote]
    /\ responses' = [responses EXCEPT ![r] = {}]
    /\ LogVote(r, vote)
    /\ Send(VoteMsg(vote, rp))

\* m_maxSeenBallot is the highest ballot received since the start: some
\* ballot that was sent, or none.
SeenBallot == {ZeroBallot} \cup {m.bal : m \in msgs}

NewBallot(r, seen) ==
    LET b == [id |-> maxBallot[r].id + 1, mem |-> r]
    IN  IF BallotLess(b, seen) THEN [id |-> seen.id + 1, mem |-> r] ELSE b

NextVoteDecreeSame(r) == maxAccepted[r].dec

NextVoteDecreeBefore(r) ==
    IF maxBallot[r] = maxAccepted[r].bal
    THEN maxAccepted[r].dec + 1
    ELSE maxAccepted[r].dec - 1

\* The decree of the next vote: the accepted one is proposed again until it
\* carries the primary's own ballot.
NextVoteDecree(r) ==
    IF maxBallot[r] = maxAccepted[r].bal
    THEN maxAccepted[r].dec + 1
    ELSE maxAccepted[r].dec

\* Everything a process loses, and what replaces it when the log ends with
\* vote and the decrees up to dec have executed.
RestoreFrom(r, vote, dec) ==
    /\ state' = [state EXCEPT ![r] = "Initializing"]
    /\ maxBallot' = [maxBallot EXCEPT ![r] = RestoredBallot(log[r])]
    /\ maxAccepted' = [maxAccepted EXCEPT ![r] = vote]
    /\ outstanding' = [outstanding EXCEPT ![r] = NoVote]
    /\ oldFreshest' = [oldFreshest EXCEPT ![r] = NoVote]
    /\ responses' = [responses EXCEPT ![r] = {}]
    /\ statusMap' = [statusMap EXCEPT ![r] = NoStatus]
    /\ relinquish' = [relinquish EXCEPT ![r] = FALSE]
    /\ learn' = [learn EXCEPT ![r] = NotLearning]
    /\ lastPassed' = [lastPassed EXCEPT ![r] = dec]
    /\ passed' = passed \cup ReplayedDecrees(log[r])

\* RestoreState, then StartInitializing.
RestoreState(r) ==
    LET vote == LoggedVote(log[r], Len(log[r]))
    IN  RestoreFrom(r, vote, vote.dec - 1)

-----------------------------------------------------------------------------
(* Initializing: status responses, learning, and the way out. *)

\* Timer: the election timeout of a secondary, the prepare timeout, and the
\* retry of the status query.
TimerStartInitializing(r) ==
    /\ learn[r] = NotLearning
    /\ state[r] \in {"StableSecondary", "Preparing", "Initializing"}
    /\ StartInitializing(r)
    /\ UNCHANGED <<maxBallot, maxAccepted, outstanding, oldFreshest,
                   relinquish, learn, log, lastPassed, passed, msgs>>

StartLearningAtFileStart(r, src) ==
    /\ VotesUpTo(log[src], Len(log[src])) # {}
    /\ learn' = [learn EXCEPT ![r] = [src |-> src, pos |-> 1, last |-> NoVote]]

\* LearnVotes connects to src and asks for the votes from the accepted decree
\* on; src streams its log from its last vote for that decree.
StartLearning(r, src) ==
    \E i \in VotesUpTo(log[src], Len(log[src])) :
        /\ log[src][i].dec = maxAccepted[r].dec
        /\ \A j \in VotesUpTo(log[src], Len(log[src])) :
               log[src][j].dec = maxAccepted[r].dec => j <= i
        /\ learn' = [learn EXCEPT ![r] =
                         [src |-> src, pos |-> i, last |-> NoVote]]

\* The members that reported a vote higher than the accepted one.
HigherLogged(r, map) ==
    {q \in Member : /\ map[q] # NoVote
                    /\ IsHigherDecree(map[q], maxAccepted[r].dec,
                                      maxAccepted[r].bal)}

Reported(map) == {q \in Member : map[q] # NoVote}

\* StartPreparing, from the end of the Initializing state.
StartPreparing(r) ==
    \E seen \in SeenBallot :
        LET b == NewBallot(r, seen)
        IN  /\ b.id <= MaxBallotId
            /\ state' = [state EXCEPT ![r] = "Preparing"]
            /\ responses' = [responses EXCEPT ![r] = {}]
            /\ oldFreshest' = [oldFreshest EXCEPT ![r] = maxAccepted[r]]
            /\ Send(PrepareMsg(b, maxAccepted[r].dec))
            /\ LogPrepare(r, b, maxAccepted[r].dec)

\* The query, the response and its arrival are one step.  The map is read
\* only before the decision, which forgets it.
ReceiveStatus(r, q) ==
    /\ learn[r] = NotLearning
    /\ q # r
    /\ ~relinquish[q]

StatusWait(r, q) ==
    LET map == [statusMap[r] EXCEPT ![q] = maxAccepted[q]]
    IN  /\ ReceiveStatus(r, q)
        /\ state[r] = "Initializing"
        /\ Cardinality(Reported(map)) < QuorumSize - 1
        /\ statusMap' = [statusMap EXCEPT ![r] = map]
        /\ UNCHANGED <<state, maxBallot, maxAccepted, outstanding,
                       oldFreshest, responses, relinquish, learn, log,
                       lastPassed, passed, msgs>>

\* A quorum has answered: learn from a member that is ahead.
StatusLearn(r, q) ==
    LET map == [statusMap[r] EXCEPT ![q] = maxAccepted[q]]
    IN  /\ ReceiveStatus(r, q)
        /\ state[r] = "Initializing"
        /\ Cardinality(Reported(map)) >= QuorumSize - 1
        /\ \E src \in HigherLogged(r, map) : StartLearning(r, src)
        /\ statusMap' = [statusMap EXCEPT ![r] = NoStatus]
        /\ UNCHANGED <<state, maxBallot, maxAccepted, outstanding,
                       oldFreshest, responses, relinquish, log, lastPassed,
                       passed, msgs>>

\* A quorum has answered and nobody is ahead (MoveToSecondaryOrPrepare).
UpToDate(r, q) ==
    LET map == [statusMap[r] EXCEPT ![q] = maxAccepted[q]]
    IN  /\ ReceiveStatus(r, q)
        /\ state[r] = "Initializing"
        /\ Cardinality(Reported(map)) >= QuorumSize - 1
        /\ HigherLogged(r, map) = {}

StatusSecondary(r, q) ==
    /\ UpToDate(r, q)
    /\ StartBeingStableSecondary(r)
    /\ statusMap' = [statusMap EXCEPT ![r] = NoStatus]
    /\ UNCHANGED <<maxBallot, maxAccepted, outstanding, oldFreshest,
                   relinquish, learn, log, lastPassed, passed, msgs>>

StatusPrepare(r, q) ==
    /\ UpToDate(r, q)
    /\ r \in Candidates
    /\ StartPreparing(r)
    /\ statusMap' = [statusMap EXCEPT ![r] = NoStatus]
    /\ UNCHANGED <<maxAccepted, outstanding, relinquish, learn, lastPassed,
                   passed>>

\* A process that stops between the two lines of StartPreparing has sent a
\* prepare that is not in its log.
StatusPrepareCrash(r, q) ==
    /\ UpToDate(r, q)
    /\ r \in Candidates
    /\ HasVote(log[r]) \/ log[r] = <<>>
    /\ \E seen \in SeenBallot :
           /\ NewBallot(r, seen).id <= MaxBallotId
           /\ Send(PrepareMsg(NewBallot(r, seen), maxAccepted[r].dec))
    /\ RestoreState(r)
    /\ UNCHANGED log

\* A response to an earlier query, outside the Initializing state: learn when
\* the sender is one decree ahead.
StatusAhead(r, q) ==
    /\ ReceiveStatus(r, q)
    /\ state[r] \in {"StableSecondary", "Preparing"}
    /\ maxAccepted[q].dec = maxAccepted[r].dec + 1
    /\ BallotLeq(maxAccepted[r].bal, maxAccepted[q].bal)
    /\ StartLearning(r, q)
    /\ UNCHANGED <<state, maxBallot, maxAccepted, outstanding, oldFreshest,
                   responses, statusMap, relinquish, log, lastPassed, passed,
                   msgs>>

-----------------------------------------------------------------------------
(* LearnVotes, one record of the stream at a time. *)

\* The stream has another record.
MoreToLearn(r) ==
    /\ learn[r] # NotLearning
    /\ learn[r].pos <= Len(log[learn[r].src])

NextRecord(r) == log[learn[r].src][learn[r].pos]

NextVote(r) ==
    [bal |-> NextRecord(r).bal, dec |-> NextRecord(r).dec,
     val |-> NextRecord(r).val]

\* The votes of the stream are sequential and at most one decree ahead.
ValidVote(r) ==
    LET vote == NextVote(r)
        last == learn[r].last
    IN  IF last = NoVote
        THEN vote.dec = maxAccepted[r].dec
        ELSE /\ IsNextDecree(vote, last.dec, last.bal)
             /\ vote.dec \in {maxAccepted[r].dec, maxAccepted[r].dec + 1}

Advance(r, last) ==
    learn' = [learn EXCEPT ![r] =
                  [src |-> @.src, pos |-> @.pos + 1, last |-> last]]

LearnPrepare(r) ==
    /\ MoreToLearn(r)
    /\ NextRecord(r).kind = "Prepare"
    /\ IF BallotLess(maxBallot[r], NextRecord(r).bal)
       THEN LogPrepare(r, NextRecord(r).bal, NextRecord(r).dec)
       ELSE UNCHANGED <<log, maxBallot>>
    /\ Advance(r, learn[r].last)
    /\ UNCHANGED <<state, maxAccepted, outstanding, oldFreshest, responses,
                   statusMap, relinquish, lastPassed, passed, msgs>>

\* A vote below the ballot of the accepted one is passed over.
LearnSkip(r) ==
    /\ MoreToLearn(r)
    /\ NextRecord(r).kind = "Vote"
    /\ ValidVote(r)
    /\ BallotLess(NextVote(r).bal, maxAccepted[r].bal)
    /\ Advance(r, NextVote(r))
    /\ UNCHANGED <<state, maxBallot, maxAccepted, outstanding, oldFreshest,
                   responses, statusMap, relinquish, log, lastPassed, passed,
                   msgs>>

\* The value of the vote under the ballot of the accepted one.
MissingVote(r) == [bal |-> maxAccepted[r].bal, dec |-> NextVote(r).dec,
                   val |-> NextVote(r).val]

\* The vote is for the next decree but with a higher ballot: log the missing
\* vote first.  The vote itself is the next step, so the process may stop
\* between the two writes.
LearnMissing(r) ==
    /\ MoreToLearn(r)
    /\ NextRecord(r).kind = "Vote"
    /\ ValidVote(r)
    /\ ~BallotLess(NextVote(r).bal, maxAccepted[r].bal)
    /\ ~IsNextDecree(NextVote(r), maxAccepted[r].dec, maxAccepted[r].bal)
    /\ LogAndAcceptVote(r, MissingVote(r))
    /\ UNCHANGED <<state, outstanding, oldFreshest, responses, statusMap,
                   relinquish, learn, msgs>>

LearnAcceptUnpassed(r) ==
    /\ MoreToLearn(r)
    /\ NextRecord(r).kind = "Vote"
    /\ ValidVote(r)
    /\ ~BallotLess(NextVote(r).bal, maxAccepted[r].bal)
    /\ IsNextDecree(NextVote(r), maxAccepted[r].dec, maxAccepted[r].bal)
    /\ LogVote(r, NextVote(r))
    /\ Advance(r, NextVote(r))
    /\ UNCHANGED <<state, responses, outstanding, oldFreshest, statusMap,
                   relinquish, lastPassed, passed, msgs>>

LearnAccept(r) ==
    /\ MoreToLearn(r)
    /\ NextRecord(r).kind = "Vote"
    /\ ValidVote(r)
    /\ ~BallotLess(NextVote(r).bal, maxAccepted[r].bal)
    /\ IsNextDecree(NextVote(r), maxAccepted[r].dec, maxAccepted[r].bal)
    /\ LogAndAcceptVote(r, NextVote(r))
    /\ \/ /\ Advance(r, NextVote(r))
          /\ UNCHANGED <<state, responses>>
       \/ \* a cached vote is at or below this decree
          /\ \E m \in Sent("Vote") : /\ m.bal.mem # r
                                     /\ m.dec <= NextVote(r).dec
          /\ StartBeingStableSecondary(r)
          /\ learn' = [learn EXCEPT ![r] = NotLearning]
    /\ UNCHANGED <<outstanding, oldFreshest, statusMap, relinquish, msgs>>

\* The end of the stream, an invalid vote, or a broken connection.
LearnEnd(r) ==
    /\ learn[r] # NotLearning
    /\ learn' = [learn EXCEPT ![r] = NotLearning]
    /\ StartInitializing(r)
    /\ UNCHANGED <<maxBallot, maxAccepted, outstanding, oldFreshest,
                   relinquish, log, lastPassed, passed, msgs>>

-----------------------------------------------------------------------------
(* Elections. *)

\* Replies, where the handler sends one, go back to the owner of the ballot.
Reject(r, m) ==
    Send(NotAcceptedMsg(r, m.bal.mem, maxBallot[r], maxAccepted[r].dec))

HandlePrepareLower(r, m) ==
    /\ learn[r] = NotLearning
    /\ m.bal.mem # r
    /\ ~relinquish[r]
    /\ IsLowerDecree(m, maxAccepted[r].dec, maxBallot[r])
    /\ \/ m.dec + 1 < maxAccepted[r].dec
       \/ BallotLess(m.bal, maxBallot[r])
    /\ Reject(r, m)
    /\ UNCHANGED <<volatile, maxBallot, maxAccepted, log, lastPassed, passed>>

HandlePrepareMsgAnyDecree(r, m) ==
    /\ learn[r] = NotLearning
    /\ m.bal.mem # r
    /\ ~relinquish[r]
    /\ ~BallotLess(m.bal, maxBallot[r])
    /\ state[r] # "Initializing"
    /\ LogPrepare(r, m.bal, m.dec)
    /\ Send(PrepareAcceptedMsg(r, m.bal, m.dec, maxAccepted[r]))
    /\ StartBeingStableSecondary(r)
    /\ UNCHANGED <<maxAccepted, outstanding, oldFreshest, statusMap,
                   relinquish, learn, lastPassed, passed>>

HandlePrepareMsg(r, m) ==
    /\ learn[r] = NotLearning
    /\ m.bal.mem # r
    /\ ~relinquish[r]
    /\ ~IsLowerDecree(m, maxAccepted[r].dec, maxBallot[r])
    /\ state[r] # "Initializing"
    /\ LogPrepare(r, m.bal, m.dec)
    /\ Send(PrepareAcceptedMsg(r, m.bal, m.dec, maxAccepted[r]))
    /\ IF m.dec > maxAccepted[r].dec
       THEN StartInitializing(r)
       ELSE StartBeingStableSecondary(r) /\ UNCHANGED statusMap
    /\ UNCHANGED <<maxAccepted, outstanding, oldFreshest, relinquish, learn,
                   lastPassed, passed>>

\* The freshest vote known for the decree that is being prepared.
Fresher(r, vote) ==
    IF /\ vote.dec = oldFreshest[r].dec
       /\ BallotLess(oldFreshest[r].bal, vote.bal)
    THEN vote
    ELSE oldFreshest[r]

\* StartBeingStablePrimary proposes the freshest vote under the new ballot.
\* A member that is giving up the primary sends nothing.
StartBeingStablePrimary(r, freshest) ==
    /\ state' = [state EXCEPT ![r] = "StablePrimary"]
    /\ oldFreshest' = [oldFreshest EXCEPT ![r] = NoVote]
    /\ IF relinquish[r]
       THEN /\ outstanding' = [outstanding EXCEPT ![r] = NoVote]
            /\ responses' = [responses EXCEPT ![r] = {}]
            /\ UNCHANGED <<maxBallot, maxAccepted, log, msgs>>
       ELSE SendVote(r, [bal |-> maxBallot[r], dec |-> NextVoteDecree(r),
                         val |-> freshest.val], FALSE)

HandlePrepareAcceptedMsg(r, m) ==
    /\ learn[r] = NotLearning
    /\ state[r] = "Preparing"
    /\ m.bal.mem = r
    /\ IsSameDecree(m, maxAccepted[r].dec, maxBallot[r])
    /\ m.vote.dec <= m.dec /\ BallotLeq(m.vote.bal, m.bal)
    /\ LET answered == responses[r] \cup {m.src}
       IN  IF Cardinality(answered) >= QuorumSize - 1
           THEN StartBeingStablePrimary(r, Fresher(r, m.vote))
           ELSE /\ responses' = [responses EXCEPT ![r] = answered]
                /\ oldFreshest' =
                       [oldFreshest EXCEPT ![r] = Fresher(r, m.vote)]
                /\ UNCHANGED <<state, outstanding, maxBallot, maxAccepted,
                               log, msgs>>
    /\ UNCHANGED <<statusMap, relinquish, learn, lastPassed, passed>>

HandleNotAcceptedMsgStays(r, m) ==
    /\ learn[r] = NotLearning
    /\ m.dst = r
    /\ ~IsLowerDecree(m, maxAccepted[r].dec, maxAccepted[r].bal)
    /\ state[r] # "Initializing"
    /\ m.dec = maxAccepted[r].dec
    /\ BallotLess(maxBallot[r], m.bal)
    /\ LogPrepare(r, m.bal, m.dec)
    /\ UNCHANGED <<volatile, maxAccepted, lastPassed, passed, msgs>>

HandleNotAcceptedMsg(r, m) ==
    /\ learn[r] = NotLearning
    /\ m.dst = r
    /\ ~IsLowerDecree(m, maxAccepted[r].dec, maxAccepted[r].bal)
    /\ state[r] # "Initializing"
    /\ \/ /\ m.dec > maxAccepted[r].dec
          /\ StartInitializing(r)
          /\ UNCHANGED <<maxBallot, log>>
       \/ /\ m.dec = maxAccepted[r].dec
          /\ BallotLess(maxBallot[r], m.bal)
          /\ LogPrepare(r, m.bal, m.dec)
          /\ StartBeingStableSecondary(r)
          /\ UNCHANGED statusMap
    /\ UNCHANGED <<maxAccepted, outstanding, oldFreshest, relinquish, learn,
                   lastPassed, passed, msgs>>

-----------------------------------------------------------------------------
(* Votes. *)

\* MainLoop, with a free slot for a vote from the queue: client requests, or
\* nothing for a heartbeat.
SendNextVote(r, val) ==
    /\ learn[r] = NotLearning
    /\ AmPrimary(r)
    /\ outstanding[r] = NoVote
    /\ ~relinquish[r]
    /\ NextVoteDecree(r) <= MaxDecree
    /\ SendVote(r, [bal |-> maxBallot[r], dec |-> NextVoteDecree(r),
                    val |-> val], FALSE)
    /\ UNCHANGED <<state, oldFreshest, statusMap, relinquish, learn,
                   lastPassed, passed>>

\* The vote that RelinquishPrimary put in the queue.
SendRelinquishVote(r) ==
    /\ learn[r] = NotLearning
    /\ AmPrimary(r)
    /\ outstanding[r] = NoVote
    /\ ~relinquish[r]
    /\ NextVoteDecree(r) <= MaxDecree
    /\ relinquish' = [relinquish EXCEPT ![r] = TRUE]
    /\ SendVote(r, [bal |-> maxBallot[r], dec |-> NextVoteDecree(r),
                    val |-> NoValue], TRUE)
    /\ UNCHANGED <<state, oldFreshest, statusMap, learn, lastPassed, passed>>

\* MainLoop leaves the votes in the cache while Initializing.
ReceiveVote(r, m) ==
    /\ learn[r] = NotLearning
    /\ m.bal.mem # r
    /\ ~relinquish[r]
    /\ state[r] # "Initializing"

HandleVoteLower(r, m) ==
    /\ ReceiveVote(r, m)
    /\ IsLowerDecree(m, maxAccepted[r].dec, maxAccepted[r].bal)
    /\ \/ BallotLess(m.bal, maxBallot[r])
       \/ m.dec + 1 < maxAccepted[r].dec
    /\ Reject(r, m)
    /\ UNCHANGED <<volatile, maxBallot, maxAccepted, log, lastPassed, passed>>

\* The vote is logged even when its ballot is below maxBallot; it then counts
\* as rejected.  After a vote that gives up the primary the handler returns
\* without becoming a secondary, unless it sent no reply.
HandleVoteNext(r, m) ==
    /\ ReceiveVote(r, m)
    /\ ~IsLowerDecree(m, maxAccepted[r].dec, maxAccepted[r].bal)
    /\ IsNextDecree(m, maxAccepted[r].dec, maxAccepted[r].bal)
    /\ LogAndAcceptVote(r, [bal |-> m.bal, dec |-> m.dec, val |-> m.val])
    /\ IF BallotLess(m.bal, maxBallot[r])
       THEN Send(NotAcceptedMsg(r, m.bal.mem, maxBallot[r], m.dec))
       ELSE Send(VoteAcceptedMsg(r, m.bal, m.dec))
    /\ \/ StartBeingStableSecondary(r)
       \/ m.rp /\ ~AmPrimary(r) /\ UNCHANGED <<state, responses>>
    /\ UNCHANGED <<outstanding, oldFreshest, statusMap, relinquish, learn>>

\* A vote from further ahead: this replica has missed votes.
HandleVoteBehind(r, m) ==
    /\ ReceiveVote(r, m)
    /\ ~IsLowerDecree(m, maxAccepted[r].dec, maxAccepted[r].bal)
    /\ ~IsNextDecree(m, maxAccepted[r].dec, maxAccepted[r].bal)
    /\ StartInitializing(r)
    /\ UNCHANGED <<maxBallot, maxAccepted, outstanding, oldFreshest,
                   relinquish, learn, log, lastPassed, passed, msgs>>

ReceiveVoteAcceptedLate(r, m) ==
    /\ learn[r] = NotLearning
    /\ AmPrimary(r)
    /\ m.bal.mem = r
    /\ outstanding[r] # NoVote

\* The response counts for the vote that is outstanding.
ReceiveVoteAccepted(r, m) ==
    /\ learn[r] = NotLearning
    /\ AmPrimary(r)
    /\ m.bal.mem = r
    /\ outstanding[r] # NoVote
    /\ IsSameDecree(m, maxAccepted[r].dec, maxBallot[r])
    /\ IsSameDecree(outstanding[r], maxAccepted[r].dec, maxBallot[r])

QuorumAccepted(r, m) ==
    Cardinality(responses[r] \cup {m.src}) >= QuorumSize - 1

HandleVoteAcceptedWait(r, m) ==
    /\ ReceiveVoteAccepted(r, m)
    /\ ~QuorumAccepted(r, m)
    /\ responses' = [responses EXCEPT ![r] = @ \cup {m.src}]
    /\ UNCHANGED <<state, maxBallot, maxAccepted, outstanding, oldFreshest,
                   statusMap, relinquish, learn, log, lastPassed, passed,
                   msgs>>

HandleVoteAcceptedQuorum(r, m) ==
    /\ ReceiveVoteAccepted(r, m)
    /\ QuorumAccepted(r, m)
    /\ ~relinquish[r]
    /\ responses' = [responses EXCEPT ![r] = @ \cup {m.src}]
    /\ outstanding' = [outstanding EXCEPT ![r] = NoVote]
    /\ AddToExecutionQueue(r, maxAccepted[r])
    /\ UNCHANGED <<state, maxBallot, maxAccepted, oldFreshest, statusMap,
                   relinquish, learn, log, msgs>>

\* The outstanding vote of a member that gives up the primary is the one that
\* says so: the process shuts down, and starts again.
HandleVoteAcceptedShutDown(r, m) ==
    /\ ReceiveVoteAccepted(r, m)
    /\ QuorumAccepted(r, m)
    /\ relinquish[r]
    /\ RestoreState(r)
    /\ UNCHANGED <<log, msgs>>

-----------------------------------------------------------------------------
(* Crashes. *)

\* The process stops at any point and starts again from its log.
Restart(r) ==
    /\ HasVote(log[r]) \/ log[r] = <<>>
    /\ RestoreState(r)
    /\ UNCHANGED <<log, msgs>>

\* With prepares but no vote in the log, RestoreState takes the vote of the
\* checkpoint and opens a log named after its decree.  The first time that is
\* a new file; after that it is the same file, written over from its start.
\* Either way the prepares are in memory and may be gone from what the next
\* restart replays.
RestartBeforeFirstVote(r) ==
    /\ ~HasVote(log[r]) /\ log[r] # <<>>
    /\ RestoreState(r)
    /\ \/ log' = [log EXCEPT ![r] = <<>>]
       \/ UNCHANGED log
    /\ UNCHANGED msgs

-----------------------------------------------------------------------------

Init ==
    /\ state = [r \in Member |-> "Initializing"]
    /\ maxBallot = [r \in Member |-> ZeroBallot]
    /\ maxAccepted = [r \in Member |-> InitialVote]
    /\ outstanding = [r \in Member |-> NoVote]
    /\ oldFreshest = [r \in Member |-> NoVote]
    /\ responses = [r \in Member |-> {}]
    /\ statusMap = [r \in Member |-> NoStatus]
    /\ relinquish = [r \in Member |-> FALSE]
    /\ learn = [r \in Member |-> NotLearning]
    /\ log = [r \in Member |-> <<>>]
    /\ lastPassed = [r \in Member |-> 0]
    /\ passed = {}
    /\ msgs = {}

StatusStep(r, q) ==
    \/ StatusWait(r, q)
    \/ StatusLearn(r, q)
    \/ StatusSecondary(r, q)
    \/ StatusPrepare(r, q)
    \/ StatusPrepareCrash(r, q)
    \/ StatusAhead(r, q)

LearnStep(r) ==
    \/ LearnPrepare(r)
    \/ LearnSkip(r)
    \/ LearnMissing(r)
    \/ LearnAccept(r)
    \/ LearnEnd(r)

MessageStep(r) ==
    \/ \E m \in Sent("Prepare") :
           HandlePrepareLower(r, m) \/ HandlePrepareMsg(r, m)
    \/ \E m \in Sent("PrepareAccepted") : HandlePrepareAcceptedMsg(r, m)
    \/ \E m \in Sent("NotAccepted") : HandleNotAcceptedMsg(r, m)
    \/ \E m \in Sent("Vote") :
           \/ HandleVoteLower(r, m)
           \/ HandleVoteNext(r, m)
           \/ HandleVoteBehind(r, m)
    \/ \E m \in Sent("VoteAccepted") :
           \/ HandleVoteAcceptedWait(r, m)
           \/ HandleVoteAcceptedQuorum(r, m)
           \/ HandleVoteAcceptedShutDown(r, m)

Next ==
    \E r \in Member :
        \/ TimerStartInitializing(r)
        \/ \E q \in Member : StatusStep(r, q)
        \/ LearnStep(r)
        \/ MessageStep(r)
        \/ \E val \in AnyValue : SendNextVote(r, val)
        \/ SendRelinquishVote(r)
        \/ Restart(r)

\* No replica stops between its first logged prepare and its first logged
\* vote.
Spec == Init /\ [][Next]_vars

\* Replicas stop at any point.
NextAnyRestart == Next \/ \E r \in Member : RestartBeforeFirstVote(r)
SpecAnyRestart == Init /\ [][NextAnyRestart]_vars

-----------------------------------------------------------------------------

TypeOK ==
    /\ state \in [Member -> {"Initializing", "Preparing", "StablePrimary",
                             "StableSecondary"}]
    /\ maxBallot \in [Member -> Ballot]
    /\ maxAccepted \in [Member -> Vote]
    /\ outstanding \in [Member -> Vote \cup {NoVote}]
    /\ oldFreshest \in [Member -> Vote \cup {NoVote}]
    /\ responses \in [Member -> SUBSET Member]
    /\ statusMap \in [Member -> [Member -> Vote \cup {NoVote}]]
    /\ relinquish \in [Member -> BOOLEAN]
    /\ learn \in [Member -> Learning \cup {NotLearning}]
    /\ log \in [Member -> Seq(Record)]
    /\ lastPassed \in [Member -> Nat]
    /\ passed \subseteq [dec : Decree, val : AnyValue]
    /\ msgs \subseteq Message

\* Two replicas never hand different values to their state machines for the
\* same decree, in this or in an earlier life (AddToExecutionQueue).
Agreement ==
    \A p, q \in passed : p.dec = q.dec => p.val = q.val

\* A replica never forgets a ballot it answered a prepare for: m_maxBallot is
\* at least the ballot of every PrepareAccepted it sent.
PromiseKept ==
    \A m \in Sent("PrepareAccepted") : BallotLeq(m.bal, maxBallot[m.src])

\* A restart at any point brings back the promise in memory and the ballot and
\* decree of the accepted vote.  LogVote writes nothing for a vote that has
\* the decree and ballot of the accepted one, RestoreState skips records of
\* executed decrees, and SetMaxBallot runs after the write.
RestoreSound ==
    \A r \in Member :
        LET vote == LoggedVote(log[r], Len(log[r]))
        IN  /\ vote.bal = maxAccepted[r].bal
            /\ vote.dec = maxAccepted[r].dec
            /\ RestoredBallot(log[r]) = maxBallot[r]

\* RestoreState asserts that every vote of the log is IsNextDecree of the vote
\* before it, and never drops a prepare: "Do not log a Prepare at a lower
\* decree than a previously logged vote".
LogSequential ==
    \A r \in Member : \A i \in 1..Len(log[r]) :
        LET before == LoggedVote(log[r], i - 1)
        IN  /\ log[r][i].kind = "Vote"
               => IsNextDecree(log[r][i], before.dec, before.bal)
            /\ log[r][i].kind = "Prepare" => log[r][i].dec >= before.dec

\* LearnVotes reads the log of another replica while that replica writes it,
\* and while this one logs what it reads.  It knows the last vote before its
\* position, it starts at a vote, and what it has read is never behind the
\* decree or ahead of the ballot it has accepted: no record it copies is at a
\* lower decree than its own last vote, and a missing vote is really missing.
LearnAligned ==
    \A r \in Member : learn[r] # NotLearning =>
        LET stream == log[learn[r].src]
            pos == learn[r].pos
            last == learn[r].last
        IN  /\ pos <= Len(stream) + 1
            /\ last = NoVote => pos <= Len(stream) /\ stream[pos].kind = "Vote"
            /\ last # NoVote => /\ last = LoggedVote(stream, pos - 1)
                                /\ last.dec >= maxAccepted[r].dec
                                /\ BallotLeq(last.bal, maxAccepted[r].bal)

\* The accepted vote is never above the promise (asserted by SendNextVote
\* before it proposes the accepted decree again).
PromiseCoversVote ==
    \A r \in Member : BallotLeq(maxAccepted[r].bal, maxBallot[r])

\* A ballot proposes one value for a decree: the owner never sends two
\* different votes for it, not even when it stops after LogVote and comes back.
OneVotePerBallot ==
    \A m, n \in Sent("Vote") :
        m.bal = n.bal /\ m.dec = n.dec => m.val = n.val

\* Decrees pass in order, without a gap: Enqueue tests for the decree that
\* passed last, and nothing in it demands the one after.
PassInOrder ==
    \A r \in Member :
        lastPassed[r] \in {maxAccepted[r].dec - 1, maxAccepted[r].dec}

\* What passes has been accepted by a quorum under one ballot, the owner of
\* the ballot included.
Voted(q, bal, dec) ==
    \/ \E m \in Sent("VoteAccepted") :
           m.src = q /\ m.bal = bal /\ m.dec = dec
    \/ \E m \in Sent("Vote") : m.bal.mem = q /\ m.bal = bal /\ m.dec = dec

Chosen(bal, dec) ==
    2 * Cardinality({q \in Member : Voted(q, bal, dec)}) > Cardinality(Member)

PassedChosen ==
    \A p \in passed : \E m \in Sent("Vote") :
        m.dec = p.dec /\ m.val = p.val /\ Chosen(m.bal, m.dec)

\* The assertions of HandlePrepareAcceptedMsg, HandleVoteAcceptedMsg and
\* SendNextVote.  A prepare whose sender stopped before logging it is answered
\* like any other, and the same ballot may be prepared again.
HandlerAsserts ==
    \A r \in Member :
        /\ \A m \in Sent("PrepareAccepted") :
               /\ state[r] = "Preparing" /\ learn[r] = NotLearning
               /\ m.bal.mem = r
               /\ IsSameDecree(m, maxAccepted[r].dec, maxBallot[r])
               => oldFreshest[r].dec = maxAccepted[r].dec
        /\ AmPrimary(r) /\ outstanding[r] # NoVote
               => maxBallot[r] = maxAccepted[r].bal
        /\ AmPrimary(r) => maxBallot[r].mem = r
        /\ BallotLeq(maxAccepted[r].bal, maxBallot[r])

\* ReSendCurrentVote asserts that a primary whose timer runs out has a vote
\* outstanding.  The timer StartPreparing set is still running in a primary
\* that has sent no vote.
ResendAssert ==
    \A r \in Member :
        AmPrimary(r) /\ outstanding[r] = NoVote
            => maxBallot[r] = maxAccepted[r].bal

-----------------------------------------------------------------------------
(* The promise to the state machines. *)

Promised == INSTANCE ReplicatedLog WITH Replica <- Member, Request <- AnyValue,
                                        decided <- passed, applied <- lastPassed

\* Every replica hands one and the same sequence of requests to its state
\* machine, one decree at a time, and resumes after a restart at a decree it
\* had reached (ExecuteQueue::Enqueue, RestoreState).
ImplementsReplicatedLog == Promised!Spec
=============================================================================
