----------------------------- MODULE VoteCache -----------------------------
(***************************************************************************)
(* Votes on their way into a replica: the receive callback that puts them  *)
(* in m_voteCache (Legislator::ProcessReceive, class VoteQueue), the main  *)
(* loop that takes the whole cache as its local queue and answers it       *)
(* (MainLoop, HandleNewVotes), and LearnVotes, which stops learning as     *)
(* soon as the stream meets the cache.  The callback runs on a thread of   *)
(* the network library; m_recvQLock makes each of its steps atomic, and    *)
(* the main thread only where it takes the lock.                           *)
(*                                                                         *)
(* The other members are the environment: they send the votes of CVotes,   *)
(* each any number of times, and their logs are the streams LearnVotes     *)
(* reads.  What the accepted votes mean is module Legislator's business.   *)
(***************************************************************************)
EXTENDS Ballots, Sequences, SequencesExt, FiniteSets

CONSTANTS
    CVotes,          \* votes [dec, bal, from, rel, conf] that may be received
    CBallots,        \* ballots of the votes other members have logged
    CMaxDecree,
    VoteLen,         \* marshalled length of a vote
    MaxCacheLength   \* RSLConfig::MaxCacheLength

VARIABLES
    vcache,      \* m_voteCache
    vlocal,      \* localQueue of the main loop
    vpc,         \* what the main thread is doing
    vstate,      \* m_state
    vmax,        \* m_maxAcceptedVote
    vballot,     \* m_maxBallot
    vgiving,     \* m_relinquishPrimary
    vneed,       \* minNeeded of LearnVotes
    vowed,       \* senders whose vote was accepted and not yet answered
    vlearned     \* decrees of the head of the cache and of the last vote
                 \* learnt, when LearnVotes last returned true

vcvars == <<vcache, vlocal, vpc, vstate, vmax, vballot, vgiving, vneed, vowed,
            vlearned>>

Myself == 1

Nobody == [dec |-> 0, bal |-> ZeroBallot, from |-> 0, rel |-> FALSE,
           conf |-> 0]

SizeInBytes(queue) == VoteLen * Len(queue)

CacheHead == IF vcache = <<>> THEN Nobody ELSE Head(vcache)

Later(b, c) == IF BallotLess(b, c) THEN c ELSE b

-----------------------------------------------------------------------------
(* The receive callback. *)

\* VerifyMessage accepts votes of this configuration only.
VerifyMessage(v) == v.conf = 1

\* A vote that does not follow the last one of the cache is discarded.
Discarded(v) ==
    /\ vcache # <<>>
    /\ \/ IsLowerDecree(v, Last(vcache).dec, Last(vcache).bal)
       \/ IsSameDecree(v, Last(vcache).dec, Last(vcache).bal)

\* A cache above its limit is cleared before the vote goes in.
Cached(v) ==
    Append(IF SizeInBytes(vcache) > MaxCacheLength THEN <<>> ELSE vcache, v)

ReceiveVote(v) ==
    /\ vpc # "dead"
    /\ ~Discarded(v)
    /\ vcache' = Cached(v)
    /\ UNCHANGED <<vlocal, vpc, vstate, vmax, vballot, vgiving, vneed, vowed,
                   vlearned>>

-----------------------------------------------------------------------------
(* MainLoop and HandleNewVotes. *)

\* localQueue.Append(m_voteCache).  A replica that is giving up the primary
\* leaves HandleNewVotes at once, and the destructor of the queue, which is
\* not empty, stops the process.
TakeVotes ==
    /\ vpc = "idle"
    /\ vstate # "Initializing"
    /\ vcache # <<>>
    /\ vcache' = <<>>
    /\ vlocal' = vcache
    /\ vpc' = IF vgiving THEN "dead" ELSE "handling"
    /\ vowed' = {}
    /\ UNCHANGED <<vstate, vmax, vballot, vgiving, vneed, vlearned>>

\* One vote of the local queue.
HandleNext(v) ==
    /\ vpc = "handling"
    /\ vlocal # <<>>
    /\ v = Head(vlocal)
    /\ UNCHANGED <<vcache, vgiving, vneed, vlearned>>

\* Ignored, or below the accepted vote: rejected or dropped.
SkipVote(v) ==
    /\ HandleNext(v)
    /\ \/ ~VerifyMessage(v)
       \/ IsLowerDecree(v, vmax.dec, vmax.bal)
    /\ vlocal' = Tail(vlocal)
    /\ UNCHANGED <<vpc, vstate, vmax, vballot, vowed>>

\* A defect: only the last vote of the queue is answered.
AnswerNowLast(v) == Tail(vlocal) = <<>>

\* The answer waits while the next vote comes from the same sender.
AnswerNow(v) ==
    Tail(vlocal) # <<>> => Head(Tail(vlocal)).from # v.from

\* The vote is logged and accepted; the sender hears of it (VoteAccepted, or
\* NotAccepted below m_maxBallot), unless the state machine prefers not to
\* vote (AcceptMessageFromReplica).  A primary that accepts a vote has been
\* overtaken and is a secondary from here on.  After the answer to a vote that
\* gives up the primary the rest of the queue is dropped.
AcceptVote(v, willing) ==
    /\ HandleNext(v)
    /\ VerifyMessage(v)
    /\ ~IsLowerDecree(v, vmax.dec, vmax.bal)
    /\ IsNextDecree(v, vmax.dec, vmax.bal)
    /\ vmax' = [dec |-> v.dec, bal |-> v.bal]
    /\ vballot' = Later(vballot, v.bal)
    /\ vstate' = "Secondary"
    /\ LET answers == AnswerNow(v) /\ (willing \/ BallotLess(v.bal, vballot))
       IN  IF answers /\ v.rel
           THEN /\ vlocal' = <<>>
                /\ vowed' = {}
                /\ vpc' = "idle"
           ELSE /\ vlocal' = Tail(vlocal)
                /\ vowed' = IF AnswerNow(v) THEN vowed \ {v.from}
                                            ELSE vowed \union {v.from}
                /\ UNCHANGED vpc

\* A vote from further ahead: the queue is cleared and learning starts.
MissedVotes(v) ==
    /\ HandleNext(v)
    /\ VerifyMessage(v)
    /\ ~IsLowerDecree(v, vmax.dec, vmax.bal)
    /\ ~IsNextDecree(v, vmax.dec, vmax.bal)
    /\ vlocal' = <<>>
    /\ vowed' = {}
    /\ vstate' = "Initializing"
    /\ vpc' = "idle"
    /\ UNCHANGED <<vmax, vballot>>

\* The local queue is empty.
VotesDone ==
    /\ vpc = "handling"
    /\ vlocal = <<>>
    /\ vpc' = "idle"
    /\ UNCHANGED <<vcache, vlocal, vstate, vmax, vballot, vgiving, vneed,
                   vowed, vlearned>>

\* Timer: nothing heard for the election delay and nothing in the cache.
ElectionTimeout ==
    /\ vpc = "idle"
    /\ vstate = "Secondary"
    /\ vcache = <<>>
    /\ vstate' = "Initializing"
    /\ UNCHANGED <<vcache, vlocal, vpc, vmax, vballot, vgiving, vneed, vowed,
                   vlearned>>

-----------------------------------------------------------------------------
(* LearnVotes. *)

StartLearn ==
    /\ vpc = "idle"
    /\ vstate = "Initializing"
    /\ vpc' = "learning"
    /\ vneed' = CacheHead
    /\ UNCHANGED <<vcache, vlocal, vstate, vmax, vballot, vgiving, vowed,
                   vlearned>>

\* The head of the cache is read again under the lock.
MeetsCache(dec) ==
    /\ vneed # Nobody => vneed.dec <= dec
    /\ CacheHead # Nobody
    /\ CacheHead.dec <= dec

\* The next vote of the stream is accepted; minNeeded is refreshed once the
\* stream has reached it.
LearnVote(dec, bal) ==
    /\ vpc = "learning"
    /\ dec \in {vmax.dec, vmax.dec + 1}
    /\ dec <= CMaxDecree
    /\ BallotLeq(vmax.bal, bal)
    /\ vmax' = [dec |-> dec, bal |-> bal]
    /\ vballot' = Later(vballot, bal)
    /\ IF MeetsCache(dec)
       THEN /\ vpc' = "idle"
            /\ vstate' = "Secondary"
            /\ vneed' = Nobody
            /\ vlearned' = <<CacheHead.dec, dec>>
       ELSE /\ vneed' = IF vneed = Nobody \/ vneed.dec <= dec THEN CacheHead
                                                             ELSE vneed
            /\ UNCHANGED <<vpc, vstate, vlearned>>
    /\ UNCHANGED <<vcache, vlocal, vgiving, vowed>>

\* The stream ends, or cannot be used: back to Initializing.
LearnEnds ==
    /\ vpc = "learning"
    /\ vpc' = "idle"
    /\ vneed' = Nobody
    /\ UNCHANGED <<vcache, vlocal, vstate, vmax, vballot, vgiving, vowed,
                   vlearned>>

-----------------------------------------------------------------------------
(* The rest of the replica, as far as the votes can see it. *)

\* A quorum is up to date: a secondary again, or (after an election) the
\* primary, which proposes the accepted value under its own ballot.
BecomeSecondary ==
    /\ vpc = "idle"
    /\ vstate = "Initializing"
    /\ vstate' = "Secondary"
    /\ UNCHANGED <<vcache, vlocal, vpc, vmax, vballot, vgiving, vneed, vowed,
                   vlearned>>

BecomePrimary(bal) ==
    /\ vpc = "idle"
    /\ vstate = "Initializing"
    /\ bal.mem = Myself
    /\ BallotLess(vballot, bal)
    /\ vstate' = "Primary"
    /\ vballot' = bal
    /\ vmax' = [dec |-> vmax.dec, bal |-> bal]
    /\ UNCHANGED <<vcache, vlocal, vpc, vgiving, vneed, vowed, vlearned>>

\* The vote of RelinquishPrimary is sent.
GiveUpPrimary ==
    /\ vpc = "idle"
    /\ vstate = "Primary"
    /\ ~vgiving
    /\ vmax.dec < CMaxDecree
    /\ vgiving' = TRUE
    /\ vmax' = [vmax EXCEPT !.dec = @ + 1]
    /\ UNCHANGED <<vcache, vlocal, vpc, vstate, vballot, vneed, vowed,
                   vlearned>>

\* A prepare with a higher ballot is accepted.
AcceptPrepare(bal) ==
    /\ vpc = "idle"
    /\ vstate # "Initializing"
    /\ ~vgiving
    /\ BallotLess(vballot, bal)
    /\ vballot' = bal
    /\ vstate' = "Secondary"
    /\ UNCHANGED <<vcache, vlocal, vpc, vmax, vgiving, vneed, vowed, vlearned>>

-----------------------------------------------------------------------------
InitVoteCache ==
    /\ vcache = <<>>
    /\ vlocal = <<>>
    /\ vpc = "idle"
    /\ vstate = "Initializing"
    /\ vmax = [dec |-> 1, bal |-> ZeroBallot]
    /\ vballot = ZeroBallot
    /\ vgiving = FALSE
    /\ vneed = Nobody
    /\ vowed = {}
    /\ vlearned = <<0, 0>>

NextVoteCache ==
    \/ \E v \in CVotes : ReceiveVote(v)
    \/ TakeVotes
    \/ \E v \in CVotes : SkipVote(v) \/ MissedVotes(v)
    \/ \E v \in CVotes, willing \in BOOLEAN : AcceptVote(v, willing)
    \/ VotesDone
    \/ ElectionTimeout
    \/ StartLearn
    \/ \E dec \in 1 .. CMaxDecree, bal \in CBallots : LearnVote(dec, bal)
    \/ LearnEnds
    \/ BecomeSecondary
    \/ \E bal \in CBallots : BecomePrimary(bal) \/ AcceptPrepare(bal)
    \/ GiveUpPrimary

SpecVoteCache == InitVoteCache /\ [][NextVoteCache]_vcvars

-----------------------------------------------------------------------------
(* The votes of the cache, and of the local queue made from it, never go   *)
(* back in decree or ballot, whatever the members send and however often,  *)
(* and the cache exceeds its limit by at most the vote that reached it     *)
(* (ProcessReceive).                                                       *)
CacheOrderedAndBounded ==
    /\ \A queue \in {vcache, vlocal} :
           \A i \in 1 .. Len(queue) - 1 :
               /\ queue[i].dec <= queue[i + 1].dec
               /\ BallotLeq(queue[i].bal, queue[i + 1].bal)
               /\ ~IsSameDecree(queue[i], queue[i + 1].dec, queue[i + 1].bal)
    /\ SizeInBytes(vcache) <= MaxCacheLength + VoteLen

(* LearnVotes returns true only when the votes learnt reach the vote that  *)
(* heads the cache at that moment, although the callback may have cleared  *)
(* and refilled the cache since learning began.                            *)
LearnedUpToCache ==
    vlearned[1] <= vlearned[2]

(* Answers are given once per run of votes from one sender; when the whole *)
(* local queue has been gone through, no sender of an accepted vote is     *)
(* left without an answer, unless its last vote was for a configuration    *)
(* this replica is not in (HandleNewVotes).                                *)
AcceptedAnswered ==
    vpc = "idle" => \A s \in vowed : \E v \in CVotes :
        v.from = s /\ ~VerifyMessage(v)
=============================================================================
