-------------------------- MODULE LegislatorProofs --------------------------
(***************************************************************************)
(* Every status query, restart, step of LearnVotes and message handler of  *)
(* Legislator keeps the types, has one of three effects on a log, and      *)
(* makes only promises that it keeps; so every step keeps the inductive    *)
(* invariant of the logs.                                                  *)
(***************************************************************************)
EXTENDS LogProofs

\* The provers get more than their default time.
USE SMTT(40), ZenonT(40)

-----------------------------------------------------------------------------
(* Types. *)

\* The messages the handlers build have their types.
LEMMA MessageTypes ==
    ASSUME NEW b \in Ballot, NEW d \in Decree
    PROVE  /\ PrepareMsg(b, d) \in Message
           /\ \A q \in Member :
                  /\ VoteAcceptedMsg(q, b, d) \in Message
                  /\ \A v \in Vote : PrepareAcceptedMsg(q, b, d, v) \in Message
                  /\ \A p \in Nat : NotAcceptedMsg(q, p, b, d) \in Message
           /\ \A v \in Vote : \A rp \in BOOLEAN : VoteMsg(v, rp) \in Message
    BY Zenon DEF Message, PrepareMsg, VoteAcceptedMsg, PrepareAcceptedMsg,
           NotAcceptedMsg, VoteMsg, Vote

\* LogVote keeps the types of what it writes.
LEMMA LogVoteType ==
    ASSUME TypeOK, NEW r \in Member, NEW vote \in Vote, LogVote(r, vote)
    PROVE  /\ maxAccepted' \in [Member -> Vote]
           /\ log' \in [Member -> Seq(Record)]
           /\ maxBallot' \in [Member -> Ballot]
<1>1. VoteRecord(vote) \in Record /\ vote.bal \in Ballot
  BY Zenon, ConstantTypes DEF Vote
<1>2. MaxOf(maxBallot[r], vote.bal) \in Ballot
  BY Zenon, <1>1, MaxOfIsMax DEF TypeOK
<1> DEFINE longer == Append(log[r], VoteRecord(vote))
<1>3. longer \in Seq(Record)
  BY <1>1 DEF TypeOK
<1>4. log' \in {log, [log EXCEPT ![r] = longer]}
  BY Zenon DEF LogVote
<1> HIDE DEF longer
<1>5. log' \in [Member -> Seq(Record)]
  BY Zenon, <1>3, <1>4 DEF TypeOK
<1> QED
  BY ZenonT(40), <1>2, <1>5 DEF LogVote, TypeOK

\* LogPrepare keeps the types of what it writes.
LEMMA LogPrepareType ==
    ASSUME TypeOK, NEW r \in Member, NEW bal \in Ballot, NEW dec \in Decree,
           LogPrepare(r, bal, dec)
    PROVE  /\ log' \in [Member -> Seq(Record)]
           /\ maxBallot' \in [Member -> Ballot]
<1>1. MaxOf(maxBallot[r], bal) \in Ballot
  BY Zenon, MaxOfIsMax DEF TypeOK
<1> DEFINE longer == Append(log[r], PrepareRecord(bal, dec))
<1>2. longer \in Seq(Record)
  BY ConstantTypes DEF TypeOK
<1>3. log' \in {log, [log EXCEPT ![r] = longer]}
  BY Zenon DEF LogPrepare
<1> HIDE DEF longer
<1>4. log' \in [Member -> Seq(Record)]
  BY Zenon, <1>2, <1>3 DEF TypeOK
<1>5. maxBallot' \in {maxBallot,
                       [maxBallot EXCEPT ![r] = MaxOf(maxBallot[r], bal)]}
  BY Zenon DEF LogPrepare
<1> QED
  BY ZenonT(40), <1>1, <1>4, <1>5 DEF TypeOK

\* AddToExecutionQueue keeps the types of what it writes.
LEMMA AddToExecutionQueueType ==
    ASSUME TypeOK, NEW r \in Member, NEW vote \in Vote,
           AddToExecutionQueue(r, vote)
    PROVE  /\ lastPassed' \in [Member -> Nat]
           /\ passed' \subseteq [dec : Decree, val : AnyValue]
    BY DEF AddToExecutionQueue, TypeOK, Vote, Decree

\* LogAndAcceptVote keeps the types of what it writes.
LEMMA LogAndAcceptVoteType ==
    ASSUME TypeOK, NEW r \in Member, NEW vote \in Vote,
           LogAndAcceptVote(r, vote)
    PROVE  /\ maxAccepted' \in [Member -> Vote]
           /\ log' \in [Member -> Seq(Record)]
           /\ maxBallot' \in [Member -> Ballot]
           /\ lastPassed' \in [Member -> Nat]
           /\ passed' \subseteq [dec : Decree, val : AnyValue]
<1>1. maxAccepted[r] \in Vote
  BY Zenon DEF TypeOK
<1>2. LogVote(r, vote)
  BY Zenon DEF LogAndAcceptVote
<1>3. AddToExecutionQueue(r, maxAccepted[r]) \/ UNCHANGED <<lastPassed, passed>>
  BY Zenon DEF LogAndAcceptVote
<1> QED
  BY Zenon, <1>1, <1>2, <1>3, LogVoteType, AddToExecutionQueueType DEF TypeOK

\* The ballot RestoreState ends with is determined: it is the one replayed
\* ballot that no other exceeds.
LEMMA RestoredBallotIsMax ==
    ASSUME NEW l \in Seq(Record), NEW bal \in Ballot,
           bal \in ReplayedBallots(l),
           \A c \in ReplayedBallots(l) : BallotLeq(c, bal)
    PROVE  RestoredBallot(l) = bal
<1>1. ReplayedBallots(l) \subseteq Ballot
  <2>1. \A i \in Replayed(l) : l[i] \in Record
    BY DEF Replayed
  <2> QED
    BY Zenon, <2>1, ZeroIsLeast DEF Record, ReplayedBallots
<1>2. \A b \in ReplayedBallots(l) : (\A c \in ReplayedBallots(l) : BallotLeq(c, b)) => b = bal
  BY Zenon, <1>1, BallotOrder
<1>3. (CHOOSE b \in ReplayedBallots(l) : \A c \in ReplayedBallots(l) : BallotLeq(c, b)) = bal
  BY Zenon, <1>2
<1> QED
  BY Zenon, <1>3 DEF RestoredBallot

-----------------------------------------------------------------------------
(* Parts of an effect. *)

\* LogPrepare at or above the accepted decree leaves the log alone or appends
\* that prepare.
LEMMA LogPrepareEffect ==
    ASSUME TypeOK, NEW r \in Member, NEW bal \in Ballot, NEW dec \in Decree,
           LogPrepare(r, bal, dec), dec >= maxAccepted[r].dec,
           UNCHANGED maxAccepted
    PROVE  LogEffect
    BY Zenon DEF LogPrepare, LogEffect, Quiet, LogsPrepare

\* LogVote of a vote that is IsNextDecree of the accepted one leaves the log
\* alone or appends that vote.
LEMMA LogVoteEffect ==
    ASSUME TypeOK, NEW r \in Member, NEW vote \in Vote, LogVote(r, vote),
           IsNextDecree(vote, maxAccepted[r].dec, maxAccepted[r].bal)
    PROVE  LogEffect
<1>1. CASE IsSameDecree(maxAccepted[r], vote.dec, vote.bal)
  BY Zenon, <1>1 DEF LogVote, LogEffect, Quiet, IsSameDecree, TypeOK
<1>2. CASE ~IsSameDecree(maxAccepted[r], vote.dec, vote.bal)
  BY Zenon, <1>2 DEF LogVote, LogEffect, LogsVote
<1> QED
  BY Zenon, <1>1, <1>2

\* The inductive form of durability, which says of which records the promise
\* is the maximum, gives what a restart computes.
LEMMA DurableImpliesRestoreSound ==
    ASSUME TypeOK, NEW r \in Member,
           Durable(log[r], maxAccepted[r], maxBallot[r])
    PROVE  RestoredBallot(log[r]) = maxBallot[r]
    BY Zenon, RestoredBallotIsMax DEF Durable, TypeOK

\* A restart that follows the log leaves promise and accepted vote as they
\* were, up to the value.
LEMMA RestoreEffect ==
    ASSUME TypeOK, DurabilityInv, NEW r \in Member, RestoreState(r),
           UNCHANGED log
    PROVE  LogEffect
<1>1. Durable(log[r], maxAccepted[r], maxBallot[r])
  BY Zenon DEF DurabilityInv
<1>2. maxBallot' = maxBallot
  BY Zenon, <1>1, DurableImpliesRestoreSound DEF RestoreState, RestoreFrom, TypeOK
<1>3. \A q \in Member : /\ maxAccepted'[q].bal = maxAccepted[q].bal
                        /\ maxAccepted'[q].dec = maxAccepted[q].dec
  BY Zenon, <1>1 DEF RestoreState, RestoreFrom, TypeOK, Durable
<1> QED
  BY Zenon, <1>2, <1>3 DEF LogEffect, Quiet

-----------------------------------------------------------------------------
(* Which effect each action has. *)

\* SendNextVote appends the vote it sends, at the accepted decree or the next.
LEMMA SendVoteEffect ==
    ASSUME TypeOK, DurabilityInv, NEW r \in Member, NEW val \in AnyValue,
           NEW rp \in BOOLEAN,
           SendVote(r, [bal |-> maxBallot[r], dec |-> NextVoteDecree(r),
                        val |-> val], rp)
    PROVE  /\ LogEffect
           /\ maxAccepted' \in [Member -> Vote]
           /\ log' \in [Member -> Seq(Record)]
           /\ maxBallot' \in [Member -> Ballot]
           /\ outstanding' \in [Member -> Vote \cup {NoVote}]
           /\ responses' \in [Member -> SUBSET Member]
           /\ msgs' \subseteq Message
           /\ \A m \in msgs' \ msgs : m.type = "Vote"
<1> DEFINE vote == [bal |-> maxBallot[r], dec |-> NextVoteDecree(r),
                    val |-> val]
<1>1. /\ maxBallot[r] \in Ballot
      /\ maxAccepted[r] \in Vote
      /\ maxAccepted[r].bal \in Ballot
      /\ maxAccepted[r].dec \in Nat \ {0}
  BY Zenon DEF TypeOK, Vote, Decree
<1>2. NextVoteDecree(r) \in Decree
  BY <1>1 DEF NextVoteDecree, Decree
<1>3. vote \in Vote
  BY Zenon, <1>1, <1>2 DEF Vote
<1>4. IsNextDecree(vote, maxAccepted[r].dec, maxAccepted[r].bal)
  <2>1. BallotLeq(maxAccepted[r].bal, maxBallot[r])
    BY Zenon DEF DurabilityInv, PromiseCoversVote
  <2> QED
    BY Zenon, <2>1 DEF IsNextDecree, NextVoteDecree
<1> HIDE DEF vote
<1>5. /\ LogVote(r, vote)
      /\ outstanding' = [outstanding EXCEPT ![r] = vote]
      /\ responses' = [responses EXCEPT ![r] = {}]
      /\ msgs' = msgs \cup {VoteMsg(vote, rp)}
  BY Zenon DEF SendVote, Send, vote
<1>6. VoteMsg(vote, rp) \in Message
  BY Zenon, <1>1, <1>2, <1>3, MessageTypes
<1>7. VoteMsg(vote, rp).type = "Vote"
  BY Zenon DEF VoteMsg
<1>8. LogEffect
  BY Zenon, <1>3, <1>4, <1>5, LogVoteEffect
<1> QED
  BY ZenonT(40), <1>3, <1>5, <1>6, <1>7, <1>8, LogVoteType DEF TypeOK

\* A new PrepareAccepted repeats a ballot its sender has promised.
NewPromises ==
    \A m \in msgs' \ msgs :
        m.type = "PrepareAccepted" => BallotLeq(m.bal, maxBallot'[m.src])

StepGoal == TypeOK' /\ LogEffect /\ NewPromises

\* A message that is not an answer to a prepare makes no new promise.
LEMMA NoNewPromise ==
    ASSUME NEW m, m.type # "PrepareAccepted", msgs' = msgs \cup {m}
    PROVE  NewPromises
BY Zenon DEF NewPromises

\* None of these messages is a PrepareAccepted.
LEMMA MessageKinds ==
    ASSUME NEW src, NEW dst, NEW bal, NEW dec
    PROVE  /\ PrepareMsg(bal, dec).type # "PrepareAccepted"
           /\ VoteAcceptedMsg(src, bal, dec).type # "PrepareAccepted"
           /\ NotAcceptedMsg(src, dst, bal, dec).type # "PrepareAccepted"
BY Zenon DEF PrepareMsg, VoteAcceptedMsg, NotAcceptedMsg

\* Timer: back to Initializing.
LEMMA TimerStep ==
    ASSUME TypeOK, DurabilityInv, NEW r \in Member, TimerStartInitializing(r)
    PROVE  StepGoal
<1>1. TypeOK'
  BY Zenon, ConstantTypes DEF TimerStartInitializing, StartInitializing, TypeOK
<1>2. LogEffect /\ NewPromises
  BY Zenon DEF TimerStartInitializing, LogEffect, Quiet, NewPromises
<1> QED
  BY Zenon, <1>1, <1>2 DEF StepGoal

\* HandleStatusResponseMsg before a quorum has answered.
LEMMA StatusWaitStep ==
    ASSUME TypeOK, DurabilityInv, NEW r \in Member, NEW q \in Member,
           StatusWait(r, q)
    PROVE  StepGoal
<1>1. [statusMap[r] EXCEPT ![q] = maxAccepted[q]] \in
          [Member -> Vote \cup {NoVote}]
  BY Zenon DEF TypeOK
<1>2. TypeOK'
  BY Zenon, <1>1 DEF StatusWait, TypeOK
<1>3. LogEffect /\ NewPromises
  BY Zenon DEF StatusWait, LogEffect, Quiet, NewPromises
<1> QED
  BY Zenon, <1>2, <1>3 DEF StepGoal

\* LearnVotes starts at a record of the source's log.
LEMMA StartLearningType ==
    ASSUME TypeOK, NEW r \in Member, NEW src \in Member, StartLearning(r, src)
    PROVE  learn' \in [Member -> Learning \cup {NotLearning}]
<1>1. PICK i \in VotesUpTo(log[src], Len(log[src])) :
          learn' = [learn EXCEPT ![r] =
                        [src |-> src, pos |-> i, last |-> NoVote]]
  BY Zenon DEF StartLearning
<1>2. i \in Nat \ {0}
  BY DEF VotesUpTo, TypeOK
<1> QED
  BY Zenon, <1>1, <1>2 DEF TypeOK, Learning

\* HandleStatusResponseMsg when a member is ahead.
LEMMA StatusLearnStep ==
    ASSUME TypeOK, DurabilityInv, NEW r \in Member, NEW q \in Member,
           StatusLearn(r, q)
    PROVE  StepGoal
<1>1. learn' \in [Member -> Learning \cup {NotLearning}]
  BY Zenon, StartLearningType DEF StatusLearn, HigherLogged
<1>2. TypeOK'
  BY Zenon, <1>1, ConstantTypes DEF StatusLearn, TypeOK
<1>3. LogEffect /\ NewPromises
  BY Zenon DEF StatusLearn, LogEffect, Quiet, NewPromises
<1> QED
  BY Zenon, <1>2, <1>3 DEF StepGoal

\* MoveToSecondaryOrPrepare: the secondary's side.
LEMMA StatusSecondaryStep ==
    ASSUME TypeOK, DurabilityInv, NEW r \in Member, NEW q \in Member,
           StatusSecondary(r, q)
    PROVE  StepGoal
<1>1. TypeOK'
  BY Zenon, ConstantTypes DEF StatusSecondary, StartBeingStableSecondary, TypeOK
<1>2. LogEffect /\ NewPromises
  BY Zenon DEF StatusSecondary, LogEffect, Quiet, NewPromises
<1> QED
  BY Zenon, <1>1, <1>2 DEF StepGoal

\* HandleStatusResponseMsg outside the Initializing state.
LEMMA StatusAheadStep ==
    ASSUME TypeOK, DurabilityInv, NEW r \in Member, NEW q \in Member,
           StatusAhead(r, q)
    PROVE  StepGoal
<1>1. learn' \in [Member -> Learning \cup {NotLearning}]
  BY Zenon, StartLearningType DEF StatusAhead
<1>2. TypeOK'
  BY Zenon, <1>1 DEF StatusAhead, TypeOK
<1>3. LogEffect /\ NewPromises
  BY Zenon DEF StatusAhead, LogEffect, Quiet, NewPromises
<1> QED
  BY Zenon, <1>2, <1>3 DEF StepGoal

\* MoveToSecondaryOrPrepare: the candidate's side, with StartPreparing.
LEMMA StatusPrepareStep ==
    ASSUME TypeOK, DurabilityInv, NEW r \in Member, NEW q \in Member,
           StatusPrepare(r, q)
    PROVE  StepGoal
<1>1. PICK seen \in SeenBallot :
          /\ state' = [state EXCEPT ![r] = "Preparing"]
          /\ responses' = [responses EXCEPT ![r] = {}]
          /\ oldFreshest' = [oldFreshest EXCEPT ![r] = maxAccepted[r]]
          /\ Send(PrepareMsg(NewBallot(r, seen), maxAccepted[r].dec))
          /\ LogPrepare(r, NewBallot(r, seen), maxAccepted[r].dec)
  BY Zenon DEF StatusPrepare, StartPreparing
<1> DEFINE b == NewBallot(r, seen)
<1>2. /\ b \in Ballot
      /\ maxAccepted[r] \in Vote
      /\ maxAccepted[r].dec \in Decree
      /\ maxAccepted[r].dec >= maxAccepted[r].dec
  BY NewBallotType DEF TypeOK, Vote, Decree
<1> HIDE DEF b
<1>3. /\ LogPrepare(r, b, maxAccepted[r].dec)
      /\ msgs' = msgs \cup {PrepareMsg(b, maxAccepted[r].dec)}
  BY Zenon, <1>1 DEF Send, b
<1>4. UNCHANGED maxAccepted
  BY Zenon DEF StatusPrepare
<1>5. LogEffect
  BY Zenon, <1>2, <1>3, <1>4, LogPrepareEffect
<1>6. NewPromises
  BY Zenon, <1>3, NoNewPromise, MessageKinds
<1>7. /\ log' \in [Member -> Seq(Record)]
      /\ maxBallot' \in [Member -> Ballot]
  BY Zenon, <1>2, <1>3, LogPrepareType
<1>8. msgs' \subseteq Message
  <2>1. PrepareMsg(b, maxAccepted[r].dec) \in Message
    BY Zenon, <1>2, MessageTypes
  <2>2. msgs \subseteq Message
    BY Zenon DEF TypeOK
  <2> QED
    BY Zenon, <1>3, <2>1, <2>2
<1>9. TypeOK'
  BY ZenonT(40), <1>1, <1>2, <1>7, <1>8, ConstantTypes DEF StatusPrepare, TypeOK
<1> QED
  BY Zenon, <1>5, <1>6, <1>9 DEF StepGoal

\* RestoreState gives every variable a value of its type.
LEMMA RestoreStateType ==
    ASSUME MaximaExist,
           TypeOK, DurabilityInv, NEW r \in Member, RestoreState(r),
           UNCHANGED log, msgs' \subseteq Message
    PROVE  TypeOK' /\ LogEffect
<1> DEFINE vote == LoggedVote(log[r], Len(log[r]))
<1>1. log[r] \in Seq(Record) /\ Len(log[r]) \in 0..Len(log[r])
  BY DEF TypeOK
<1>2. vote \in Vote
  BY Zenon, <1>1, LoggedVoteType
<1>3. LogEffect /\ maxBallot' = maxBallot
  BY Zenon, RestoreEffect, DurableImpliesRestoreSound
  DEF RestoreState, RestoreFrom, DurabilityInv, TypeOK
<1>4. ReplayedDecrees(log[r]) \subseteq [dec : Decree, val : AnyValue]
  <2>1. ASSUME NEW i \in VotesUpTo(log[r], Len(log[r]))
        PROVE  LoggedVote(log[r], i - 1) \in Vote
    <3>1. i - 1 \in 0..Len(log[r])
      BY <1>1 DEF VotesUpTo
    <3> QED
      BY Zenon, <1>1, <3>1, LoggedVoteType
  <2>2. ASSUME NEW i \in VotesUpTo(log[r], Len(log[r]))
        PROVE  [dec |-> LoggedVote(log[r], i - 1).dec,
                val |-> LoggedVote(log[r], i - 1).val] \in [dec : Decree, val : AnyValue]
    BY Zenon, <2>1 DEF Vote
  <2> QED
    BY <2>2, Zenon DEF ReplayedDecrees
<1> HIDE DEF vote
<1>5. /\ state' = [state EXCEPT ![r] = "Initializing"]
      /\ maxAccepted' = [maxAccepted EXCEPT ![r] = vote]
      /\ outstanding' = [outstanding EXCEPT ![r] = NoVote]
      /\ oldFreshest' = [oldFreshest EXCEPT ![r] = NoVote]
      /\ responses' = [responses EXCEPT ![r] = {}]
      /\ statusMap' = [statusMap EXCEPT ![r] = NoStatus]
      /\ relinquish' = [relinquish EXCEPT ![r] = FALSE]
      /\ learn' = [learn EXCEPT ![r] = NotLearning]
      /\ lastPassed' = [lastPassed EXCEPT ![r] = vote.dec - 1]
      /\ passed' = passed \cup ReplayedDecrees(log[r])
  BY Zenon DEF RestoreState, RestoreFrom, vote
<1>6. vote.dec - 1 \in Nat
  BY <1>2 DEF Vote, Decree
<1>7. lastPassed' \in [Member -> Nat]
  BY ZenonT(40), <1>5, <1>6 DEF TypeOK
<1>8. passed' \subseteq [dec : Decree, val : AnyValue]
  BY Zenon, <1>4, <1>5 DEF TypeOK
<1>9. TypeOK'
  BY ZenonT(40), <1>2, <1>3, <1>5, <1>7, <1>8, ConstantTypes DEF TypeOK
<1> QED
  BY Zenon, <1>3, <1>9

\* A crash and the restart after it.
LEMMA RestartStep ==
    ASSUME MaximaExist,
           TypeOK, DurabilityInv, NEW r \in Member, RestoreState(r),
           UNCHANGED <<log, msgs>>
    PROVE  StepGoal
<1>1. NewPromises /\ msgs' \subseteq Message
  BY Zenon DEF NewPromises, TypeOK
<1> QED
  BY Zenon, <1>1, RestoreStateType DEF StepGoal

\* A crash between sending and logging the prepare.
LEMMA StatusPrepareCrashStep ==
    ASSUME MaximaExist,
           TypeOK, DurabilityInv, NEW r \in Member, NEW q \in Member,
           StatusPrepareCrash(r, q)
    PROVE  StepGoal
<1>1. PICK seen \in SeenBallot :
          Send(PrepareMsg(NewBallot(r, seen), maxAccepted[r].dec))
  BY Zenon DEF StatusPrepareCrash
<1>2. NewBallot(r, seen) \in Ballot /\ maxAccepted[r].dec \in Decree
  BY Zenon, NewBallotType DEF TypeOK, Vote
<1>3. msgs' \subseteq Message
  <2>1. PrepareMsg(NewBallot(r, seen), maxAccepted[r].dec) \in Message
    BY Zenon, <1>2, MessageTypes
  <2>2. msgs \subseteq Message
    BY Zenon DEF TypeOK
  <2> QED
    BY Zenon, <1>1, <2>1, <2>2 DEF Send
<1>4. NewPromises
  <2>1. msgs' = msgs \cup {PrepareMsg(NewBallot(r, seen), maxAccepted[r].dec)}
    BY Zenon, <1>1 DEF Send
  <2> QED
    BY Zenon, <2>1, NoNewPromise, MessageKinds
<1> QED
  BY Zenon, <1>3, <1>4, RestoreStateType DEF StatusPrepareCrash, StepGoal

-----------------------------------------------------------------------------
(* LearnVotes. *)

\* LearnVotes moves to the next record.
LEMMA AdvanceType ==
    ASSUME TypeOK, NEW r \in Member, learn[r] \in Learning,
           NEW last \in Vote \cup {NoVote}, Advance(r, last)
    PROVE  /\ learn' = [learn EXCEPT ![r] = [src |-> learn[r].src,
                                             pos |-> learn[r].pos + 1,
                                             last |-> last]]
           /\ learn' \in [Member -> Learning \cup {NotLearning}]
<1>1. learn' = [learn EXCEPT ![r] = [src |-> learn[r].src,
                                     pos |-> learn[r].pos + 1,
                                     last |-> last]]
  BY Zenon DEF Advance, Learning, TypeOK
<1>2. [src |-> learn[r].src, pos |-> learn[r].pos + 1, last |-> last]
          \in Learning
  BY DEF Learning
<1> QED
  BY ZenonT(40), <1>1, <1>2 DEF TypeOK

\* LearnVotes at a prepare.
LEMMA LearnPrepareStep ==
    ASSUME TypeOK, DurabilityInv, NEW r \in Member, LearnPrepare(r)
    PROVE  StepGoal
<1>1. MoreToLearn(r) /\ NextRecord(r).kind = "Prepare"
  BY Zenon DEF LearnPrepare
<1>2. /\ learn[r] \in Learning
      /\ learn[r].src \in Member
      /\ log[learn[r].src] \in Seq(Record)
      /\ learn[r].pos \in 1..Len(log[learn[r].src])
      /\ NextRecord(r).bal \in Ballot
      /\ NextRecord(r).dec \in Decree
  BY ZenonT(40), <1>1, NextRecordType
<1>3. NextRecord(r).dec >= maxAccepted[r].dec
  <2>1. /\ learn[r].last # NoVote
        /\ learn[r].last = LoggedVote(log[learn[r].src], learn[r].pos - 1)
        /\ learn[r].last.dec >= maxAccepted[r].dec
    BY Zenon, <1>1 DEF DurabilityInv, LearnAligned, MoreToLearn, NextRecord
  <2>2. NextRecord(r).dec >= learn[r].last.dec
    BY Zenon, <1>1, <1>2, <2>1 DEF DurabilityInv, SequentialAt, NextRecord
  <2>3. learn[r].last \in Vote /\ maxAccepted[r] \in Vote
    BY ZenonT(40), <1>2, <2>1 DEF Learning, TypeOK
  <2> QED
    BY <1>2, <2>1, <2>2, <2>3 DEF Vote, Decree
<1>4. learn' \in [Member -> Learning \cup {NotLearning}]
  BY Zenon, <1>2, AdvanceType DEF LearnPrepare, Learning
<1>5. UNCHANGED maxAccepted
  BY Zenon DEF LearnPrepare
<1>6. \/ LogPrepare(r, NextRecord(r).bal, NextRecord(r).dec)
      \/ UNCHANGED <<log, maxBallot>>
  BY Zenon DEF LearnPrepare
<1>7. LogEffect
  <2>1. CASE LogPrepare(r, NextRecord(r).bal, NextRecord(r).dec)
    BY ZenonT(40), <1>2, <1>3, <1>5, <2>1, LogPrepareEffect
  <2>2. CASE UNCHANGED <<log, maxBallot>>
    BY Zenon, <1>5, <2>2 DEF LogEffect, Quiet
  <2> QED
    BY Zenon, <1>6, <2>1, <2>2
<1>8. /\ log' \in [Member -> Seq(Record)]
      /\ maxBallot' \in [Member -> Ballot]
  BY ZenonT(40), <1>2, <1>6, LogPrepareType DEF TypeOK
<1>9. TypeOK' /\ NewPromises
  BY ZenonT(40), <1>4, <1>8 DEF LearnPrepare, TypeOK, NewPromises
<1> QED
  BY Zenon, <1>7, <1>9 DEF StepGoal

\* LearnVotes at a vote below the accepted ballot.
LEMMA LearnSkipStep ==
    ASSUME TypeOK, DurabilityInv, NEW r \in Member, LearnSkip(r)
    PROVE  StepGoal
<1>1. learn[r] \in Learning /\ NextVote(r) \in Vote
  BY Zenon, NextRecordType DEF LearnSkip
<1>2. learn' \in [Member -> Learning \cup {NotLearning}]
  BY Zenon, <1>1, AdvanceType DEF LearnSkip
<1>3. TypeOK'
  BY Zenon, <1>2 DEF LearnSkip, TypeOK
<1>4. LogEffect /\ NewPromises
  BY Zenon DEF LearnSkip, LogEffect, Quiet, NewPromises
<1> QED
  BY Zenon, <1>3, <1>4 DEF StepGoal

\* LearnVotes at a vote of the next decree with a higher ballot.
LEMMA LearnMissingStep ==
    ASSUME TypeOK, DurabilityInv, NEW r \in Member, LearnMissing(r)
    PROVE  StepGoal
<1>1. /\ MissingVote(r) \in Vote
      /\ IsNextDecree(MissingVote(r), maxAccepted[r].dec, maxAccepted[r].bal)
  BY Zenon, MissingVoteIsNext
<1>2. LogAndAcceptVote(r, MissingVote(r))
  BY Zenon DEF LearnMissing
<1>3. LogEffect
  BY Zenon, <1>1, <1>2, LogVoteEffect DEF LogAndAcceptVote
<1>4. /\ maxAccepted' \in [Member -> Vote]
      /\ log' \in [Member -> Seq(Record)]
      /\ maxBallot' \in [Member -> Ballot]
      /\ lastPassed' \in [Member -> Nat]
      /\ passed' \subseteq [dec : Decree, val : AnyValue]
  BY Zenon, <1>1, <1>2, LogAndAcceptVoteType
<1>5. TypeOK' /\ NewPromises
  BY Zenon, <1>4 DEF LearnMissing, TypeOK, NewPromises
<1> QED
  BY Zenon, <1>3, <1>5 DEF StepGoal

\* LearnVotes at a vote it accepts.
LEMMA LearnAcceptStep ==
    ASSUME TypeOK, DurabilityInv, NEW r \in Member, LearnAccept(r)
    PROVE  StepGoal
<1>1. learn[r] \in Learning /\ NextVote(r) \in Vote
  BY Zenon, NextRecordType DEF LearnAccept
<1>2. /\ LogAndAcceptVote(r, NextVote(r))
      /\ IsNextDecree(NextVote(r), maxAccepted[r].dec, maxAccepted[r].bal)
  BY Zenon DEF LearnAccept
<1>3. LogEffect
  BY Zenon, <1>1, <1>2, LogVoteEffect DEF LogAndAcceptVote
<1>4. /\ maxAccepted' \in [Member -> Vote]
      /\ log' \in [Member -> Seq(Record)]
      /\ maxBallot' \in [Member -> Ballot]
      /\ lastPassed' \in [Member -> Nat]
      /\ passed' \subseteq [dec : Decree, val : AnyValue]
  BY Zenon, <1>1, <1>2, LogAndAcceptVoteType
<1>5. CASE Advance(r, NextVote(r)) /\ UNCHANGED <<state, responses>>
  <2>1. learn' \in [Member -> Learning \cup {NotLearning}]
    BY ZenonT(40), <1>1, <1>5, AdvanceType
  <2> QED
    BY ZenonT(40), <1>3, <1>4, <1>5, <2>1 DEF LearnAccept, TypeOK, NewPromises, StepGoal
<1>6. CASE /\ StartBeingStableSecondary(r)
           /\ learn' = [learn EXCEPT ![r] = NotLearning]
  BY ZenonT(40), <1>3, <1>4, <1>6
  DEF LearnAccept, TypeOK, NewPromises, StepGoal, StartBeingStableSecondary
<1> QED
  BY Zenon, <1>5, <1>6 DEF LearnAccept

\* The end of LearnVotes.
LEMMA LearnEndStep ==
    ASSUME TypeOK, DurabilityInv, NEW r \in Member, LearnEnd(r)
    PROVE  StepGoal
<1>1. TypeOK'
  BY Zenon, ConstantTypes DEF LearnEnd, StartInitializing, TypeOK
<1>2. LogEffect /\ NewPromises
  BY Zenon DEF LearnEnd, LogEffect, Quiet, NewPromises
<1> QED
  BY Zenon, <1>1, <1>2 DEF StepGoal

-----------------------------------------------------------------------------
(* Message handlers. *)

\* HandlePrepareMsg and HandleNewVotes when they answer NotAccepted and do
\* nothing else.
LEMMA RejectStep ==
    ASSUME TypeOK, DurabilityInv, NEW r \in Member, NEW m, m.bal \in Ballot,
           Reject(r, m),
           UNCHANGED <<volatile, maxBallot, maxAccepted, log, lastPassed,
                       passed>>
    PROVE  StepGoal
<1>1. /\ maxBallot[r] \in Ballot
      /\ maxAccepted[r].dec \in Decree
      /\ m.bal.mem \in Nat
  BY Zenon DEF TypeOK, Vote, Ballot
<1>2. msgs' \subseteq Message
  <2>1. NotAcceptedMsg(r, m.bal.mem, maxBallot[r], maxAccepted[r].dec) \in Message
    BY Zenon, <1>1, MessageTypes
  <2> QED
    BY Zenon, <2>1 DEF Reject, Send, TypeOK
<1>3. TypeOK' /\ LogEffect
  BY Zenon, <1>2 DEF TypeOK, volatile, LogEffect, Quiet
<1>4. NewPromises
  <2>1. msgs' = msgs \cup {NotAcceptedMsg(r, m.bal.mem, maxBallot[r],
                                          maxAccepted[r].dec)}
    BY Zenon DEF Reject, Send
  <2> QED
    BY Zenon, <2>1, NoNewPromise, MessageKinds
<1> QED
  BY Zenon, <1>3, <1>4 DEF StepGoal

\* HandlePrepareMsg when it logs the prepare and answers.
LEMMA HandlePrepareStep ==
    ASSUME TypeOK, DurabilityInv, NEW r \in Member, NEW m \in Sent("Prepare"),
           HandlePrepareMsg(r, m)
    PROVE  StepGoal
<1>1. m.bal \in Ballot /\ m.dec \in Decree
  BY Zenon, SentTypes DEF TypeOK
<1>2. /\ maxAccepted[r] \in Vote
      /\ maxAccepted[r].dec \in Decree
      /\ maxBallot[r] \in Ballot
  BY Zenon DEF TypeOK, Vote
<1>3. /\ LogPrepare(r, m.bal, m.dec)
      /\ UNCHANGED maxAccepted
      /\ msgs' = msgs \cup
                     {PrepareAcceptedMsg(r, m.bal, m.dec, maxAccepted[r])}
      /\ m.dec >= maxAccepted[r].dec
  BY <1>1, <1>2 DEF HandlePrepareMsg, Send, IsLowerDecree, Decree
<1>4. LogEffect
  BY Zenon, <1>1, <1>3, LogPrepareEffect
<1>5. /\ log' \in [Member -> Seq(Record)]
      /\ maxBallot' \in [Member -> Ballot]
  BY Zenon, <1>1, <1>3, LogPrepareType
<1>6. msgs' \subseteq Message
  <2>1. PrepareAcceptedMsg(r, m.bal, m.dec, maxAccepted[r]) \in Message
    BY Zenon, <1>1, <1>2, MessageTypes
  <2>2. msgs \subseteq Message
    BY Zenon DEF TypeOK
  <2> QED
    BY Zenon, <1>3, <2>1, <2>2
<1>7. NewPromises
  <2>1. BallotLeq(m.bal, maxBallot'[r])
    BY <1>1, <1>2, <1>3, MaxOfIsMax, BallotOrder DEF LogPrepare, TypeOK
  <2>2. PrepareAcceptedMsg(r, m.bal, m.dec, maxAccepted[r]).src = r
        /\ PrepareAcceptedMsg(r, m.bal, m.dec, maxAccepted[r]).bal = m.bal
    BY Zenon DEF PrepareAcceptedMsg
  <2> QED
    BY ZenonT(40), <1>3, <2>1, <2>2 DEF NewPromises
<1>8. /\ state' \in [Member -> {"Initializing", "Preparing", "StablePrimary",
                                "StableSecondary"}]
      /\ responses' \in [Member -> SUBSET Member]
      /\ statusMap' \in [Member -> [Member -> Vote \cup {NoVote}]]
  <2>1. CASE StartInitializing(r)
    BY ZenonT(40), <2>1, ConstantTypes DEF StartInitializing, TypeOK
  <2>2. CASE StartBeingStableSecondary(r) /\ UNCHANGED statusMap
    BY ZenonT(40), <2>2 DEF StartBeingStableSecondary, TypeOK
  <2> QED
    BY ZenonT(40), <2>1, <2>2 DEF HandlePrepareMsg
<1>9. TypeOK'
  BY ZenonT(40), <1>5, <1>6, <1>8 DEF HandlePrepareMsg, TypeOK
<1> QED
  BY Zenon, <1>4, <1>7, <1>9 DEF StepGoal

\* HandlePrepareAcceptedMsg, with StartBeingStablePrimary.
LEMMA HandlePrepareAcceptedStep ==
    ASSUME TypeOK, DurabilityInv, NEW r \in Member,
           NEW m \in Sent("PrepareAccepted"), HandlePrepareAcceptedMsg(r, m)
    PROVE  StepGoal
<1>1. m.src \in Member /\ m.vote \in Vote
  BY Zenon, SentTypes DEF TypeOK
<1>2. oldFreshest[r] \in Vote \cup {NoVote} /\ NoVote.val \in AnyValue
  BY Zenon DEF TypeOK, NoVote, AnyValue
<1>3. Fresher(r, m.vote) \in Vote \cup {NoVote}
  BY Zenon, <1>1, <1>2 DEF Fresher
<1>4. Fresher(r, m.vote).val \in AnyValue
  BY Zenon, <1>2, <1>3 DEF Vote
<1>5. CASE StartBeingStablePrimary(r, Fresher(r, m.vote)) /\ relinquish[r]
  BY Zenon, <1>5 DEF HandlePrepareAcceptedMsg, StartBeingStablePrimary, TypeOK,
              StepGoal, LogEffect, Quiet, NewPromises
<1>6. CASE StartBeingStablePrimary(r, Fresher(r, m.vote)) /\ ~relinquish[r]
  <2>1. SendVote(r, [bal |-> maxBallot[r], dec |-> NextVoteDecree(r),
                     val |-> Fresher(r, m.vote).val], FALSE)
    BY Zenon, <1>6 DEF StartBeingStablePrimary
  <2>2. /\ LogEffect
        /\ maxAccepted' \in [Member -> Vote]
        /\ log' \in [Member -> Seq(Record)]
        /\ maxBallot' \in [Member -> Ballot]
        /\ outstanding' \in [Member -> Vote \cup {NoVote}]
        /\ responses' \in [Member -> SUBSET Member]
        /\ msgs' \subseteq Message
        /\ \A n \in msgs' \ msgs : n.type = "Vote"
    BY ZenonT(40), <1>4, <2>1, SendVoteEffect
  <2>3. TypeOK'
    BY ZenonT(40), <1>6, <2>2
    DEF HandlePrepareAcceptedMsg, StartBeingStablePrimary, TypeOK
  <2>4. NewPromises
    BY ZenonT(40), <2>2 DEF NewPromises
  <2> QED
    BY Zenon, <2>2, <2>3, <2>4 DEF StepGoal
<1>7. CASE /\ responses' = [responses EXCEPT ![r] = responses[r] \cup {m.src}]
           /\ oldFreshest' = [oldFreshest EXCEPT ![r] = Fresher(r, m.vote)]
           /\ UNCHANGED <<state, outstanding, maxBallot, maxAccepted, log,
                          msgs>>
  BY <1>1, <1>3, <1>7
  DEF HandlePrepareAcceptedMsg, TypeOK, StepGoal, LogEffect, Quiet, NewPromises
<1> QED
  BY ZenonT(40), <1>5, <1>6, <1>7 DEF HandlePrepareAcceptedMsg

\* HandleNotAcceptedMsg.
LEMMA HandleNotAcceptedStep ==
    ASSUME TypeOK, DurabilityInv, NEW r \in Member,
           NEW m \in Sent("NotAccepted"), HandleNotAcceptedMsg(r, m)
    PROVE  StepGoal
<1>1. m.bal \in Ballot /\ m.dec \in Decree
  BY Zenon, SentTypes DEF TypeOK
<1>2. UNCHANGED maxAccepted /\ NewPromises
  BY Zenon DEF HandleNotAcceptedMsg, NewPromises
<1>3. CASE StartInitializing(r) /\ UNCHANGED <<maxBallot, log>>
  BY ZenonT(40), <1>2, <1>3, ConstantTypes
  DEF StartInitializing, HandleNotAcceptedMsg, TypeOK, StepGoal, LogEffect,
      Quiet
<1>4. CASE /\ m.dec = maxAccepted[r].dec
           /\ LogPrepare(r, m.bal, m.dec)
           /\ StartBeingStableSecondary(r)
           /\ UNCHANGED statusMap
  <2>1. m.dec >= maxAccepted[r].dec
    BY <1>1, <1>4 DEF Decree
  <2>2. LogEffect
    BY ZenonT(40), <1>1, <1>2, <1>4, <2>1, LogPrepareEffect
  <2>3. /\ log' \in [Member -> Seq(Record)]
        /\ maxBallot' \in [Member -> Ballot]
    BY ZenonT(40), <1>1, <1>4, LogPrepareType
  <2>4. TypeOK'
    BY ZenonT(40), <1>4, <2>3 DEF StartBeingStableSecondary,
       HandleNotAcceptedMsg, TypeOK
  <2> QED
    BY ZenonT(40), <1>2, <2>2, <2>4 DEF StepGoal
<1> QED
  BY Zenon, <1>3, <1>4 DEF HandleNotAcceptedMsg

\* The main loop sends a vote, with or without giving up the primary.
LEMMA SendNextVoteStep ==
    ASSUME TypeOK, DurabilityInv, NEW r \in Member, NEW val \in AnyValue,
           NEW rp \in BOOLEAN,
           SendVote(r, [bal |-> maxBallot[r], dec |-> NextVoteDecree(r),
                        val |-> val], rp),
           relinquish' \in [Member -> BOOLEAN],
           UNCHANGED <<state, oldFreshest, statusMap, learn, lastPassed,
                       passed>>
    PROVE  StepGoal
<1>1. /\ LogEffect
      /\ maxAccepted' \in [Member -> Vote]
      /\ log' \in [Member -> Seq(Record)]
      /\ maxBallot' \in [Member -> Ballot]
      /\ outstanding' \in [Member -> Vote \cup {NoVote}]
      /\ responses' \in [Member -> SUBSET Member]
      /\ msgs' \subseteq Message
      /\ \A m \in msgs' \ msgs : m.type = "Vote"
  BY Zenon, SendVoteEffect
<1>2. NewPromises
  BY Zenon, <1>1 DEF NewPromises
<1>3. TypeOK'
  BY Zenon, <1>1 DEF TypeOK
<1> QED
  BY Zenon, <1>1, <1>2, <1>3 DEF StepGoal

\* HandleNewVotes at a vote it logs.
LEMMA HandleVoteNextStep ==
    ASSUME TypeOK, DurabilityInv, NEW r \in Member, NEW m \in Sent("Vote"),
           HandleVoteNext(r, m)
    PROVE  StepGoal
<1> DEFINE vote == [bal |-> m.bal, dec |-> m.dec, val |-> m.val]
<1>1. m.bal \in Ballot /\ m.dec \in Decree /\ m.val \in AnyValue
  BY Zenon, SentTypes DEF TypeOK
<1>2. vote \in Vote
  BY Zenon, <1>1 DEF Vote
<1>3. IsNextDecree(vote, maxAccepted[r].dec, maxAccepted[r].bal)
  BY Zenon DEF HandleVoteNext, IsNextDecree
<1> HIDE DEF vote
<1>4. LogAndAcceptVote(r, vote)
  BY Zenon DEF HandleVoteNext, vote
<1>5. LogEffect
  BY ZenonT(40), <1>2, <1>3, <1>4, LogVoteEffect DEF LogAndAcceptVote
<1>6. /\ maxAccepted' \in [Member -> Vote]
      /\ log' \in [Member -> Seq(Record)]
      /\ maxBallot' \in [Member -> Ballot]
      /\ lastPassed' \in [Member -> Nat]
      /\ passed' \subseteq [dec : Decree, val : AnyValue]
  BY ZenonT(40), <1>2, <1>4, LogAndAcceptVoteType
<1>7. /\ maxBallot[r] \in Ballot
      /\ m.bal.mem \in Nat
  BY Zenon, <1>1 DEF TypeOK, Ballot
<1>8. \/ msgs' = msgs \cup {NotAcceptedMsg(r, m.bal.mem, maxBallot[r], m.dec)}
      \/ msgs' = msgs \cup {VoteAcceptedMsg(r, m.bal, m.dec)}
  BY Zenon DEF HandleVoteNext, Send
<1>9. msgs' \subseteq Message
  <2>1. /\ NotAcceptedMsg(r, m.bal.mem, maxBallot[r], m.dec) \in Message
        /\ VoteAcceptedMsg(r, m.bal, m.dec) \in Message
    BY ZenonT(40), <1>1, <1>7, MessageTypes
  <2>2. msgs \subseteq Message
    BY Zenon DEF TypeOK
  <2> QED
    BY Zenon, <1>8, <2>1, <2>2
<1>10. NewPromises
  <2>1. CASE msgs' = msgs \cup {NotAcceptedMsg(r, m.bal.mem, maxBallot[r], m.dec)}
    BY Zenon, <2>1, NoNewPromise, MessageKinds
  <2>2. CASE msgs' = msgs \cup {VoteAcceptedMsg(r, m.bal, m.dec)}
    BY Zenon, <2>2, NoNewPromise, MessageKinds
  <2> QED
    BY Zenon, <1>8, <2>1, <2>2
<1>11. /\ state' \in [Member -> {"Initializing", "Preparing", "StablePrimary",
                                 "StableSecondary"}]
       /\ responses' \in [Member -> SUBSET Member]
  <2>1. StartBeingStableSecondary(r) \/ UNCHANGED <<state, responses>>
    BY Zenon DEF HandleVoteNext
  <2>2. /\ state \in [Member -> {"Initializing", "Preparing", "StablePrimary",
                                 "StableSecondary"}]
        /\ responses \in [Member -> SUBSET Member]
    BY Zenon DEF TypeOK
  <2> QED
    BY Zenon, <2>1, <2>2 DEF StartBeingStableSecondary
<1>12. TypeOK'
  BY ZenonT(40), <1>6, <1>9, <1>11 DEF HandleVoteNext, TypeOK
<1> QED
  BY ZenonT(40), <1>5, <1>10, <1>12 DEF StepGoal

\* HandleNewVotes at a vote from further ahead.
LEMMA HandleVoteBehindStep ==
    ASSUME TypeOK, DurabilityInv, NEW r \in Member, NEW m \in Sent("Vote"),
           HandleVoteBehind(r, m)
    PROVE  StepGoal
<1>1. TypeOK'
  BY Zenon, ConstantTypes DEF HandleVoteBehind, StartInitializing, TypeOK
<1>2. LogEffect /\ NewPromises
  BY Zenon DEF HandleVoteBehind, LogEffect, Quiet, NewPromises
<1> QED
  BY Zenon, <1>1, <1>2 DEF StepGoal

\* HandleVoteAcceptedMsg, in all its outcomes.
LEMMA HandleVoteAcceptedStep ==
    ASSUME TypeOK, DurabilityInv, NEW r \in Member,
           NEW m \in Sent("VoteAccepted"),
           HandleVoteAcceptedWait(r, m) \/ HandleVoteAcceptedQuorum(r, m)
    PROVE  StepGoal
<1>1. m.src \in Member /\ maxAccepted[r] \in Vote
  BY Zenon, SentTypes DEF TypeOK
<1>2. LogEffect /\ NewPromises
  BY Zenon DEF HandleVoteAcceptedWait, HandleVoteAcceptedQuorum, LogEffect, Quiet,
         NewPromises
<1>3. CASE HandleVoteAcceptedWait(r, m)
  BY ZenonT(40), <1>1, <1>2, <1>3 DEF HandleVoteAcceptedWait, TypeOK, StepGoal
<1>4. CASE HandleVoteAcceptedQuorum(r, m)
  <2>1. /\ lastPassed' \in [Member -> Nat]
        /\ passed' \subseteq [dec : Decree, val : AnyValue]
    BY Zenon, <1>1, <1>4, AddToExecutionQueueType DEF HandleVoteAcceptedQuorum
  <2> QED
    BY ZenonT(40), <1>1, <1>2, <1>4, <2>1 DEF HandleVoteAcceptedQuorum, TypeOK, StepGoal
<1> QED
  BY Zenon, <1>3, <1>4

-----------------------------------------------------------------------------
(* Putting the actions together. *)

\* Every step keeps the types, has one of the effects on the log, and makes
\* only promises it keeps.
LEMMA StepReachesGoal ==
    ASSUME MaximaExist, TypeOK, DurabilityInv, NEW r \in Member, StepOf(r)
    PROVE  StepGoal
<1>1. CASE TimerStartInitializing(r)
  BY Zenon, <1>1, TimerStep
<1>2. ASSUME NEW q \in Member, StatusStep(r, q) PROVE StepGoal
  BY ZenonT(40), <1>2, StatusWaitStep, StatusLearnStep, StatusSecondaryStep,
     StatusPrepareStep, StatusPrepareCrashStep, StatusAheadStep DEF StatusStep
<1>3. CASE LearnStep(r)
  BY ZenonT(40), <1>3, LearnPrepareStep, LearnSkipStep, LearnMissingStep,
     LearnAcceptStep,
     LearnEndStep DEF LearnStep
<1>4. CASE MessageStep(r)
  <2>1. ASSUME NEW m \in Sent("Prepare"), HandlePrepareLower(r, m)
        PROVE  StepGoal
    <3>1. m.bal \in Ballot
      BY ZenonT(40), SentTypes DEF TypeOK
    <3> QED
      BY ZenonT(40), <2>1, <3>1, RejectStep DEF HandlePrepareLower
  <2>2. ASSUME NEW m \in Sent("Vote"), HandleVoteLower(r, m) PROVE StepGoal
    <3>1. m.bal \in Ballot
      BY ZenonT(40), SentTypes DEF TypeOK
    <3> QED
      BY ZenonT(40), <2>2, <3>1, RejectStep DEF HandleVoteLower
  <2>3. ASSUME NEW m \in Sent("VoteAccepted"), HandleVoteAcceptedShutDown(r, m)
        PROVE  StepGoal
    BY ZenonT(40), <2>3, RestartStep DEF HandleVoteAcceptedShutDown
  <2> QED
    BY ZenonT(40), <1>4, <2>1, <2>2, <2>3, HandlePrepareStep, HandlePrepareAcceptedStep,
       HandleNotAcceptedStep, HandleVoteNextStep, HandleVoteBehindStep,
       HandleVoteAcceptedStep DEF MessageStep
<1>5. ASSUME NEW val \in AnyValue, SendNextVote(r, val) PROVE StepGoal
  <2>1. relinquish' \in [Member -> BOOLEAN]
    BY Zenon, <1>5 DEF SendNextVote, TypeOK
  <2> QED
    BY ZenonT(40), <1>5, <2>1, SendNextVoteStep DEF SendNextVote
<1>6. CASE SendRelinquishVote(r)
  <2>1. relinquish' \in [Member -> BOOLEAN] /\ NoValue \in AnyValue
    BY Zenon, <1>6 DEF SendRelinquishVote, TypeOK, AnyValue
  <2> QED
    BY ZenonT(40), <1>6, <2>1, SendNextVoteStep DEF SendRelinquishVote
<1>7. CASE Restart(r)
  BY Zenon, <1>7, RestartStep DEF Restart
<1> QED
  BY Zenon, <1>1, <1>2, <1>3, <1>4, <1>5, <1>6, <1>7 DEF StepOf

\* Logs grow at the end, so the position of a learner keeps its meaning.
LEMMA StreamStable ==
    ASSUME MaximaExist, TypeOK, LogEffect, NEW q \in Member
    PROVE  /\ Len(log[q]) <= Len(log'[q])
           /\ \A i \in 1..Len(log[q]) : log'[q][i] = log[q][i]
           /\ \A n \in 0..Len(log[q]) :
                  LoggedVote(log'[q], n) = LoggedVote(log[q], n)
<1>1. log[q] \in Seq(Record) /\ Len(log[q]) \in Nat
  BY DEF TypeOK
<1>2. \/ log'[q] = log[q]
      \/ \E rec \in Record : log'[q] = Append(log[q], rec)
  <2>1. CASE Quiet
    BY Zenon, <2>1 DEF Quiet
  <2>2. ASSUME NEW r \in Member, NEW bal \in Ballot, NEW dec \in Decree,
               LogsPrepare(r, bal, dec)
        PROVE  \/ log'[q] = log[q]
               \/ \E rec \in Record : log'[q] = Append(log[q], rec)
    <3>1. PrepareRecord(bal, dec) \in Record
      BY Zenon, ConstantTypes
    <3>2. log'[q] = IF q = r THEN Append(log[q], PrepareRecord(bal, dec))
                             ELSE log[q]
      BY Zenon, <2>2 DEF LogsPrepare, TypeOK
    <3> QED
      BY Zenon, <3>1, <3>2
  <2>3. ASSUME NEW r \in Member, NEW vote \in Vote, LogsVote(r, vote)
        PROVE  \/ log'[q] = log[q]
               \/ \E rec \in Record : log'[q] = Append(log[q], rec)
    <3>1. VoteRecord(vote) \in Record
      BY Zenon, ConstantTypes
    <3>2. log'[q] = IF q = r THEN Append(log[q], VoteRecord(vote))
                             ELSE log[q]
      BY ZenonT(40), <2>3 DEF LogsVote, TypeOK
    <3> QED
      BY Zenon, <3>1, <3>2
  <2> QED
    BY Zenon, <2>1, <2>2, <2>3 DEF LogEffect
<1>3. CASE log'[q] = log[q]
  BY <1>1, <1>3
<1>4. ASSUME NEW rec \in Record, log'[q] = Append(log[q], rec)
      PROVE  /\ Len(log[q]) <= Len(log'[q])
             /\ \A i \in 1..Len(log[q]) : log'[q][i] = log[q][i]
             /\ \A n \in 0..Len(log[q]) :
                    LoggedVote(log'[q], n) = LoggedVote(log[q], n)
  <2>1. /\ Len(log[q]) <= Len(log'[q])
        /\ \A i \in 1..Len(log[q]) : log'[q][i] = log[q][i]
    BY <1>1, <1>4
  <2> QED
    BY ZenonT(40), <1>1, <1>4, <2>1, LoggedVoteAppend
<1> QED
  BY ZenonT(40), <1>2, <1>3, <1>4

\* LearnAligned for one replica.
AlignedAt(r) ==
    learn[r] # NotLearning =>
        /\ learn[r].pos <= Len(log[learn[r].src]) + 1
        /\ learn[r].last = NoVote =>
               /\ learn[r].pos <= Len(log[learn[r].src])
               /\ log[learn[r].src][learn[r].pos].kind = "Vote"
        /\ learn[r].last # NoVote =>
               /\ learn[r].last =
                      LoggedVote(log[learn[r].src], learn[r].pos - 1)
               /\ learn[r].last.dec >= maxAccepted[r].dec
               /\ BallotLeq(learn[r].last.bal, maxAccepted[r].bal)

\* LearnAligned, replica by replica.
LEMMA AlignedEverywhere == LearnAligned <=> \A r \in Member : AlignedAt(r)
    BY ZenonT(40) DEF LearnAligned, AlignedAt

\* Only the replica that takes a step moves its learner or its accepted vote.
LEMMA LearnFrame ==
    ASSUME TypeOK, NEW p \in Member, StepOf(p)
    PROVE  /\ \A r \in Member \ {p} : /\ learn'[r] = learn[r]
                                      /\ maxAccepted'[r] = maxAccepted[r]
           /\ \/ learn'[p] = NotLearning
              \/ /\ \E src \in Member : StartLearning(p, src)
                 /\ UNCHANGED <<log, maxAccepted>>
              \/ LearnPrepare(p) \/ LearnSkip(p) \/ LearnMissing(p)
              \/ LearnAccept(p)
<1> USE DEF TypeOK
<1>1. CASE TimerStartInitializing(p)
  BY ZenonT(40), <1>1 DEF TimerStartInitializing
<1>2. ASSUME NEW q \in Member, StatusStep(p, q)
      PROVE  /\ \A r \in Member \ {p} : /\ learn'[r] = learn[r]
                                        /\ maxAccepted'[r] = maxAccepted[r]
             /\ \/ learn'[p] = NotLearning
                \/ /\ \E src \in Member : StartLearning(p, src)
                   /\ UNCHANGED <<log, maxAccepted>>
  <2>1. CASE StatusWait(p, q)
    BY ZenonT(40), <2>1 DEF StatusWait, ReceiveStatus
  <2>2. CASE StatusLearn(p, q)
    BY ZenonT(40), <2>2 DEF StatusLearn, StartLearning, HigherLogged
  <2>3. CASE StatusSecondary(p, q)
    BY ZenonT(40), <2>3 DEF StatusSecondary, UpToDate, ReceiveStatus
  <2>4. CASE StatusPrepare(p, q)
    BY ZenonT(40), <2>4 DEF StatusPrepare, UpToDate, ReceiveStatus
  <2>5. CASE StatusPrepareCrash(p, q)
    BY ZenonT(40), <2>5 DEF StatusPrepareCrash, RestoreState, RestoreFrom
  <2>6. CASE StatusAhead(p, q)
    BY ZenonT(40), <2>6 DEF StatusAhead, StartLearning
  <2> QED
    BY ZenonT(40), <1>2, <2>1, <2>2, <2>3, <2>4, <2>5, <2>6 DEF StatusStep
<1>3. CASE LearnStep(p)
  BY ZenonT(40), <1>3 DEF LearnStep, LearnPrepare, LearnSkip, LearnMissing, LearnAccept,
              LearnEnd, Advance, LogAndAcceptVote, LogVote
<1>4. CASE MessageStep(p)
  <2>1. ASSUME NEW m, HandlePrepareLower(p, m) \/ HandleVoteLower(p, m)
        PROVE  learn'[p] = NotLearning /\ UNCHANGED <<learn, maxAccepted>>
    BY ZenonT(40), <2>1 DEF HandlePrepareLower, HandleVoteLower, ReceiveVote, volatile
  <2>2. ASSUME NEW m, \/ HandlePrepareMsg(p, m)
                      \/ HandleNotAcceptedMsg(p, m)
                      \/ HandleVoteBehind(p, m)
                      \/ HandleVoteAcceptedWait(p, m)
                      \/ HandleVoteAcceptedQuorum(p, m)
        PROVE  learn'[p] = NotLearning /\ UNCHANGED <<learn, maxAccepted>>
    BY ZenonT(40), <2>2 DEF HandlePrepareMsg, HandleNotAcceptedMsg, HandleVoteBehind,
                HandleVoteAcceptedWait, HandleVoteAcceptedQuorum,
                ReceiveVoteAccepted, ReceiveVote
  <2>3. ASSUME NEW m, HandlePrepareAcceptedMsg(p, m)
        PROVE  /\ learn'[p] = NotLearning /\ UNCHANGED learn
               /\ \A r \in Member \ {p} : maxAccepted'[r] = maxAccepted[r]
    BY ZenonT(40), <2>3 DEF HandlePrepareAcceptedMsg, StartBeingStablePrimary, SendVote,
                LogVote
  <2>4. ASSUME NEW m, HandleVoteNext(p, m)
        PROVE  /\ learn'[p] = NotLearning /\ UNCHANGED learn
               /\ \A r \in Member \ {p} : maxAccepted'[r] = maxAccepted[r]
    BY ZenonT(40), <2>4 DEF HandleVoteNext, ReceiveVote, LogAndAcceptVote, LogVote
  <2>5. ASSUME NEW m, HandleVoteAcceptedShutDown(p, m)
        PROVE  /\ learn'[p] = NotLearning
               /\ \A r \in Member \ {p} : /\ learn'[r] = learn[r]
                                          /\ maxAccepted'[r] = maxAccepted[r]
    BY ZenonT(40), <2>5 DEF HandleVoteAcceptedShutDown, RestoreState, RestoreFrom
  <2> QED
    BY <1>4, <2>1, <2>2, <2>3, <2>4, <2>5 DEF MessageStep
<1>5. CASE \E val \in AnyValue : SendNextVote(p, val)
  BY ZenonT(40), <1>5 DEF SendNextVote, SendVote, LogVote
<1>6. CASE SendRelinquishVote(p)
  BY ZenonT(40), <1>6 DEF SendRelinquishVote, SendVote, LogVote
<1>7. CASE Restart(p)
  BY ZenonT(40), <1>7 DEF Restart, RestoreState, RestoreFrom
<1> QED
  BY ZenonT(40), <1>1, <1>2, <1>3, <1>4, <1>5, <1>6, <1>7 DEF StepOf

\* No step of any replica puts a learner out of step with its stream.
LEMMA AlignedPreserved ==
    ASSUME MaximaExist,
           TypeOK, TypeOK', DurabilityInv, LogEffect, NEW p \in Member,
           StepOf(p)
    PROVE  LearnAligned'
<1>1. SUFFICES ASSUME NEW r \in Member, learn'[r] # NotLearning
               PROVE  AlignedAt(r)'
  BY Zenon, AlignedEverywhere DEF AlignedAt, LearnAligned
<1>2. AlignedAt(r)
  BY Zenon, AlignedEverywhere DEF DurabilityInv
<1>3. maxAccepted[r] \in Vote /\ maxAccepted'[r] \in Vote
  BY ZenonT(40) DEF TypeOK
<1>4. \A v \in Vote : v # NoVote
  BY DEF Vote, Decree, NoVote
<1>5. CASE r # p \/ (learn'[r] = learn[r] /\ maxAccepted'[r] = maxAccepted[r])
  <2>1. learn'[r] = learn[r] /\ maxAccepted'[r] = maxAccepted[r]
    BY ZenonT(40), <1>5, LearnFrame
  <2> DEFINE q == learn[r].src
  <2>2. /\ learn[r] \in Learning /\ q \in Member
        /\ log[q] \in Seq(Record) /\ log'[q] \in Seq(Record)
        /\ learn[r].pos \in Nat \ {0}
    BY ZenonT(40), <1>1, <2>1 DEF TypeOK, Learning
  <2>3. /\ Len(log[q]) <= Len(log'[q])
        /\ \A i \in 1..Len(log[q]) : log'[q][i] = log[q][i]
        /\ \A n \in 0..Len(log[q]) :
               LoggedVote(log'[q], n) = LoggedVote(log[q], n)
    BY ZenonT(40), <2>2, StreamStable
  <2>4. Len(log[q]) \in Nat /\ Len(log'[q]) \in Nat
    BY <2>2
  <2>5. /\ learn[r].pos <= Len(log[q]) + 1
        /\ learn[r].pos - 1 \in 0..Len(log[q])
    BY <1>1, <1>2, <2>1, <2>2, <2>4 DEF AlignedAt
  <2>6. learn[r].pos <= Len(log'[q]) + 1
    BY <2>2, <2>3, <2>4, <2>5
  <2>7. learn[r].last = NoVote => /\ learn[r].pos <= Len(log'[q])
                                  /\ log'[q][learn[r].pos].kind = "Vote"
    <3>1. SUFFICES ASSUME learn[r].last = NoVote
                   PROVE  /\ learn[r].pos <= Len(log'[q])
                          /\ log'[q][learn[r].pos].kind = "Vote"
      BY ZenonT(40)
    <3>2. learn[r].pos \in 1..Len(log[q]) /\ log[q][learn[r].pos].kind = "Vote"
      BY <1>1, <1>2, <2>1, <2>2, <2>4, <3>1 DEF AlignedAt
    <3> QED
      BY <2>3, <2>4, <3>2
  <2>8. LoggedVote(log'[q], learn[r].pos - 1) = LoggedVote(log[q], learn[r].pos - 1)
    BY ZenonT(40), <2>3, <2>5
  <2> QED
    BY ZenonT(40), <1>1, <1>2, <2>1, <2>6, <2>7, <2>8 DEF AlignedAt
<1>6. CASE \E src \in Member : StartLearning(r, src) /\ UNCHANGED log
  <2>1. PICK src \in Member : StartLearning(r, src) /\ UNCHANGED log
    BY ZenonT(40), <1>6
  <2>2. PICK i \in VotesUpTo(log[src], Len(log[src])) :
            learn'[r] = [src |-> src, pos |-> i, last |-> NoVote]
    BY <2>1 DEF StartLearning, TypeOK
  <2>3. /\ i \in 1..Len(log[src]) /\ log[src][i].kind = "Vote"
        /\ Len(log[src]) \in Nat
    BY DEF VotesUpTo, TypeOK
  <2> QED
    BY <2>1, <2>2, <2>3 DEF AlignedAt
<1>7. ASSUME MoreToLearn(r), NEW last \in Vote, Advance(r, last),
             last = LoggedVote(log[learn[r].src], learn[r].pos),
             last.dec >= maxAccepted'[r].dec,
             BallotLeq(last.bal, maxAccepted'[r].bal)
      PROVE  AlignedAt(r)'
  <2> DEFINE q == learn[r].src
  <2>1. /\ learn[r] \in Learning /\ q \in Member
        /\ log[q] \in Seq(Record)
        /\ learn[r].pos \in 1..Len(log[q])
    BY ZenonT(40), <1>7, NextRecordType
  <2>2. learn'[r] = [src |-> q, pos |-> learn[r].pos + 1, last |-> last]
    <3>1. learn' = [learn EXCEPT ![r] = [src |-> learn[r].src,
                                         pos |-> learn[r].pos + 1,
                                         last |-> last]]
      BY Zenon, <1>7, <2>1, AdvanceType
    <3> QED
      BY ZenonT(40), <3>1 DEF TypeOK
  <2>3. /\ Len(log[q]) <= Len(log'[q])
        /\ LoggedVote(log'[q], learn[r].pos) = LoggedVote(log[q], learn[r].pos)
        /\ Len(log[q]) \in Nat /\ Len(log'[q]) \in Nat
    <3>1. /\ Len(log[q]) <= Len(log'[q])
          /\ \A n \in 0..Len(log[q]) :
                 LoggedVote(log'[q], n) = LoggedVote(log[q], n)
      BY ZenonT(40), <2>1, StreamStable
    <3>2. log'[q] \in Seq(Record) /\ log[q] \in Seq(Record)
      BY ZenonT(40), <2>1 DEF TypeOK
    <3>3. Len(log[q]) \in Nat /\ Len(log'[q]) \in Nat
      BY <3>2
    <3>4. learn[r].pos \in 0..Len(log[q])
      BY <2>1, <3>3
    <3> QED
      BY Zenon, <3>1, <3>3, <3>4
  <2>4. (learn[r].pos + 1) - 1 = learn[r].pos
    BY <2>1, <2>3
  <2>5. /\ learn'[r].src = q /\ learn'[r].pos = learn[r].pos + 1
        /\ learn'[r].last = last
    BY <2>2
  <2>6. last # NoVote
    BY ZenonT(40), <1>4, <1>7
  <2>7. learn[r].pos + 1 <= Len(log'[q]) + 1
    BY <2>1, <2>3
  <2>8. LoggedVote(log'[q], (learn[r].pos + 1) - 1) = last
    BY Zenon, <1>7, <2>3, <2>4
  <2> QED
    BY ZenonT(40), <1>7, <2>5, <2>6, <2>7, <2>8 DEF AlignedAt
<1>8. CASE LearnPrepare(r)
  <2>1. MoreToLearn(r) /\ NextRecord(r).kind = "Prepare" /\ UNCHANGED maxAccepted
    BY Zenon, <1>8 DEF LearnPrepare
  <2>2. learn[r].last # NoVote
    BY Zenon, <1>2, <2>1 DEF AlignedAt, MoreToLearn, NextRecord
  <2>3. LoggedVote(log[learn[r].src], learn[r].pos) = learn[r].last
    BY ZenonT(40), <1>2, <2>1, <2>2, NextRecordType, LoggedVoteStep
    DEF AlignedAt, MoreToLearn, NextRecord
  <2>4. learn[r].last \in Vote
    BY Zenon, <2>1, <2>2, NextRecordType DEF Learning
  <2>5. Advance(r, learn[r].last)
    BY Zenon, <1>8 DEF LearnPrepare
  <2> QED
    BY ZenonT(40), <1>2, <1>7, <2>1, <2>2, <2>3, <2>4, <2>5 DEF AlignedAt, MoreToLearn
<1>9. ASSUME LearnSkip(r) \/ LearnAccept(r)
      PROVE  /\ MoreToLearn(r)
             /\ NextVote(r) \in Vote
             /\ NextVote(r) = LoggedVote(log[learn[r].src], learn[r].pos)
             /\ NextVote(r).dec >= maxAccepted[r].dec
  <2>1. MoreToLearn(r) /\ NextRecord(r).kind = "Vote" /\ ValidVote(r)
    BY Zenon, <1>9 DEF LearnSkip, LearnAccept
  <2>2. NextVote(r) \in Vote
    BY Zenon, <2>1, NextRecordType
  <2>3. NextVote(r) = LoggedVote(log[learn[r].src], learn[r].pos)
    BY ZenonT(40), <2>1, NextRecordType, LoggedVoteStep DEF NextVote, NextRecord
  <2>4. NextVote(r).dec >= maxAccepted[r].dec
    BY <1>3, <2>1, <2>2 DEF ValidVote, Vote, Decree
  <2> QED
    BY Zenon, <2>1, <2>2, <2>3, <2>4
<1>10. CASE LearnSkip(r)
  <2>1. /\ Advance(r, NextVote(r)) /\ UNCHANGED maxAccepted
        /\ BallotLeq(NextVote(r).bal, maxAccepted[r].bal)
    BY Zenon, <1>10 DEF LearnSkip, BallotLeq
  <2> QED
    BY ZenonT(40), <1>7, <1>9, <1>10, <2>1
<1>11. CASE LearnAccept(r)
  <2>1. Advance(r, NextVote(r))
    <3>1. \/ Advance(r, NextVote(r))
          \/ learn' = [learn EXCEPT ![r] = NotLearning]
      BY Zenon, <1>11 DEF LearnAccept
    <3> QED
      BY ZenonT(40), <1>1, <3>1 DEF TypeOK
  <2>2. maxAccepted'[r] = NextVote(r)
    BY Zenon, <1>11 DEF LearnAccept, LogAndAcceptVote, LogVote, TypeOK
  <2>3. NextVote(r).dec >= NextVote(r).dec
    <3>1. NextVote(r) \in Vote
      BY Zenon, <1>9, <1>11
    <3>2. NextVote(r).dec \in Nat
      BY Zenon, <3>1 DEF Vote, Decree
    <3> QED
      BY <3>2
  <2> QED
    BY ZenonT(40), <1>7, <1>9, <1>11, <2>1, <2>2, <2>3 DEF BallotLeq
<1>12. CASE LearnMissing(r)
  <2>1. /\ MissingVote(r).dec = maxAccepted[r].dec + 1
        /\ learn[r].last # NoVote
    BY Zenon, <1>12, MissingVoteIsNext
  <2>2. /\ UNCHANGED learn
        /\ maxAccepted'[r] = MissingVote(r)
        /\ MissingVote(r).bal = maxAccepted[r].bal
        /\ NextVote(r).dec = MissingVote(r).dec
    BY Zenon, <1>12 DEF LearnMissing, LogAndAcceptVote, LogVote, TypeOK, MissingVote
  <2> DEFINE last == learn[r].last
  <2>3. /\ last \in Vote /\ NextVote(r) \in Vote
    BY Zenon, <1>12, <2>1, NextRecordType DEF LearnMissing, Learning
  <2>4. /\ BallotLeq(last.bal, maxAccepted[r].bal)
        /\ IsNextDecree(NextVote(r), last.dec, last.bal)
        /\ ~BallotLess(NextVote(r).bal, maxAccepted[r].bal)
        /\ ~IsNextDecree(NextVote(r), maxAccepted[r].dec, maxAccepted[r].bal)
    BY Zenon, <1>2, <1>12, <2>1
    DEF LearnMissing, ValidVote, AlignedAt, MoreToLearn
  <2>5. NextVote(r).bal # maxAccepted[r].bal
    BY Zenon, <2>1, <2>2, <2>4 DEF IsNextDecree
  <2>6. NextVote(r).bal # last.bal
    BY ZenonT(40), <1>3, <2>3, <2>4, <2>5, BallotOrder DEF BallotLeq, Vote
  <2>7. last.dec >= MissingVote(r).dec
    BY <2>2, <2>3, <2>4, <2>6 DEF IsNextDecree, Vote, Decree
  <2> DEFINE q == learn[r].src
  <2>8. /\ learn[r] \in Learning /\ q \in Member
        /\ log[q] \in Seq(Record)
        /\ learn[r].pos \in 1..Len(log[q])
    BY Zenon, <1>12, NextRecordType DEF LearnMissing
  <2>9. /\ Len(log[q]) <= Len(log'[q])
        /\ LoggedVote(log'[q], learn[r].pos - 1) =
               LoggedVote(log[q], learn[r].pos - 1)
        /\ Len(log[q]) \in Nat /\ Len(log'[q]) \in Nat
    <3>1. /\ Len(log[q]) <= Len(log'[q])
          /\ \A n \in 0..Len(log[q]) :
                 LoggedVote(log'[q], n) = LoggedVote(log[q], n)
      BY Zenon, <2>8, StreamStable
    <3>2. log'[q] \in Seq(Record) /\ log[q] \in Seq(Record)
      BY ZenonT(40), <2>8 DEF TypeOK
    <3>3. Len(log[q]) \in Nat /\ Len(log'[q]) \in Nat
      BY <3>2
    <3>4. learn[r].pos - 1 \in 0..Len(log[q])
      BY <2>8, <3>3
    <3> QED
      BY Zenon, <3>1, <3>3, <3>4
  <2>10. learn[r].pos <= Len(log'[q]) + 1
    BY <2>8, <2>9
  <2>11. learn[r] # NotLearning /\ learn'[r] = learn[r]
    BY Zenon, <1>1, <2>2
  <2>12. last = LoggedVote(log'[q], learn[r].pos - 1)
    BY ZenonT(40), <1>2, <2>1, <2>9, <2>11 DEF AlignedAt
  <2>13. /\ last.dec >= maxAccepted'[r].dec
         /\ BallotLeq(last.bal, maxAccepted'[r].bal)
    BY Zenon, <2>2, <2>4, <2>7
  <2> QED
    BY ZenonT(40), <2>1, <2>10, <2>11, <2>12, <2>13 DEF AlignedAt
<1> QED
  BY ZenonT(40), <1>1, <1>5, <1>6, <1>8, <1>10, <1>11, <1>12, LearnFrame

-----------------------------------------------------------------------------
(* The inductive invariant. *)

\* The inductive invariant holds in a bootstrapped configuration.
LEMMA InitialState ==
    ASSUME Init
    PROVE  TypeOK /\ DurabilityInv /\ PromiseKept
<1>1. TypeOK
  <2>1. ZeroBallot \in Ballot /\ InitialVote \in Vote
    BY DEF ZeroBallot, Ballot, InitialVote, Vote, Decree, AnyValue
  <2>2. NoStatus \in [Member -> Vote \cup {NoVote}]
    BY Zenon DEF NoStatus
  <2>3. log \in [Member -> Seq(Record)]
    BY DEF Init
  <2>4. statusMap \in [Member -> [Member -> Vote \cup {NoVote}]]
    BY Zenon, <2>2 DEF Init
  <2> QED
    BY ZenonT(40), <2>1, <2>3, <2>4 DEF Init, TypeOK
<1>2. ASSUME NEW r \in Member PROVE Durable(log[r], maxAccepted[r], maxBallot[r])
  <2>1. log[r] = <<>> /\ maxAccepted[r] = InitialVote /\ maxBallot[r] = ZeroBallot
    BY Zenon DEF Init
  <2>2. VotesUpTo(<<>>, 0) = {} /\ Replayed(<<>>) = {} /\ Len(<<>>) = 0
    BY DEF VotesUpTo, Replayed
  <2> QED
    BY Zenon, <2>1, <2>2 DEF Durable, LoggedVote, BallotLeq, InitialVote,
       ReplayedBallots
<1>3. \A r \in Member : 1..Len(log[r]) = {}
  BY DEF Init
<1>4. LearnAligned
  BY Zenon DEF Init, LearnAligned
<1>5. PromiseCoversVote
  BY Zenon DEF Init, PromiseCoversVote, BallotLeq, InitialVote
<1>6. PromiseKept
  BY Zenon DEF Init, PromiseKept, Sent
<1> QED
  BY ZenonT(40), <1>1, <1>2, <1>3, <1>4, <1>5, <1>6 DEF DurabilityInv

\* Every step preserves the inductive invariant.
LEMMA InductiveStep ==
    ASSUME MaximaExist, TypeOK, DurabilityInv, PromiseKept, [Next]_vars
    PROVE  TypeOK' /\ DurabilityInv' /\ PromiseKept'
<1>1. CASE UNCHANGED vars
  <2>1. TypeOK'
    BY ZenonT(40), <1>1 DEF TypeOK, vars
  <2>2. DurabilityInv'
    BY Zenon, <1>1 DEF DurabilityInv, LearnAligned, PromiseCoversVote, vars
  <2>3. PromiseKept'
    BY Zenon, <1>1 DEF PromiseKept, Sent, vars
  <2> QED
    BY ZenonT(40), <2>1, <2>2, <2>3
<1>2. ASSUME NEW r \in Member, StepOf(r)
      PROVE  TypeOK' /\ DurabilityInv' /\ PromiseKept'
  <2>1. TypeOK' /\ LogEffect /\ NewPromises
    BY Zenon, <1>2, StepReachesGoal DEF StepGoal
  <2>2. LearnAligned'
    BY Zenon, <1>2, <2>1, AlignedPreserved
  <2>3. /\ \A p \in Member : Durable(log'[p], maxAccepted'[p], maxBallot'[p])
        /\ \A p \in Member : \A i \in 1..Len(log'[p]) : SequentialAt(log'[p], i)
        /\ PromiseCoversVote'
        /\ \A p \in Member : BallotLeq(maxBallot[p], maxBallot'[p])
    BY Zenon, <2>1, EffectPreserves
  <2>4. PromiseKept'
    <3>1. SUFFICES ASSUME NEW m \in msgs', m.type = "PrepareAccepted"
                   PROVE  BallotLeq(m.bal, maxBallot'[m.src])
      BY Zenon DEF PromiseKept, Sent
    <3>2. CASE m \in msgs
      <4>1. m \in Sent("PrepareAccepted")
        BY Zenon, <3>1, <3>2 DEF Sent
      <4>2. m.bal \in Ballot /\ m.src \in Member
        BY ZenonT(40), <4>1, SentTypes DEF TypeOK
      <4>3. /\ BallotLeq(m.bal, maxBallot[m.src])
            /\ BallotLeq(maxBallot[m.src], maxBallot'[m.src])
        BY ZenonT(40), <2>3, <4>1, <4>2 DEF PromiseKept
      <4>4. maxBallot[m.src] \in Ballot /\ maxBallot'[m.src] \in Ballot
        BY ZenonT(40), <2>1, <4>2 DEF TypeOK
      <4> QED
        BY ZenonT(40), <4>2, <4>3, <4>4, BallotOrder
    <3>3. CASE m \notin msgs
      BY Zenon, <2>1, <3>1, <3>3 DEF NewPromises
    <3> QED
      BY Zenon, <3>2, <3>3
  <2> QED
    BY ZenonT(40), <2>1, <2>2, <2>3, <2>4 DEF DurabilityInv
<1> QED
  BY Zenon, <1>1, <1>2 DEF Next, StepOf
=============================================================================
