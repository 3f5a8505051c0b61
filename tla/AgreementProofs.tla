--------------------------- MODULE AgreementProofs ---------------------------
(***************************************************************************)
(* The theorems about Legislator: its logs bring back what a replica has   *)
(* promised and accepted, and the replicas of a configuration execute one  *)
(* and the same sequence of requests, whoever is elected, whoever stops    *)
(* and whatever is learned from whom.  The facts about finite sets and     *)
(* natural numbers that the other modules have as hypotheses are proved    *)
(* here from the library.                                                  *)
(***************************************************************************)
EXTENDS PrimaryProofs, LegislatorProofs, FiniteSetTheorems

\* The provers get more than their default time.
USE SMTT(40), ZenonT(40)

-----------------------------------------------------------------------------
(* Positions and quorums. *)

\* A nonempty set of positions has a greatest one, by the least distance from
\* the end.
LEMMA GreatestPosition ==
    ASSUME NEW n \in Nat, NEW T \in SUBSET (1..n), T # {}
    PROVE  \E i \in T : \A j \in T : j <= i
<1> DEFINE Less == {ss \in Nat \X Nat : ss[1] < ss[2]}
           D == {d \in 0..n : n - d \in T}
<1>1. IsWellFoundedOn(Less, Nat)
  BY NatLessThanWellFounded, Zenon DEF OpToRel
<1>2. D \subseteq Nat
  OBVIOUS
<1>3. D # {}
  <2>1. PICK i \in T : i \in 1..n
    BY Zenon
  <2>2. n - i \in 0..n /\ n - (n - i) = i
    BY <2>1
  <2> QED
    BY Zenon, <2>2
<1>4. PICK d \in D : \A e \in D : ~(<<e, d>> \in Less)
  <2> HIDE DEF D, Less
  <2> QED
    BY <1>1, <1>2, <1>3, WFMin, Zenon
<1>5. ASSUME NEW j \in T PROVE j <= n - d
  <2>1. j \in 1..n /\ n - j \in 0..n /\ n - (n - j) = j
    OBVIOUS
  <2>2. n - j \in D
    BY ZenonT(40), <2>1
  <2>3. ~(<<n - j, d>> \in Less)
    BY ZenonT(40), <1>4, <2>2
  <2>4. n - j \in Nat /\ d \in Nat
    BY ZenonT(40), <1>2, <2>2
  <2>5. ~(n - j < d)
    BY ZenonT(40), <2>3, <2>4
  <2> QED
    BY <2>1, <2>4, <2>5
<1> QED
  BY ZenonT(40), <1>4, <1>5

\* What LogProofs supposes of positions in a log.
LEMMA MaximaFact == MaximaExist
BY ZenonT(40), GreatestPosition DEF MaximaExist

\* Two quorums have a member in common.
LEMMA MajoritiesMeet ==
    ASSUME NEW Q \in Quorums, NEW R \in Quorums
    PROVE  \E q \in Q : q \in R
<1>1. /\ IsFiniteSet(Member) /\ Cardinality(Member) \in Nat
      /\ IsFiniteSet(Q) /\ IsFiniteSet(R)
      /\ Cardinality(Q) \in Nat /\ Cardinality(R) \in Nat
  BY ZenonT(40), MemberAssumption, FS_Subset, FS_CardinalityType DEF Quorums
<1>2. Cardinality(Q \cup R) <= Cardinality(Member)
  <2>1. Q \cup R \in SUBSET Member
    BY Zenon DEF Quorums
  <2> QED
    BY ZenonT(40), <1>1, <2>1, FS_Subset
<1>3. Cardinality(Q \cup R) =
          Cardinality(Q) + Cardinality(R) - Cardinality(Q \cap R)
  BY ZenonT(40), <1>1, FS_Union
<1>4. /\ 2 * Cardinality(Q) > Cardinality(Member)
      /\ 2 * Cardinality(R) > Cardinality(Member)
  BY Zenon DEF Quorums
<1>5. Cardinality(Q \cap R) # 0
  BY <1>1, <1>2, <1>3, <1>4
<1> QED
  BY ZenonT(40), <1>5, FS_EmptySet

\* QuorumSize - 1 answers and the replica that counts them are a quorum.
LEMMA AnswersSuffice ==
    ASSUME NEW r \in Member, NEW S \in SUBSET Member, r \notin S,
           Cardinality(S) >= QuorumSize - 1
    PROVE  S \cup {r} \in Quorums
<1>1. /\ IsFiniteSet(Member) /\ Cardinality(Member) \in Nat
      /\ IsFiniteSet(S) /\ Cardinality(S) \in Nat
  BY ZenonT(40), MemberAssumption, FS_Subset, FS_CardinalityType
<1>2. Cardinality(S \cup {r}) = Cardinality(S) + 1
  BY ZenonT(40), <1>1, FS_AddElement
<1> QED
  BY <1>1, <1>2 DEF Quorums, QuorumSize

\* What contains a quorum is one.
LEMMA LargerQuorum ==
    ASSUME NEW Q \in Quorums, NEW S \in SUBSET Member, Q \subseteq S
    PROVE  S \in Quorums
<1>1. IsFiniteSet(S) /\ Cardinality(S) \in Nat /\ Cardinality(Member) \in Nat
  BY ZenonT(40), MemberAssumption, FS_Subset, FS_CardinalityType
<1>2. Cardinality(Q) <= Cardinality(S) /\ Cardinality(Q) \in Nat
  BY ZenonT(40), <1>1, FS_Subset, FS_CardinalityType
<1>3. 2 * Cardinality(Q) > Cardinality(Member)
  BY ZenonT(40) DEF Quorums
<1>4. 2 * Cardinality(S) > Cardinality(Member)
  BY <1>1, <1>2, <1>3
<1> QED
  BY ZenonT(40), <1>4 DEF Quorums

\* What ElectionProofs supposes of quorums.
LEMMA QuorumFact == QuorumFacts
BY ZenonT(40), MajoritiesMeet, AnswersSuffice, LargerQuorum DEF QuorumFacts

-----------------------------------------------------------------------------
(* The logs. *)

\* Types, durable and sequential logs, aligned learners and kept promises are
\* invariant together.
LEMMA Inductive == Spec => [](TypeOK /\ DurabilityInv /\ PromiseKept)
<1>1. Init => TypeOK /\ DurabilityInv /\ PromiseKept
  BY ZenonT(40), InitialState
<1>2. TypeOK /\ DurabilityInv /\ PromiseKept /\ [Next]_vars
      => (TypeOK /\ DurabilityInv /\ PromiseKept)'
  BY ZenonT(40), MaximaFact, InductiveStep
<1> QED
  BY <1>1, <1>2, PTL DEF Spec

\* Every handler of the Legislator keeps its state, its log and its messages
\* well formed, for any configuration and any bounds.
THEOREM TypeCorrect == Spec => []TypeOK
  BY Inductive, PTL

\* A replica that stops at any point finds in its log the ballot it promised
\* and the decree and ballot of the vote it accepted (LogVote, LogPrepare,
\* SetMaxBallot against RestoreState).
THEOREM Durability == Spec => []RestoreSound
<1>1. TypeOK /\ DurabilityInv => RestoreSound
  BY ZenonT(40), DurableImpliesRestoreSound DEF DurabilityInv, Durable, RestoreSound
<1> QED
  BY <1>1, Inductive, PTL

\* RestoreState never fails its assertion on the order of the votes, and never
\* skips a prepare, whatever mixture of handlers and learning wrote the log.
THEOREM LogIsSequential == Spec => []LogSequential
<1>1. DurabilityInv => LogSequential
  BY Zenon DEF DurabilityInv, SequentialAt, LogSequential
<1> QED
  BY <1>1, Inductive, PTL

\* A PrepareAccepted binds its sender for ever, through any number of restarts
\* that happen with a vote in the log.
THEOREM PromisesKept == Spec => []PromiseKept
  BY Inductive, PTL

\* A learner and the replica it learns from write their logs at the same time,
\* and the learner's position and last vote stay in step with what it accepted.
THEOREM LearnerAligned == Spec => []LearnAligned
<1>1. DurabilityInv => LearnAligned
  BY ZenonT(40) DEF DurabilityInv
<1> QED
  BY <1>1, Inductive, PTL

-----------------------------------------------------------------------------
(* Agreement. *)

\* The invariant of agreement holds on, beside the one of the logs.
LEMMA VotingNext ==
    ASSUME Base, VotingInv, [Next]_vars PROVE VotingInv'
<1>1. ASSUME NEW r \in Member, StepOf(r) PROVE VotingInv'
  <2>1. TypeOK' /\ LogEffect
    BY ZenonT(40), <1>1, MaximaFact, StepReachesGoal DEF StepGoal, Base
  <2> QED
    BY ZenonT(40), <1>1, <2>1, MaximaFact, QuorumFact, VotingStep
<1>2. UNCHANGED vars \/ \E r \in Member : StepOf(r)
  BY ZenonT(40) DEF Next, StepOf
<1> QED
  BY ZenonT(40), <1>1, <1>2, VotingStutter

\* The invariant of agreement, beside the one of the logs.
LEMMA VotingInductive == Spec => [](Base /\ VotingInv)
<1>1. Init => Base /\ VotingInv
  BY ZenonT(40), InitialState, InitialVoting DEF Base
<1>2. Base /\ VotingInv /\ [Next]_vars => (Base /\ VotingInv)'
  BY ZenonT(40), MaximaFact, InductiveStep, VotingNext DEF Base
<1> QED
  BY <1>1, <1>2, PTL DEF Spec

\* Two replicas never execute different requests for the same decree, in this
\* or in an earlier life, whoever was primary, whoever answered, learned,
\* stopped or gave up the primary in between (AddToExecutionQueue).
THEOREM ReplicasAgree == Spec => []Agreement
<1>1. Base /\ VotingInv => Agreement
  BY ZenonT(40), QuorumFact, InvAgreement
<1> QED
  BY <1>1, VotingInductive, PTL

\* The owner of a ballot never sends two different votes for a decree under
\* it, not even across a restart (StartBeingStablePrimary, SendNextVote).
THEOREM OneVote == Spec => []OneVotePerBallot
<1>1. VotingInv => OneVotePerBallot
  BY ZenonT(40), InvOneVote
<1> QED
  BY <1>1, VotingInductive, PTL

\* What is executed was accepted by a quorum under one ballot, whichever way
\* it reached the queue: an answer of the quorum (HandleVoteAcceptedMsg), the
\* vote for the next decree (LogAndAcceptVote), learning, or replay.
THEOREM PassedIsChosen == Spec => []PassedChosen
<1>1. Base /\ VotingInv => PassedChosen
  BY ZenonT(40), QuorumFact, InvChosen
<1> QED
  BY <1>1, VotingInductive, PTL

\* Decrees pass one after the other, and a replica is never more than one
\* decree short of the vote it holds (Enqueue, RestoreState).
THEOREM PassesInOrder == Spec => []PassInOrder
<1>1. VotingInv => PassInOrder
  BY ZenonT(40) DEF VotingInv, PassedInv
<1> QED
  BY <1>1, VotingInductive, PTL

\* The assertions of HandlePrepareAcceptedMsg, HandleVoteAcceptedMsg and
\* SendNextVote never fail.
THEOREM AssertsHold == Spec => []HandlerAsserts
<1>1. Base /\ VotingInv => HandlerAsserts
  BY ZenonT(40), InvAsserts
<1> QED
  BY <1>1, VotingInductive, PTL

\* The Legislator implements the replicated log: every replica hands one and
\* the same sequence of requests to its state machine, one decree at a time,
\* and resumes after a restart at a decree it had reached.
THEOREM Implements == Spec => ImplementsReplicatedLog
<1>1. Init => Promised!Init
  BY ZenonT(40) DEF Init, Promised!Init
<1>2. Base /\ VotingInv /\ [Next]_vars
      => [Promised!Next]_<<passed, lastPassed>>
  <2> SUFFICES ASSUME Base, VotingInv, [Next]_vars
               PROVE  [Promised!Next]_<<passed, lastPassed>>
    BY ZenonT(40)
  <2>1. CASE UNCHANGED vars
    BY ZenonT(40), <2>1 DEF vars
  <2>2. ASSUME NEW r \in Member, StepOf(r)
        PROVE  [Promised!Next]_<<passed, lastPassed>>
    BY ZenonT(40), <2>2, MaximaFact, QuorumFact, StepKind, StepImplements
    DEF Promised!Next
  <2> QED
    BY ZenonT(40), <2>1, <2>2 DEF Next, StepOf
<1> QED
  BY <1>1, <1>2, VotingInductive, PTL
  DEF Spec, ImplementsReplicatedLog, Promised!Spec
==============================================================================
