----------------------------- MODULE LogProofs ------------------------------
(***************************************************************************)
(* What the proofs about Legislator share, for any set of members, any     *)
(* values and any bounds: the order of ballots, what a record appended to  *)
(* a log does to what RestoreState reads back, and the effects a step may  *)
(* have on a log.                                                          *)
(***************************************************************************)
EXTENDS Legislator, TLAPS

\* The provers get more than their default time.
USE SMTT(40), ZenonT(40)

-----------------------------------------------------------------------------
(* Ballots are totally ordered (BallotNumber::operator<). *)

\* BallotNumber's operators are a total order: reflexive, transitive and
\* antisymmetric on ballots.
LEMMA BallotOrder ==
    ASSUME NEW a \in Ballot, NEW b \in Ballot, NEW c \in Ballot
    PROVE  /\ BallotLeq(a, a)
           /\ BallotLeq(a, b) \/ BallotLess(b, a)
           /\ ~(BallotLeq(a, b) /\ BallotLess(b, a))
           /\ BallotLeq(a, b) /\ BallotLeq(b, a) => a = b
           /\ BallotLeq(a, b) /\ BallotLeq(b, c) => BallotLeq(a, c)
           /\ BallotLess(a, b) /\ BallotLeq(b, c) => BallotLess(a, c)
           /\ BallotLeq(a, b) /\ BallotLess(b, c) => BallotLess(a, c)
    BY DEF Ballot, BallotLeq, BallotLess

\* The empty ballot of BallotNumber() is below every other one.
LEMMA ZeroIsLeast ==
    /\ ZeroBallot \in Ballot
    /\ \A b \in Ballot : BallotLeq(ZeroBallot, b)
    BY DEF Ballot, ZeroBallot, BallotLeq, BallotLess

\* What SetMaxBallot leaves in m_maxBallot.
LEMMA MaxOfIsMax ==
    ASSUME NEW a \in Ballot, NEW b \in Ballot
    PROVE  /\ MaxOf(a, b) \in {a, b}
           /\ MaxOf(a, b) \in Ballot
           /\ BallotLeq(a, MaxOf(a, b))
           /\ BallotLeq(b, MaxOf(a, b))
    BY Zenon, BallotOrder DEF MaxOf, BallotLeq

-----------------------------------------------------------------------------
(* The votes of a log. *)

\* A decree and the one after it.
LEMMA NextNumber ==
    \A n \in Nat : n + 1 # n /\ ~(n + 1 <= n) /\ (n + 1) - 1 = n /\ n <= n
OBVIOUS

\* What passes IsNextDecree is at no lower ballot and no lower decree.
LEMMA NextIsNotLower ==
    ASSUME NEW m, NEW dec \in Nat, NEW bal, IsNextDecree(m, dec, bal)
    PROVE  BallotLeq(bal, m.bal) /\ dec <= m.dec
<1>1. dec <= dec /\ dec <= dec + 1
  OBVIOUS
<1> QED
  BY Zenon, <1>1 DEF IsNextDecree, BallotLeq

\* What IsLowerDecree lets through is at no lower decree.
LEMMA NotLowerDecree ==
    ASSUME NEW m, NEW dec \in Nat, NEW bal, m.dec \in Nat,
           ~IsLowerDecree(m, dec, bal)
    PROVE  dec <= m.dec
BY DEF IsLowerDecree

\* A nonempty set of positions has a greatest one.  AgreementProofs proves it
\* once, and the facts about quorums, from the library; here they are hypotheses.
MaximaExist ==
    \A n \in Nat : \A T \in SUBSET (1..n) :
        T # {} => \E i \in T : \A j \in T : j <= i

\* The last vote of a log is well defined.
LEMMA MaximumExists ==
    ASSUME MaximaExist, NEW n \in Nat, NEW T \in SUBSET (1..n), T # {}
    PROVE  \E i \in T : \A j \in T : j <= i
BY Zenon DEF MaximaExist

\* What replay holds after n records is a vote.
LEMMA LoggedVoteType ==
    ASSUME MaximaExist, NEW l \in Seq(Record), NEW n \in 0..Len(l)
    PROVE  LoggedVote(l, n) \in Vote
<1>1. InitialVote \in Vote
  BY ZeroIsLeast DEF InitialVote, Vote, Decree, AnyValue
<1>2. CASE VotesUpTo(l, n) # {}
  <2>1. n \in Nat /\ VotesUpTo(l, n) \in SUBSET (1..n)
    BY DEF VotesUpTo
  <2>2. \E i \in VotesUpTo(l, n) : \A j \in VotesUpTo(l, n) : j <= i
    BY Zenon, <1>2, <2>1, MaximumExists
  <2> DEFINE i == CHOOSE i \in VotesUpTo(l, n) :
                      \A j \in VotesUpTo(l, n) : j <= i
  <2>3. i \in 1..Len(l)
    BY <2>1, <2>2
  <2>4. l[i] \in Record
    BY <2>3
  <2> QED
    BY Zenon, <1>2, <2>4 DEF LoggedVote, Record, Vote
<1> QED
  BY Zenon, <1>1, <1>2 DEF LoggedVote

\* Replay takes over the record it reads if that is a vote, and keeps the
\* vote it holds otherwise.
LEMMA LoggedVoteStep ==
    ASSUME NEW l \in Seq(Record), NEW n \in 1..Len(l)
    PROVE  LoggedVote(l, n) =
               IF l[n].kind = "Vote"
               THEN [bal |-> l[n].bal, dec |-> l[n].dec, val |-> l[n].val]
               ELSE LoggedVote(l, n - 1)
<1>1. CASE l[n].kind = "Vote"
  <2>1. n \in VotesUpTo(l, n)
    BY <1>1 DEF VotesUpTo
  <2>2. \A j \in VotesUpTo(l, n) : j \in Nat /\ j <= n
    BY DEF VotesUpTo
  <2>3. (CHOOSE i \in VotesUpTo(l, n) :
             \A j \in VotesUpTo(l, n) : j <= i) = n
    BY <2>1, <2>2
  <2> QED
    BY Zenon, <1>1, <2>1, <2>3 DEF LoggedVote
<1>2. CASE l[n].kind # "Vote"
  <2>1. VotesUpTo(l, n) = VotesUpTo(l, n - 1)
    BY <1>2 DEF VotesUpTo
  <2> QED
    BY Zenon, <1>2, <2>1 DEF LoggedVote
<1> QED
  BY Zenon, <1>1, <1>2

\* Appending a record leaves the votes before it alone, and a vote becomes the
\* last one.
LEMMA LoggedVoteAppend ==
    ASSUME MaximaExist, NEW l \in Seq(Record), NEW rec \in Record
    PROVE  /\ \A n \in 0..Len(l) :
                  LoggedVote(Append(l, rec), n) = LoggedVote(l, n)
           /\ LoggedVote(Append(l, rec), Len(l) + 1) =
                  IF rec.kind = "Vote"
                  THEN [bal |-> rec.bal, dec |-> rec.dec, val |-> rec.val]
                  ELSE LoggedVote(l, Len(l))
<1> DEFINE k == Append(l, rec)
<1>1. /\ Len(l) \in Nat
      /\ Len(k) = Len(l) + 1
      /\ k[Len(l) + 1] = rec
      /\ \A i \in 1..Len(l) : k[i] = l[i]
  OBVIOUS
<1> HIDE DEF k
<1>2. ASSUME NEW n \in 0..Len(l)
      PROVE  LoggedVote(k, n) = LoggedVote(l, n)
  <2>1. VotesUpTo(k, n) = VotesUpTo(l, n)
    BY <1>1 DEF VotesUpTo
  <2>2. CASE VotesUpTo(l, n) = {}
    BY Zenon, <2>1, <2>2 DEF LoggedVote
  <2>3. CASE VotesUpTo(l, n) # {}
    <3>1. n \in Nat /\ VotesUpTo(l, n) \in SUBSET (1..n)
      BY DEF VotesUpTo
    <3>2. \E i \in VotesUpTo(l, n) : \A j \in VotesUpTo(l, n) : j <= i
      BY Zenon, <2>3, <3>1, MaximumExists
    <3> DEFINE i == CHOOSE i \in VotesUpTo(l, n) :
                        \A j \in VotesUpTo(l, n) : j <= i
    <3>3. i \in 1..Len(l)
      BY <3>1, <3>2
    <3>4. k[i] = l[i]
      BY Zenon, <1>1, <3>3
    <3> QED
      BY Zenon, <2>1, <2>3, <3>4 DEF LoggedVote
  <2> QED
    BY Zenon, <2>2, <2>3
<1>3. LoggedVote(k, Len(l) + 1) =
          IF rec.kind = "Vote"
          THEN [bal |-> rec.bal, dec |-> rec.dec, val |-> rec.val]
          ELSE LoggedVote(l, Len(l))
  <2>1. k \in Seq(Record) /\ Len(l) + 1 \in 1..Len(k)
    BY <1>1 DEF k
  <2>2. LoggedVote(k, Len(l)) = LoggedVote(l, Len(l))
    BY <1>1, <1>2
  <2>3. (Len(l) + 1) - 1 = Len(l)
    BY <1>1
  <2> QED
    BY Zenon, <1>1, <2>1, <2>2, <2>3, LoggedVoteStep
<1> QED
  BY Zenon, <1>2, <1>3 DEF k

-----------------------------------------------------------------------------
(* Types. *)

\* The votes and records the handlers build have their types.
LEMMA ConstantTypes ==
    /\ InitialVote \in Vote
    /\ NoStatus \in [Member -> Vote \cup {NoVote}]
    /\ \A v \in Vote : VoteRecord(v) \in Record
    /\ \A b \in Ballot, d \in Decree : PrepareRecord(b, d) \in Record
    /\ Member \subseteq Nat
    BY ZeroIsLeast, MemberAssumption
    DEF InitialVote, Vote, Decree, AnyValue, NoStatus, VoteRecord,
        PrepareRecord, Record

\* The fields of a message that was sent.
LEMMA SentTypes ==
    ASSUME msgs \subseteq Message
    PROVE  /\ \A m \in Sent("Prepare") : m.bal \in Ballot /\ m.dec \in Decree
           /\ \A m \in Sent("PrepareAccepted") :
                  /\ m.src \in Member /\ m.bal \in Ballot
                  /\ m.dec \in Decree /\ m.vote \in Vote
           /\ \A m \in Sent("Vote") :
                  /\ m.bal \in Ballot /\ m.dec \in Decree
                  /\ m.val \in AnyValue /\ m.rp \in BOOLEAN
           /\ \A m \in Sent("VoteAccepted") :
                  m.src \in Member /\ m.bal \in Ballot /\ m.dec \in Decree
           /\ \A m \in Sent("NotAccepted") :
                  m.bal \in Ballot /\ m.dec \in Decree
    BY Zenon DEF Sent, Message

\* The ballot StartPreparing chooses is above the promised one.
LEMMA NewBallotType ==
    ASSUME TypeOK, NEW r \in Member, NEW seen \in SeenBallot
    PROVE  NewBallot(r, seen) \in Ballot
<1>1. seen \in Ballot
  BY ZeroIsLeast DEF SeenBallot, TypeOK, Message
<1>2. maxBallot[r] \in Ballot
  BY Zenon DEF TypeOK
<1> QED
  BY <1>1, <1>2, ConstantTypes DEF NewBallot, Ballot

\* The record LearnVotes is about to read.
LEMMA NextRecordType ==
    ASSUME TypeOK, NEW r \in Member, MoreToLearn(r)
    PROVE  /\ learn[r] \in Learning
           /\ learn[r].src \in Member
           /\ log[learn[r].src] \in Seq(Record)
           /\ learn[r].pos \in 1..Len(log[learn[r].src])
           /\ NextRecord(r) \in Record
           /\ NextRecord(r).bal \in Ballot
           /\ NextRecord(r).dec \in Decree
           /\ NextVote(r) \in Vote
<1>1. learn[r] \in Learning
  BY Zenon DEF TypeOK, MoreToLearn
<1>2. learn[r].src \in Member /\ learn[r].pos \in Nat \ {0}
  BY Zenon, <1>1 DEF Learning
<1>3. log[learn[r].src] \in Seq(Record)
  BY Zenon, <1>2 DEF TypeOK
<1>4. learn[r].pos \in 1..Len(log[learn[r].src])
  BY <1>2, <1>3 DEF MoreToLearn
<1>5. NextRecord(r) \in Record
  BY <1>3, <1>4 DEF NextRecord
<1> QED
  BY ZenonT(40), <1>1, <1>2, <1>3, <1>4, <1>5 DEF NextVote, Record, Vote

-----------------------------------------------------------------------------
(***************************************************************************)
(* What a step does to a log, its owner's promise and its accepted vote.   *)
(* Every handler is one of three: it leaves them alone, it logs a prepare  *)
(* at or above the accepted decree, or it logs a vote that follows the     *)
(* accepted one.                                                           *)
(***************************************************************************)
Quiet ==
    /\ log' = log
    /\ maxBallot' = maxBallot
    /\ \A q \in Member : /\ maxAccepted'[q].bal = maxAccepted[q].bal
                         /\ maxAccepted'[q].dec = maxAccepted[q].dec

LogsPrepare(r, bal, dec) ==
    /\ dec >= maxAccepted[r].dec
    /\ log' = [log EXCEPT ![r] = Append(log[r], PrepareRecord(bal, dec))]
    /\ maxBallot' = [maxBallot EXCEPT ![r] = MaxOf(maxBallot[r], bal)]
    /\ maxAccepted' = maxAccepted

LogsVote(r, vote) ==
    /\ IsNextDecree(vote, maxAccepted[r].dec, maxAccepted[r].bal)
    /\ log' = [log EXCEPT ![r] = Append(log[r], VoteRecord(vote))]
    /\ maxBallot' = [maxBallot EXCEPT ![r] = MaxOf(maxBallot[r], vote.bal)]
    /\ maxAccepted' = [maxAccepted EXCEPT ![r] = vote]

LogEffect ==
    \/ Quiet
    \/ \E r \in Member, bal \in Ballot, dec \in Decree : LogsPrepare(r, bal, dec)
    \/ \E r \in Member, vote \in Vote : LogsVote(r, vote)

\* RestoreSound, with the maximum that RestoredBallot chooses made explicit.
Durable(l, vote, bal) ==
    /\ LoggedVote(l, Len(l)).bal = vote.bal
    /\ LoggedVote(l, Len(l)).dec = vote.dec
    /\ bal \in ReplayedBallots(l)
    /\ \A c \in ReplayedBallots(l) : BallotLeq(c, bal)

SequentialAt(l, i) ==
    LET before == LoggedVote(l, i - 1)
    IN  /\ l[i].kind = "Vote" => IsNextDecree(l[i], before.dec, before.bal)
        /\ l[i].kind = "Prepare" => l[i].dec >= before.dec

\* The inductive invariant.
DurabilityInv ==
    /\ \A r \in Member : Durable(log[r], maxAccepted[r], maxBallot[r])
    /\ \A r \in Member : \A i \in 1..Len(log[r]) : SequentialAt(log[r], i)
    /\ LearnAligned
    /\ PromiseCoversVote

\* A record at or above the last vote's decree is replayed, and no record
\* before it is affected.
LEMMA ReplayedAppend ==
    ASSUME MaximaExist, NEW l \in Seq(Record), NEW rec \in Record,
           rec.dec >= LoggedVote(l, Len(l)).dec
    PROVE  ReplayedBallots(Append(l, rec)) = ReplayedBallots(l) \cup {rec.bal}
<1> DEFINE k == Append(l, rec)
<1>1. /\ Len(l) \in Nat
      /\ Len(k) = Len(l) + 1
      /\ k[Len(l) + 1] = rec
      /\ \A i \in 1..Len(l) : k[i] = l[i]
  OBVIOUS
<1>2. \A n \in 0..Len(l) : LoggedVote(k, n) = LoggedVote(l, n)
  BY Zenon, LoggedVoteAppend
<1> HIDE DEF k
<1>3. ASSUME NEW i \in 1..Len(l)
      PROVE  i \in Replayed(k) <=> i \in Replayed(l)
  <2>1. i - 1 \in 0..Len(l) /\ i \in 1..Len(k)
    BY <1>1
  <2>2. LoggedVote(k, i - 1) = LoggedVote(l, i - 1)
    BY Zenon, <1>2, <2>1
  <2> QED
    BY Zenon, <1>1, <2>1, <2>2 DEF Replayed
<1>4. Len(l) + 1 \in Replayed(k)
  <2>1. (Len(l) + 1) - 1 = Len(l) /\ Len(l) \in 0..Len(l)
    BY <1>1
  <2>2. LoggedVote(k, (Len(l) + 1) - 1) = LoggedVote(l, Len(l))
    BY Zenon, <1>2, <2>1
  <2> QED
    BY <1>1, <2>2 DEF Replayed
<1>5. Replayed(k) = Replayed(l) \cup {Len(l) + 1}
  BY <1>1, <1>3, <1>4 DEF Replayed
<1>6. \A i \in Replayed(l) : k[i] = l[i]
  BY Zenon, <1>1 DEF Replayed
<1>7. ReplayedBallots(k) = ReplayedBallots(l) \cup {rec.bal}
  BY <1>1, <1>5, <1>6 DEF ReplayedBallots
<1> QED
  BY Zenon, <1>7 DEF k

\* A record that replay reads and that raises m_maxBallot to its ballot keeps
\* memory and log in agreement.
LEMMA DurableAppend ==
    ASSUME MaximaExist, NEW l \in Seq(Record), NEW rec \in Record,
           NEW vote \in Vote, NEW bal \in Ballot,
           Durable(l, vote, bal), rec.dec >= vote.dec
    PROVE  /\ MaxOf(bal, rec.bal) \in ReplayedBallots(Append(l, rec))
           /\ \A c \in ReplayedBallots(Append(l, rec)) :
                  BallotLeq(c, MaxOf(bal, rec.bal))
<1>1. ReplayedBallots(Append(l, rec)) = ReplayedBallots(l) \cup {rec.bal}
  BY Zenon, ReplayedAppend DEF Durable
<1>2. ReplayedBallots(l) \subseteq Ballot
  <2>1. \A i \in Replayed(l) : l[i] \in Record
    BY DEF Replayed
  <2> QED
    BY Zenon, <2>1, ZeroIsLeast DEF Record, ReplayedBallots
<1>3. rec.bal \in Ballot
  BY Zenon DEF Record
<1>4. \A c \in ReplayedBallots(l) : BallotLeq(c, MaxOf(bal, rec.bal))
  BY <1>2, <1>3, MaxOfIsMax, BallotOrder DEF Durable
<1> QED
  BY ZenonT(40), <1>1, <1>3, <1>4, MaxOfIsMax DEF Durable

\* A record that follows the last vote keeps a log sequential.
LEMMA SequentialAppend ==
    ASSUME MaximaExist, NEW l \in Seq(Record), NEW rec \in Record,
           \A i \in 1..Len(l) : SequentialAt(l, i),
           LET before == LoggedVote(l, Len(l))
           IN  /\ rec.kind = "Vote" => IsNextDecree(rec, before.dec, before.bal)
               /\ rec.kind = "Prepare" => rec.dec >= before.dec
    PROVE  \A i \in 1..Len(Append(l, rec)) : SequentialAt(Append(l, rec), i)
<1> DEFINE k == Append(l, rec)
<1>1. /\ Len(l) \in Nat
      /\ Len(k) = Len(l) + 1
      /\ k[Len(l) + 1] = rec
      /\ \A i \in 1..Len(l) : k[i] = l[i]
  OBVIOUS
<1>2. \A n \in 0..Len(l) : LoggedVote(k, n) = LoggedVote(l, n)
  BY Zenon, LoggedVoteAppend
<1> HIDE DEF k
<1>3. ASSUME NEW i \in 1..Len(l) PROVE SequentialAt(k, i)
  <2>1. LoggedVote(k, i - 1) = LoggedVote(l, i - 1) /\ k[i] = l[i]
    BY <1>1, <1>2
  <2> QED
    BY Zenon, <2>1 DEF SequentialAt
<1>4. SequentialAt(k, Len(l) + 1)
  <2>1. (Len(l) + 1) - 1 = Len(l) /\ Len(l) \in 0..Len(l)
    BY <1>1
  <2> QED
    BY Zenon, <1>1, <1>2, <2>1 DEF SequentialAt
<1> QED
  BY <1>1, <1>3, <1>4 DEF k

\* An effect on a log keeps it durable and sequential.
LEMMA EffectPreserves ==
    ASSUME MaximaExist, TypeOK, TypeOK', DurabilityInv, LogEffect
    PROVE  /\ \A q \in Member : Durable(log[q], maxAccepted[q], maxBallot[q])'
           /\ \A q \in Member :
                  \A i \in 1..Len(log'[q]) : SequentialAt(log'[q], i)
           /\ PromiseCoversVote'
           /\ \A q \in Member : BallotLeq(maxBallot[q], maxBallot'[q])
<1>0. \A q \in Member : /\ log[q] \in Seq(Record) /\ maxBallot[q] \in Ballot
                        /\ maxAccepted[q] \in Vote /\ maxAccepted'[q] \in Vote
  BY Zenon DEF TypeOK
<1>1. CASE Quiet
  BY Zenon, <1>0, <1>1, BallotOrder
  DEF Quiet, Durable, DurabilityInv, PromiseCoversVote, TypeOK
<1>2. ASSUME NEW r \in Member, NEW bal \in Ballot, NEW dec \in Decree,
             LogsPrepare(r, bal, dec)
      PROVE  /\ \A q \in Member :
                    Durable(log[q], maxAccepted[q], maxBallot[q])'
             /\ \A q \in Member :
                    \A i \in 1..Len(log'[q]) : SequentialAt(log'[q], i)
             /\ PromiseCoversVote'
             /\ \A q \in Member : BallotLeq(maxBallot[q], maxBallot'[q])
  <2> DEFINE rec == PrepareRecord(bal, dec)
  <2>1. /\ rec \in Record /\ rec.dec = dec /\ rec.bal = bal
        /\ rec.kind = "Prepare"
    BY Zenon, ConstantTypes DEF PrepareRecord
  <2> HIDE DEF rec
  <2>2. /\ log' = [log EXCEPT ![r] = Append(log[r], rec)]
        /\ maxBallot' = [maxBallot EXCEPT ![r] = MaxOf(maxBallot[r], bal)]
        /\ maxAccepted' = maxAccepted
        /\ dec >= maxAccepted[r].dec
    BY Zenon, <1>2 DEF LogsPrepare, rec
  <2>3. /\ maxBallot'[r] = MaxOf(maxBallot[r], bal)
        /\ log'[r] = Append(log[r], rec)
        /\ \A q \in Member \ {r} : /\ maxBallot'[q] = maxBallot[q]
                                   /\ log'[q] = log[q]
    BY Zenon, <2>2 DEF TypeOK
  <2>4. LoggedVote(log'[r], Len(log'[r])) = LoggedVote(log[r], Len(log[r]))
    <3>1. Len(log'[r]) = Len(log[r]) + 1
      BY <1>0, <2>1, <2>3
    <3> QED
      BY ZenonT(40), <1>0, <2>1, <2>3, <3>1, LoggedVoteAppend
  <2>5. Durable(log'[r], maxAccepted'[r], maxBallot'[r])
    <3>1. Durable(log[r], maxAccepted[r], maxBallot[r])
      BY Zenon DEF DurabilityInv
    <3>2. /\ MaxOf(maxBallot[r], rec.bal) \in ReplayedBallots(log'[r])
          /\ \A c \in ReplayedBallots(log'[r]) :
                 BallotLeq(c, MaxOf(maxBallot[r], rec.bal))
      BY ZenonT(40), <1>0, <2>1, <2>2, <2>3, <3>1, DurableAppend
    <3> QED
      BY Zenon, <2>1, <2>2, <2>3, <2>4, <3>1, <3>2 DEF Durable
  <2>6. \A i \in 1..Len(log'[r]) : SequentialAt(log'[r], i)
    BY ZenonT(40), <1>0, <2>1, <2>2, <2>3, SequentialAppend DEF DurabilityInv, Durable
  <2>7. BallotLeq(maxBallot[r], maxBallot'[r])
    BY ZenonT(40), <1>0, <2>3, MaxOfIsMax
  <2>8. \A q \in Member : BallotLeq(maxBallot[q], maxBallot'[q])
    BY Zenon, <1>0, <2>3, <2>7, BallotOrder
  <2>9. PromiseCoversVote'
    <3> SUFFICES ASSUME NEW q \in Member
                 PROVE  BallotLeq(maxAccepted[q].bal, maxBallot'[q])
      BY Zenon, <2>2 DEF PromiseCoversVote
    <3>1. maxAccepted[q].bal \in Ballot /\ maxBallot'[q] \in Ballot
      BY Zenon DEF TypeOK, Vote
    <3> QED
      BY Zenon, <1>0, <2>8, <3>1, BallotOrder DEF DurabilityInv, PromiseCoversVote
  <2> QED
    BY ZenonT(40), <2>2, <2>3, <2>5, <2>6, <2>8, <2>9 DEF DurabilityInv
<1>3. ASSUME NEW r \in Member, NEW vote \in Vote, LogsVote(r, vote)
      PROVE  /\ \A q \in Member :
                    Durable(log[q], maxAccepted[q], maxBallot[q])'
             /\ \A q \in Member :
                    \A i \in 1..Len(log'[q]) : SequentialAt(log'[q], i)
             /\ PromiseCoversVote'
             /\ \A q \in Member : BallotLeq(maxBallot[q], maxBallot'[q])
  <2> DEFINE rec == VoteRecord(vote)
  <2>1. /\ rec \in Record /\ rec.dec = vote.dec /\ rec.bal = vote.bal
        /\ rec.val = vote.val /\ rec.kind = "Vote"
    BY Zenon, ConstantTypes DEF VoteRecord
  <2>2. /\ vote.bal \in Ballot /\ vote.dec \in Nat
        /\ maxAccepted[r].dec \in Nat /\ maxAccepted[r].bal \in Ballot
    BY Zenon, <1>0 DEF Vote, Decree
  <2> HIDE DEF rec
  <2>3. /\ log' = [log EXCEPT ![r] = Append(log[r], rec)]
        /\ maxBallot' = [maxBallot EXCEPT ![r] = MaxOf(maxBallot[r], vote.bal)]
        /\ maxAccepted' = [maxAccepted EXCEPT ![r] = vote]
        /\ IsNextDecree(vote, maxAccepted[r].dec, maxAccepted[r].bal)
    BY Zenon, <1>3 DEF LogsVote, rec
  <2>4. /\ maxBallot'[r] = MaxOf(maxBallot[r], vote.bal)
        /\ log'[r] = Append(log[r], rec)
        /\ maxAccepted'[r] = vote
        /\ \A q \in Member \ {r} : /\ maxBallot'[q] = maxBallot[q]
                                   /\ log'[q] = log[q]
                                   /\ maxAccepted'[q] = maxAccepted[q]
    BY ZenonT(40), <2>3 DEF TypeOK
  <2>5. LoggedVote(log'[r], Len(log'[r])) =
            [bal |-> vote.bal, dec |-> vote.dec, val |-> vote.val]
    <3>1. Len(log'[r]) = Len(log[r]) + 1
      BY <1>0, <2>1, <2>4
    <3> QED
      BY Zenon, <1>0, <2>1, <2>4, <3>1, LoggedVoteAppend
  <2>6. vote.dec >= maxAccepted[r].dec
    BY <2>2, <2>3 DEF IsNextDecree
  <2>7. Durable(log'[r], maxAccepted'[r], maxBallot'[r])
    <3>1. Durable(log[r], maxAccepted[r], maxBallot[r])
      BY Zenon DEF DurabilityInv
    <3>2. /\ MaxOf(maxBallot[r], rec.bal) \in ReplayedBallots(log'[r])
          /\ \A c \in ReplayedBallots(log'[r]) :
                 BallotLeq(c, MaxOf(maxBallot[r], rec.bal))
      BY ZenonT(40), <1>0, <2>1, <2>4, <2>6, <3>1, DurableAppend
    <3> QED
      BY <2>1, <2>4, <2>5, <3>2 DEF Durable
  <2>8. \A i \in 1..Len(log'[r]) : SequentialAt(log'[r], i)
    <3>1. IsNextDecree(rec, LoggedVote(log[r], Len(log[r])).dec,
                            LoggedVote(log[r], Len(log[r])).bal)
      BY Zenon, <2>1, <2>3 DEF IsNextDecree, DurabilityInv, Durable
    <3> QED
      BY ZenonT(40), <1>0, <2>1, <2>4, <3>1, SequentialAppend DEF DurabilityInv
  <2>9. BallotLeq(maxBallot[r], maxBallot'[r])
    BY ZenonT(40), <1>0, <2>2, <2>4, MaxOfIsMax
  <2>10. \A q \in Member : BallotLeq(maxBallot[q], maxBallot'[q])
    BY Zenon, <1>0, <2>4, <2>9, BallotOrder
  <2>11. PromiseCoversVote'
    BY <1>0, <2>2, <2>4, MaxOfIsMax DEF DurabilityInv, PromiseCoversVote
  <2> QED
    BY ZenonT(40), <2>4, <2>7, <2>8, <2>10, <2>11 DEF DurabilityInv
<1> QED
  BY Zenon, <1>1, <1>2, <1>3 DEF LogEffect

\* The vote that LearnMissing fabricates follows the accepted vote.
LEMMA MissingVoteIsNext ==
    ASSUME TypeOK, DurabilityInv, NEW r \in Member, LearnMissing(r)
    PROVE  /\ MissingVote(r) \in Vote
           /\ MissingVote(r).dec = maxAccepted[r].dec + 1
           /\ learn[r].last # NoVote
           /\ IsNextDecree(MissingVote(r), maxAccepted[r].dec,
                           maxAccepted[r].bal)
<1>1. /\ MoreToLearn(r)
      /\ ValidVote(r)
      /\ ~BallotLess(NextVote(r).bal, maxAccepted[r].bal)
      /\ ~IsNextDecree(NextVote(r), maxAccepted[r].dec, maxAccepted[r].bal)
  BY Zenon DEF LearnMissing
<1>2. NextVote(r) \in Vote /\ maxAccepted[r] \in Vote
  BY Zenon, <1>1, NextRecordType DEF TypeOK
<1>3. BallotLeq(maxAccepted[r].bal, NextVote(r).bal)
  BY Zenon, <1>1, <1>2, BallotOrder DEF Vote
<1>4. NextVote(r).dec # maxAccepted[r].dec
  BY Zenon, <1>1, <1>3 DEF IsNextDecree
<1>5. /\ learn[r].last # NoVote
      /\ NextVote(r).dec = maxAccepted[r].dec + 1
  BY Zenon, <1>1, <1>4 DEF ValidVote
<1> QED
  BY Zenon, <1>2, <1>5 DEF MissingVote, Vote, IsNextDecree

-----------------------------------------------------------------------------
(* The steps of one replica. *)

StepOf(r) ==
    \/ TimerStartInitializing(r)
    \/ \E q \in Member : StatusStep(r, q)
    \/ LearnStep(r)
    \/ MessageStep(r)
    \/ \E val \in AnyValue : SendNextVote(r, val)
    \/ SendRelinquishVote(r)
    \/ Restart(r)
=============================================================================
