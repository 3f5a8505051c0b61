--------------------------- MODULE PrimaryProofs ----------------------------
(***************************************************************************)
(* Every step only adds to what the votes rest on, and leaves candidates   *)
(* and primaries with what they have to know.                              *)
(***************************************************************************)
EXTENDS ElectionProofs

\* The provers get more than their default time.
USE SMTT(40), ZenonT(40)

-----------------------------------------------------------------------------
(* What a step adds. *)

\* A replica votes and prepares under its own ballots, and accepts nothing
\* below its promise.
LEMMA NewMessages ==
    ASSUME Base, NEW r \in Member, KindOf(r)
    PROVE  /\ msgs \subseteq msgs'
           /\ \A m \in msgs' \ msgs :
                  m.type \in {"Vote", "Prepare"} => m.bal.mem = r
           /\ \A m \in Proposals(msgs') \ Proposals(msgs) :
                  \E v \in Vote, rp \in BOOLEAN :
                      Proposes(r, v, rp) /\ m = VoteMsg(v, rp)
           /\ \A q : \A c \in Casts(msgs', q) \ Casts(msgs, q) :
                  /\ q = r /\ ~BallotLess(c.bal, maxBallot[r])
                  /\ c.bal = maxAccepted'[r].bal /\ c.dec = maxAccepted'[r].dec
           /\ \A m \in Accepted(msgs') \ Accepted(msgs) :
                  /\ m.src # m.bal.mem
                  /\ \E n \in Proposals(msgs) : n.bal = m.bal /\ n.dec = m.dec
           /\ \A m \in msgs' \ msgs :
                  /\ m.type = "Prepare" => QuietNews(r)
                  /\ m.type = "PrepareAccepted" => Joins(r)
<1> DEFINE Goal ==
        /\ msgs \subseteq msgs'
        /\ \A m \in msgs' \ msgs :
               m.type \in {"Vote", "Prepare"} => m.bal.mem = r
        /\ \A m \in Proposals(msgs') \ Proposals(msgs) :
               \E v \in Vote, rp \in BOOLEAN :
                   Proposes(r, v, rp) /\ m = VoteMsg(v, rp)
        /\ \A q : \A c \in Casts(msgs', q) \ Casts(msgs, q) :
               /\ q = r /\ ~BallotLess(c.bal, maxBallot[r])
               /\ c.bal = maxAccepted'[r].bal /\ c.dec = maxAccepted'[r].dec
        /\ \A m \in Accepted(msgs') \ Accepted(msgs) :
               /\ m.src # m.bal.mem
               /\ \E n \in Proposals(msgs) : n.bal = m.bal /\ n.dec = m.dec
        /\ \A m \in msgs' \ msgs :
               /\ m.type = "Prepare" => QuietNews(r)
               /\ m.type = "PrepareAccepted" => Joins(r)
<1>0. maxAccepted \in [Member -> Vote]
  BY Zenon DEF Base, TypeOK
<1>1. ASSUME QuietNews(r) PROVE Goal
  BY Zenon, <1>1 DEF QuietNews, Proposals, Casts, Accepted
<1>2. CASE Listens(r) \/ Restores(r)
  BY ZenonT(40), <1>1, <1>2 DEF Listens, Restores
<1>3. CASE Passes(r)
  BY ZenonT(40), <1>1, <1>3 DEF Passes, QuietNews
<1>4. CASE Joins(r)
  <2>1. PICK m \in Asked(msgs) :
            msgs' = msgs \cup
                        {PrepareAcceptedMsg(r, m.bal, m.dec, maxAccepted[r])}
    BY ZenonT(40), <1>4 DEF Joins
  <2>2. PrepareAcceptedMsg(r, m.bal, m.dec, maxAccepted[r]).type
            = "PrepareAccepted"
    BY ZenonT(40) DEF PrepareAcceptedMsg
  <2> QED
    BY ZenonT(40), <1>4, <2>1, <2>2 DEF Proposals, Casts, Accepted
<1>5. ASSUME NEW v \in Vote, NEW rp \in BOOLEAN, Proposes(r, v, rp)
      PROVE  Goal
  <2> DEFINE n == VoteMsg(v, rp)
  <2>1. /\ msgs' = msgs \cup {n} /\ n.type = "Vote" /\ n.bal = v.bal
        /\ n.dec = v.dec /\ v.bal.mem = r /\ v.bal = maxBallot[r]
        /\ maxAccepted'[r] = v
    BY ZenonT(40), <1>0, <1>5 DEF Proposes, VoteMsg
  <2>2. ~BallotLess(v.bal, v.bal)
    BY ZenonT(40), BallotOrder DEF Vote
  <2>3. /\ Proposals(msgs') \ Proposals(msgs) \subseteq {n}
        /\ Accepted(msgs') \subseteq Accepted(msgs)
        /\ \A q : \A c \in Casts(msgs', q) \ Casts(msgs, q) : c = n /\ q = r
    <3> HIDE DEF n
    <3> QED
      BY ZenonT(40), <2>1 DEF Proposals, Accepted, Casts
  <2> QED
    BY <1>5, <2>1, <2>2, <2>3
<1>6. ASSUME NEW v \in Vote, Accepts(r, v) PROVE Goal
  <2>1. CASE QuietNews(r)
    BY <1>1, <2>1
  <2>2. CASE ~QuietNews(r)
    <3> DEFINE n == VoteAcceptedMsg(r, v.bal, v.dec)
    <3>1. /\ msgs' = msgs \cup {n} /\ n.type = "VoteAccepted" /\ n.src = r
          /\ n.bal = v.bal /\ n.dec = v.dec
          /\ v.bal.mem # r /\ ~BallotLess(v.bal, maxBallot[r])
          /\ \E m \in Proposals(msgs) : m.bal = v.bal /\ m.dec = v.dec
          /\ maxAccepted'[r] = v
      BY <1>0, <1>6, <2>2 DEF Accepts, VoteAcceptedMsg
    <3> HIDE DEF n
    <3>2. /\ Proposals(msgs') \subseteq Proposals(msgs)
          /\ Accepted(msgs') \ Accepted(msgs) \subseteq {n}
          /\ \A q : \A c \in Casts(msgs', q) \ Casts(msgs, q) : c = n /\ q = r
      BY <3>1 DEF Proposals, Accepted, Casts
    <3> QED
      BY <3>1, <3>2
  <2> QED
    BY <2>1, <2>2
<1> QED
  BY ZenonT(40), <1>2, <1>3, <1>4, <1>5, <1>6 DEF KindOf

\* Messages are only added, promises only grow.
LEMMA StepIsLater ==
    ASSUME MaximaExist, Base, TypeOK', LogEffect, NEW r \in Member, KindOf(r)
    PROVE  Later(msgs, maxBallot, msgs', maxBallot')
<1>1. \A q \in Member : BallotLeq(maxBallot[q], maxBallot'[q])
  BY ZenonT(40), EffectPreserves DEF Base
<1>2. /\ msgs \subseteq msgs'
      /\ \A q : \A c \in Casts(msgs', q) \ Casts(msgs, q) :
             q = r /\ ~BallotLess(c.bal, maxBallot[r])
  BY ZenonT(40), NewMessages
<1> QED
  BY <1>1, <1>2 DEF Later

-----------------------------------------------------------------------------
(* Roles that a step leaves alone. *)

\* A candidate that hears nothing stays one, whatever the others send.
LEMMA CandidateStays ==
    ASSUME Base, TypeOK', Later(msgs, maxBallot, msgs', maxBallot'),
           NEW q \in Member, CandidateAt(q),
           maxAccepted[q].dec <= maxAccepted'[q].dec,
           state'[q] = "Preparing" /\ learn'[q] = NotLearning
               /\ maxBallot'[q].mem = q =>
               /\ state[q] = "Preparing" /\ learn[q] = NotLearning
               /\ maxBallot'[q] = maxBallot[q]
               /\ oldFreshest'[q] = oldFreshest[q]
               /\ responses'[q] = responses[q]
               /\ \A m \in msgs' \ msgs :
                      m.type \in {"Vote", "Prepare"} => m.bal # maxBallot[q]
    PROVE  CandidateAt(q)'
<1> SUFFICES ASSUME state'[q] = "Preparing", learn'[q] = NotLearning,
                    maxBallot'[q].mem = q
             PROVE  /\ oldFreshest'[q] \in Vote
                    /\ Genuine(msgs', oldFreshest'[q])
                    /\ oldFreshest'[q].dec <= maxAccepted'[q].dec
                    /\ BallotLeq(oldFreshest'[q].bal, maxBallot'[q])
                    /\ \A m \in Proposals(msgs') : m.bal # maxBallot'[q]
                    /\ \A m \in Asked(msgs') :
                           m.bal = maxBallot'[q] => m.dec <= oldFreshest'[q].dec
                    /\ \A p \in responses'[q] \cup {q} :
                           /\ BallotLeq(maxBallot'[q], maxBallot'[p])
                           /\ Covered(msgs', p, maxBallot'[q], oldFreshest'[q])
  BY ZenonT(40) DEF CandidateAt
<1>1. /\ maxBallot'[q] = maxBallot[q] /\ oldFreshest'[q] = oldFreshest[q]
      /\ responses'[q] = responses[q]
      /\ \A m \in msgs' \ msgs :
             m.type \in {"Vote", "Prepare"} => m.bal # maxBallot[q]
  BY ZenonT(40)
<1>2. /\ oldFreshest[q] \in Vote /\ Genuine(msgs, oldFreshest[q])
      /\ oldFreshest[q].dec <= maxAccepted[q].dec
      /\ BallotLeq(oldFreshest[q].bal, maxBallot[q])
      /\ \A m \in Proposals(msgs) : m.bal # maxBallot[q]
      /\ \A m \in Asked(msgs) :
             m.bal = maxBallot[q] => m.dec <= oldFreshest[q].dec
      /\ \A p \in responses[q] \cup {q} :
             /\ BallotLeq(maxBallot[q], maxBallot[p])
             /\ Covered(msgs, p, maxBallot[q], oldFreshest[q])
  BY <1>1 DEF CandidateAt
<1>3. /\ msgs \in SUBSET Message /\ msgs' \in SUBSET Message
      /\ maxBallot \in [Member -> Ballot] /\ maxBallot' \in [Member -> Ballot]
      /\ responses[q] \in SUBSET Member /\ msgs \subseteq msgs'
      /\ maxAccepted[q].dec \in Nat /\ maxAccepted'[q].dec \in Nat
      /\ oldFreshest[q].dec \in Nat
  BY ZenonT(40), <1>2 DEF Base, TypeOK, Later, Vote, Decree
<1>4. Genuine(msgs', oldFreshest[q])
  BY <1>2, <1>3, MoreMessages
<1>5. /\ \A m \in Proposals(msgs') : m.bal # maxBallot[q]
      /\ \A m \in Asked(msgs') :
             m.bal = maxBallot[q] => m.dec <= oldFreshest[q].dec
  BY <1>1, <1>2 DEF Proposals, Asked
<1>6. ASSUME NEW p \in responses[q] \cup {q}
      PROVE  /\ BallotLeq(maxBallot[q], maxBallot'[p])
             /\ Covered(msgs', p, maxBallot[q], oldFreshest[q])
  <2>1. p \in Member /\ BallotLeq(maxBallot[p], maxBallot'[p])
    BY <1>3 DEF Later
  <2>2. /\ maxBallot[q] \in Ballot /\ maxBallot[p] \in Ballot
        /\ maxBallot'[p] \in Ballot
    BY <1>3, <2>1
  <2>3. BallotLeq(maxBallot[q], maxBallot'[p])
    BY ZenonT(40), <1>2, <2>1, <2>2, BallotOrder
  <2> QED
    BY ZenonT(40), <1>2, <1>3, <2>1, <2>2, <2>3, CoveredStable
<1>7. oldFreshest[q].dec <= maxAccepted'[q].dec
  <2>1. /\ oldFreshest[q].dec <= maxAccepted[q].dec
        /\ oldFreshest[q].dec \in Nat
        /\ maxAccepted[q].dec \in Nat /\ maxAccepted'[q].dec \in Nat
    BY ZenonT(40), <1>2, <1>3
  <2> QED
    BY <2>1
<1> QED
  BY ZenonT(40), <1>1, <1>2, <1>4, <1>5, <1>6, <1>7

\* So does a primary.
LEMMA PrimaryStays ==
    ASSUME NEW q \in Member, PrimaryAt(q), msgs \subseteq msgs',
           state'[q] = "StablePrimary" =>
               /\ state[q] = "StablePrimary" /\ learn'[q] = learn[q]
               /\ maxBallot'[q] = maxBallot[q]
               /\ maxAccepted'[q] = maxAccepted[q]
               /\ outstanding'[q] = outstanding[q]
               /\ relinquish'[q] = relinquish[q]
               /\ responses'[q] = responses[q]
               /\ lastPassed'[q] = lastPassed[q]
    PROVE  PrimaryAt(q)'
<1>1. /\ \A b, d : ChosenIn(msgs, b, d) => ChosenIn(msgs', b, d)
      /\ \A b, d, v : Proposed(msgs, b, d, v) => Proposed(msgs', b, d, v)
      /\ \A p, b, d : CastFor(msgs, p, b, d) => CastFor(msgs', p, b, d)
  BY ZenonT(40), MoreMessages DEF CastFor
<1> QED
  BY ZenonT(40), <1>1 DEF PrimaryAt, Owns

\* The replicas that do not take the step keep their roles.
LEMMA OthersKeepRoles ==
    ASSUME Base, RoleInv, TypeOK', LogEffect,
           Later(msgs, maxBallot, msgs', maxBallot'),
           NEW r \in Member, StepOf(r), KindOf(r), NEW q \in Member \ {r}
    PROVE  q \notin responses'[q] /\ CandidateAt(q)' /\ PrimaryAt(q)'
<1>1. Untouched(q) /\ msgs \subseteq msgs'
  BY ZenonT(40), OthersUntouched DEF Base, Later
<1>2. q \notin responses[q] /\ CandidateAt(q) /\ PrimaryAt(q)
  BY ZenonT(40) DEF RoleInv
<1>3. \A m \in msgs' \ msgs : m.type \in {"Vote", "Prepare"} => m.bal.mem = r
  BY ZenonT(40), NewMessages
<1>4. maxAccepted[q].dec <= maxAccepted'[q].dec
  BY ZenonT(40), AcceptedGrows DEF Base
<1>5. CandidateAt(q)'
  BY ZenonT(40), <1>1, <1>2, <1>3, <1>4, CandidateStays DEF Untouched
<1>6. PrimaryAt(q)'
  BY <1>1, <1>2, PrimaryStays DEF Untouched
<1> QED
  BY <1>1, <1>2, <1>5, <1>6 DEF Untouched

-----------------------------------------------------------------------------
(* The replica that takes the step. *)

RoleAt(r) == r \notin responses[r] /\ CandidateAt(r) /\ PrimaryAt(r)

\* A replica that leaves both roles, or is in none.
LEMMA NoRole ==
    ASSUME NEW r \in Member, r \notin responses'[r],
           state'[r] # "StablePrimary",
           state'[r] = "Preparing" => learn'[r] # NotLearning
    PROVE  RoleAt(r)'
  BY ZenonT(40) DEF RoleAt, CandidateAt, PrimaryAt

\* StartPreparing: the new ballot is above the promise, so the replica has
\* neither voted nor accepted anything under it.
LEMMA CandidateStarts ==
    ASSUME Base, VotingInv, TypeOK', Later(msgs, maxBallot, msgs', maxBallot'),
           NEW r \in Member, NEW q \in Member, StatusPrepare(r, q)
    PROVE  RoleAt(r)'
<1> DEFINE acc == maxAccepted[r]
<1>1. PICK seen \in SeenBallot :
          /\ state' = [state EXCEPT ![r] = "Preparing"]
          /\ responses' = [responses EXCEPT ![r] = {}]
          /\ oldFreshest' = [oldFreshest EXCEPT ![r] = acc]
          /\ Send(PrepareMsg(NewBallot(r, seen), acc.dec))
          /\ LogPrepare(r, NewBallot(r, seen), acc.dec)
  BY ZenonT(40) DEF StatusPrepare, StartPreparing
<1> DEFINE b == NewBallot(r, seen)
<1>2. /\ maxBallot[r] \in Ballot /\ acc \in Vote /\ acc.bal \in Ballot
      /\ acc.dec \in Nat /\ msgs \in SUBSET Message /\ maxAccepted' = maxAccepted
      /\ maxBallot \in [Member -> Ballot] /\ oldFreshest'[r] = acc
      /\ responses'[r] = {} /\ state'[r] = "Preparing"
  BY <1>1 DEF Base, TypeOK, Vote, Decree, StatusPrepare
<1>3. b \in Ballot /\ b.mem = r /\ BallotLess(maxBallot[r], b)
  <2>1. seen \in Ballot
    BY <1>2, ZeroIsLeast DEF SeenBallot, Message
  <2>2. b \in Ballot
    BY ZenonT(40), NewBallotType DEF Base
  <2>3. seen.id \in Nat /\ maxBallot[r].id \in Nat
    BY <1>2, <2>1 DEF Ballot
  <2>4. b.mem = r /\ maxBallot[r].id < b.id
    BY <2>3 DEF NewBallot, BallotLess
  <2> QED
    BY ZenonT(40), <2>2, <2>4 DEF BallotLess
<1>4. maxBallot'[r] = b
  <2>1. b # maxBallot[r]
    BY <1>2, <1>3, BallotOrder
  <2> QED
    BY <1>1, <1>2, <1>3, <2>1 DEF LogPrepare, MaxOf
<1>5. BallotLess(acc.bal, b)
  <2>1. BallotLeq(acc.bal, maxBallot[r])
    BY ZenonT(40) DEF Base, DurabilityInv, PromiseCoversVote
  <2> QED
    BY ZenonT(40), <1>2, <1>3, <2>1, BallotOrder
<1>6. msgs' = msgs \cup {PrepareMsg(b, acc.dec)}
  BY ZenonT(40), <1>1 DEF Send
<1> HIDE DEF b, acc
<1>7. /\ Proposals(msgs') = Proposals(msgs)
      /\ Asked(msgs') = Asked(msgs) \cup {PrepareMsg(b, acc.dec)}
      /\ Casts(msgs', r) = Casts(msgs, r)
  BY <1>6 DEF Proposals, Asked, Casts, PrepareMsg
<1>8. \A c \in Casts(msgs, r) :
          BallotLeq(c.bal, acc.bal) /\ c.dec <= acc.dec /\ c.dec \in Nat
  BY ZenonT(40), <1>2, CastTypes DEF VotingInv, CastInv, acc, Decree
<1>9. ASSUME NEW m \in Proposals(msgs'), m.bal = b PROVE FALSE
  <2>1. m \in Casts(msgs, r)
    BY ZenonT(40), <1>3, <1>7, <1>9 DEF Proposals, Casts
  <2> QED
    BY ZenonT(40), <1>2, <1>3, <1>5, <1>8, <1>9, <2>1, BallotOrder
<1>10. ASSUME NEW m \in Asked(msgs'), m.bal = b PROVE m.dec <= acc.dec
  <2>1. CASE m \in Asked(msgs)
    BY ZenonT(40), <1>3, <1>10, <2>1 DEF VotingInv, PromiseInv, acc
  <2> QED
    BY <1>2, <1>7, <2>1 DEF PrepareMsg
<1>11. Covered(msgs', r, b, acc)
  BY <1>2, <1>7, <1>8 DEF Covered
<1>12. Genuine(msgs', acc)
  BY ZenonT(40), MoreMessages DEF VotingInv, GenuineInv, Later, acc
<1>13. BallotLeq(acc.bal, b) /\ BallotLeq(b, b) /\ acc.dec <= maxAccepted'[r].dec
  BY <1>2, <1>5 DEF BallotLeq, acc
<1>14. CandidateAt(r)'
  BY ZenonT(40), <1>2, <1>4, <1>9, <1>10, <1>11, <1>12, <1>13 DEF CandidateAt
<1> QED
  BY <1>2, <1>14 DEF RoleAt, PrimaryAt

\* SendVote: the vote that is outstanding is the one the primary holds.
LEMMA PrimaryVotes ==
    ASSUME Base, NEW r \in Member, NEW v \in Vote, NEW rp \in BOOLEAN,
           SendVote(r, v, rp), v.bal = maxBallot[r], maxBallot[r].mem = r,
           state'[r] = "StablePrimary", learn'[r] = NotLearning
    PROVE  RoleAt(r)'
<1>1. /\ outstanding'[r] = v /\ responses'[r] = {} /\ maxAccepted'[r] = v
      /\ msgs' = msgs \cup {VoteMsg(v, rp)}
  BY ZenonT(40) DEF SendVote, LogVote, Send, Base, TypeOK
<1>2. maxBallot'[r] = maxBallot[r]
  BY ZenonT(40) DEF SendVote, LogVote, MaxOf, Base, TypeOK
<1>3. v # NoVote
  BY DEF Vote, Decree, NoVote
<1>4. Proposed(msgs', v.bal, v.dec, v.val)
  <2> DEFINE n == VoteMsg(v, rp)
  <2>1. n.type = "Vote" /\ n.bal = v.bal /\ n.dec = v.dec /\ n.val = v.val
    BY Zenon DEF VoteMsg
  <2>2. n \in Proposals(msgs')
    BY ZenonT(40), <1>1, <2>1 DEF Proposals
  <2> QED
    BY ZenonT(40), <2>1, <2>2 DEF Proposed
<1> QED
  BY ZenonT(40), <1>1, <1>2, <1>3, <1>4 DEF RoleAt, CandidateAt, PrimaryAt, Owns

\* HandlePrepareAcceptedMsg: one more member has joined, or a quorum has.
LEMMA CandidateHears ==
    ASSUME Base, VotingInv, TypeOK', NEW r \in Member,
           NEW m \in Sent("PrepareAccepted"), HandlePrepareAcceptedMsg(r, m)
    PROVE  RoleAt(r)'
<1> DEFINE f == Fresher(r, m.vote)
           answered == responses[r] \cup {m.src}
<1>1. /\ learn[r] = NotLearning /\ state[r] = "Preparing" /\ m.bal.mem = r
      /\ IsSameDecree(m, maxAccepted[r].dec, maxBallot[r])
      /\ BallotLeq(m.vote.bal, m.bal) /\ learn' = learn
  BY ZenonT(40) DEF HandlePrepareAcceptedMsg
<1>2. /\ m.src \in Member \ {r} /\ maxBallot[r].mem = r
      /\ maxAccepted[r].bal # maxBallot[r]
      /\ \A n \in Proposals(msgs) : n.bal # maxBallot[r]
      /\ \A n \in Asked(msgs) : n.bal = maxBallot[r] => n.dec <= f.dec
      /\ f \in Vote /\ Genuine(msgs, f) /\ f.dec = maxAccepted[r].dec
      /\ BallotLeq(f.bal, maxBallot[r])
      /\ \A q \in answered \cup {r} :
             /\ BallotLeq(maxBallot[r], maxBallot[q])
             /\ Covered(msgs, q, maxBallot[r], f)
  BY <1>1, CandidateAnswered
<1> HIDE DEF f
<1>3. CASE ~(Cardinality(answered) >= QuorumSize - 1)
  <2>2. /\ responses' = [responses EXCEPT ![r] = answered]
        /\ oldFreshest' = [oldFreshest EXCEPT ![r] = f]
        /\ UNCHANGED <<state, maxBallot, maxAccepted, msgs>>
    BY ZenonT(40), <1>3 DEF HandlePrepareAcceptedMsg, f
  <2>3. /\ responses'[r] = answered /\ oldFreshest'[r] = f
        /\ r \notin answered /\ maxAccepted[r].dec <= maxAccepted[r].dec
    <3>1. r \notin responses[r]
      BY ZenonT(40) DEF VotingInv, RoleInv
    <3>2. responses'[r] = answered /\ oldFreshest'[r] = f
      BY ZenonT(40), <2>2 DEF Base, TypeOK
    <3>3. maxAccepted[r].dec \in Nat
      BY ZenonT(40) DEF Base, TypeOK, Vote, Decree
    <3>4. m.src # r
      BY ZenonT(40), <1>2
    <3> QED
      BY ZenonT(40), <3>1, <3>2, <3>3, <3>4, NextNumber
  <2>4. CandidateAt(r)'
    BY ZenonT(40), <1>2, <2>2, <2>3 DEF CandidateAt
  <2> QED
    BY ZenonT(40), <1>1, <2>2, <2>3, <2>4 DEF RoleAt, PrimaryAt
<1>4. CASE Cardinality(answered) >= QuorumSize - 1 /\ relinquish[r]
  <2>1. /\ state' = [state EXCEPT ![r] = "StablePrimary"]
        /\ outstanding' = [outstanding EXCEPT ![r] = NoVote]
        /\ responses' = [responses EXCEPT ![r] = {}]
        /\ UNCHANGED <<maxBallot, relinquish>>
    BY ZenonT(40), <1>4 DEF HandlePrepareAcceptedMsg, StartBeingStablePrimary
  <2>2. /\ state'[r] = "StablePrimary" /\ outstanding'[r] = NoVote
        /\ responses'[r] = {}
    BY <2>1 DEF Base, TypeOK
  <2> QED
    BY ZenonT(40), <1>1, <1>2, <1>4, <2>1, <2>2 DEF RoleAt, CandidateAt, PrimaryAt
<1>5. CASE Cardinality(answered) >= QuorumSize - 1 /\ ~relinquish[r]
  <2> DEFINE v == [bal |-> maxBallot[r], dec |-> NextVoteDecree(r),
                   val |-> f.val]
  <2>1. /\ state' = [state EXCEPT ![r] = "StablePrimary"]
        /\ SendVote(r, v, FALSE)
    BY ZenonT(40), <1>5 DEF HandlePrepareAcceptedMsg, StartBeingStablePrimary, f
  <2>2. v \in Vote /\ v.bal = maxBallot[r]
    BY ZenonT(40), <1>2 DEF NextVoteDecree, Vote, Base, TypeOK
  <2>3. state'[r] = "StablePrimary" /\ learn'[r] = NotLearning
    BY <1>1, <2>1 DEF Base, TypeOK
  <2>4. FALSE \in BOOLEAN
    BY ZenonT(40)
  <2> HIDE DEF v
  <2> QED
    BY ZenonT(40), <1>2, <2>1, <2>2, <2>3, <2>4, PrimaryVotes
<1> QED
  BY ZenonT(40), <1>3, <1>4, <1>5

\* HandleVoteMsg: a candidate that accepts a vote without becoming a secondary
\* stays under its own ballot only if the vote is below it.
LEMMA CandidateAccepts ==
    ASSUME Base, VotingInv, TypeOK', LogEffect,
           Later(msgs, maxBallot, msgs', maxBallot'),
           NEW r \in Member, NEW m \in Sent("Vote"), HandleVoteNext(r, m)
    PROVE  RoleAt(r)'
<1> DEFINE v == [bal |-> m.bal, dec |-> m.dec, val |-> m.val]
<1>1. /\ m.bal \in Ballot /\ maxBallot[r] \in Ballot
      /\ learn[r] = NotLearning /\ m.bal.mem # r
      /\ LogVote(r, v) /\ oldFreshest' = oldFreshest /\ learn' = learn
      /\ \/ msgs' = msgs \cup
                {NotAcceptedMsg(r, m.bal.mem, maxBallot[r], m.dec)}
         \/ msgs' = msgs \cup {VoteAcceptedMsg(r, m.bal, m.dec)}
      /\ \/ StartBeingStableSecondary(r)
         \/ ~AmPrimary(r) /\ UNCHANGED <<state, responses>>
  BY ZenonT(40), SentTypes
  DEF HandleVoteNext, ReceiveVote, LogAndAcceptVote, Send, Base, TypeOK
<1> HIDE DEF v
<1>2. CASE StartBeingStableSecondary(r)
  <2>1. state'[r] = "StableSecondary" /\ responses'[r] = {}
    BY ZenonT(40), <1>2 DEF StartBeingStableSecondary, Base, TypeOK
  <2> QED
    BY <2>1, NoRole
<1>3. CASE ~AmPrimary(r) /\ UNCHANGED <<state, responses>>
  <2>1. maxBallot'[r] \in {maxBallot[r], m.bal}
    <3>1. MaxOf(maxBallot[r], v.bal) \in {maxBallot[r], m.bal}
      BY ZenonT(40), <1>1, MaxOfIsMax DEF v
    <3> QED
      BY <1>1, <3>1 DEF LogVote, Base, TypeOK
  <2>2. \A n \in msgs' \ msgs : n.type \notin {"Vote", "Prepare"}
    <3>1. /\ NotAcceptedMsg(r, m.bal.mem, maxBallot[r], m.dec).type
                 \notin {"Vote", "Prepare"}
          /\ VoteAcceptedMsg(r, m.bal, m.dec).type \notin {"Vote", "Prepare"}
      BY ZenonT(40) DEF NotAcceptedMsg, VoteAcceptedMsg
    <3> QED
      BY ZenonT(40), <1>1, <3>1
  <2>3. maxAccepted[r].dec <= maxAccepted'[r].dec
    BY ZenonT(40), AcceptedGrows DEF Base
  <2>4. CandidateAt(r) /\ r \notin responses[r]
    BY ZenonT(40) DEF VotingInv, RoleInv
  <2>5. CandidateAt(r)'
    BY ZenonT(40), <1>1, <1>3, <2>1, <2>2, <2>3, <2>4, CandidateStays
  <2> QED
    BY ZenonT(40), <1>3, <2>4, <2>5 DEF RoleAt, PrimaryAt, AmPrimary
<1> QED
  BY <1>1, <1>2, <1>3

\* HandleVoteAcceptedMsg: one more member has accepted, or a quorum has.
LEMMA PrimaryHears ==
    ASSUME QuorumFacts,
           Base, VotingInv, NEW r \in Member, NEW m \in Sent("VoteAccepted"),
           HandleVoteAcceptedWait(r, m) \/ HandleVoteAcceptedQuorum(r, m)
    PROVE  RoleAt(r)'
<1>1. /\ ReceiveVoteAccepted(r, m)
      /\ responses' = [responses EXCEPT ![r] = @ \cup {m.src}]
      /\ UNCHANGED <<state, maxBallot, maxAccepted, oldFreshest, relinquish,
                     learn, msgs>>
  BY ZenonT(40) DEF HandleVoteAcceptedWait, HandleVoteAcceptedQuorum
<1>2. state[r] = "StablePrimary" /\ outstanding[r] # NoVote
  BY ZenonT(40), <1>1 DEF ReceiveVoteAccepted, AmPrimary
<1>3. /\ Owns(r) /\ m.src \in Member \ {r}
      /\ CastFor(msgs, m.src, maxAccepted[r].bal, maxAccepted[r].dec)
      /\ QuorumAccepted(r, m)
             => ChosenIn(msgs, maxAccepted[r].bal, maxAccepted[r].dec)
  BY ZenonT(40), <1>1, QuorumChooses
<1>4. /\ r \notin responses[r] /\ learn[r] = NotLearning /\ maxBallot[r].mem = r
      /\ \A q \in responses[r] :
             CastFor(msgs, q, maxAccepted[r].bal, maxAccepted[r].dec)
      /\ responses'[r] = responses[r] \cup {m.src}
  BY ZenonT(40), <1>1, <1>2 DEF VotingInv, RoleInv, PrimaryAt, Base, TypeOK
<1>5. Owns(r)'
  BY <1>1, <1>3 DEF Owns
<1>6. CASE HandleVoteAcceptedWait(r, m)
  <2>1. outstanding' = outstanding
    BY ZenonT(40), <1>6 DEF HandleVoteAcceptedWait
  <2> QED
    BY ZenonT(40), <1>1, <1>2, <1>3, <1>4, <1>5, <2>1 DEF RoleAt, CandidateAt, PrimaryAt
<1>7. CASE HandleVoteAcceptedQuorum(r, m)
  <2>1. /\ outstanding'[r] = NoVote /\ QuorumAccepted(r, m)
        /\ lastPassed'[r] = maxAccepted[r].dec
    BY ZenonT(40), <1>7 DEF HandleVoteAcceptedQuorum, AddToExecutionQueue, Base, TypeOK
  <2> QED
    BY ZenonT(40), <1>1, <1>2, <1>3, <1>4, <1>5, <2>1 DEF RoleAt, CandidateAt, PrimaryAt
<1> QED
  BY ZenonT(40), <1>6, <1>7

\* The replica that takes the step knows what its role asks for.
LEMMA OwnRole ==
    ASSUME QuorumFacts, Base, VotingInv, TypeOK', LogEffect,
           Later(msgs, maxBallot, msgs', maxBallot'),
           NEW r \in Member, StepOf(r)
    PROVE  RoleAt(r)'
<1>0. /\ r \notin responses[r] /\ CandidateAt(r) /\ PrimaryAt(r)
      /\ TypeOK /\ msgs \subseteq msgs'
      /\ maxAccepted[r].dec <= maxAccepted'[r].dec
  BY ZenonT(40), AcceptedGrows DEF VotingInv, RoleInv, Base, Later
<1>1. ASSUME StartInitializing(r) \/ StartBeingStableSecondary(r) \/ RestoreState(r)
      PROVE  RoleAt(r)'
  <2>1. /\ state'[r] \in {"Initializing", "StableSecondary"}
        /\ responses'[r] = {}
    BY <1>0, <1>1 DEF StartInitializing, StartBeingStableSecondary,
                      RestoreState, RestoreFrom, TypeOK
  <2> QED
    BY ZenonT(40), <2>1, NoRole
<1>2. CASE TimerStartInitializing(r)
  BY ZenonT(40), <1>1, <1>2 DEF TimerStartInitializing
<1>3. ASSUME NEW q \in Member, StatusStep(r, q) PROVE RoleAt(r)'
  <2>1. CASE StatusWait(r, q) \/ StatusLearn(r, q)
    <3>1. state'[r] = "Initializing" /\ responses' = responses
      BY ZenonT(40), <2>1 DEF StatusWait, StatusLearn
    <3> QED
      BY <1>0, <3>1, NoRole
  <2>2. CASE StatusSecondary(r, q) \/ StatusPrepareCrash(r, q)
    BY <1>1, <2>2 DEF StatusSecondary, StatusPrepareCrash
  <2>3. CASE StatusPrepare(r, q)
    BY <2>3, CandidateStarts
  <2>4. CASE StatusAhead(r, q)
    <3>1. /\ StartLearning(r, q) /\ state' = state /\ responses' = responses
          /\ state[r] # "StablePrimary"
      BY ZenonT(40), <2>4 DEF StatusAhead
    <3>2. learn'[r].src = q
      <4>1. PICK i : learn' = [learn EXCEPT ![r] =
                                   [src |-> q, pos |-> i, last |-> NoVote]]
        BY ZenonT(40), <3>1 DEF StartLearning
      <4> QED
        BY ZenonT(40), <1>0, <4>1 DEF TypeOK
    <3>3. learn'[r] # NotLearning
      BY <3>2, MemberAssumption DEF NotLearning
    <3> QED
      BY <1>0, <3>1, <3>3, NoRole
  <2> QED
    BY ZenonT(40), <1>3, <2>1, <2>2, <2>3, <2>4 DEF StatusStep
<1>4. CASE LearnStep(r)
  <2>1. learn[r] # NotLearning
    BY ZenonT(40), <1>4 DEF LearnStep, LearnPrepare, LearnSkip, LearnMissing, LearnAccept,
                LearnEnd, MoreToLearn
  <2>2. learn[r].src \in Member /\ state[r] # "StablePrimary"
    BY <1>0, <2>1 DEF TypeOK, Learning, PrimaryAt
  <2>3. ASSUME UNCHANGED <<state, responses>>,
               learn' = learn \/ \E last : Advance(r, last)
        PROVE  RoleAt(r)'
    <3>1. learn'[r].src = learn[r].src
      <4>1. ASSUME NEW last, Advance(r, last)
            PROVE  learn'[r].src = learn[r].src
        BY ZenonT(40), <1>0, <4>1 DEF Advance, TypeOK
      <4> QED
        BY <2>3, <4>1
    <3>2. learn'[r] # NotLearning
      BY <2>2, <3>1, MemberAssumption DEF NotLearning
    <3> QED
      BY ZenonT(40), <1>0, <2>2, <2>3, <3>2, NoRole
  <2>4. CASE LearnPrepare(r) \/ LearnSkip(r) \/ LearnMissing(r)
    BY ZenonT(40), <2>3, <2>4 DEF LearnPrepare, LearnSkip, LearnMissing
  <2>5. CASE LearnAccept(r)
    <3>1. \/ UNCHANGED <<state, responses>> /\ Advance(r, NextVote(r))
          \/ StartBeingStableSecondary(r)
      BY ZenonT(40), <2>5 DEF LearnAccept
    <3> QED
      BY <1>1, <2>3, <3>1
  <2>6. CASE LearnEnd(r)
    BY <1>1, <2>6 DEF LearnEnd
  <2> QED
    BY <1>4, <2>4, <2>5, <2>6 DEF LearnStep
<1>5. CASE MessageStep(r)
  <2>1. ASSUME NEW m, HandlePrepareLower(r, m) \/ HandleVoteLower(r, m)
        PROVE  RoleAt(r)'
    <3>1. /\ UNCHANGED <<state, outstanding, oldFreshest, responses,
                         relinquish, learn, maxBallot, maxAccepted, lastPassed>>
          /\ Reject(r, m)
      BY ZenonT(40), <2>1 DEF HandlePrepareLower, HandleVoteLower, volatile
    <3>2. \A n \in msgs' \ msgs : n.type \notin {"Vote", "Prepare"}
      <4> DEFINE k == NotAcceptedMsg(r, m.bal.mem, maxBallot[r],
                                     maxAccepted[r].dec)
      <4>1. k.type \notin {"Vote", "Prepare"}
        BY ZenonT(40) DEF NotAcceptedMsg
      <4>2. msgs' = msgs \cup {k}
        BY ZenonT(40), <3>1 DEF Reject, Send
      <4> HIDE DEF k
      <4> QED
        BY <4>1, <4>2
    <3>3. CandidateAt(r)'
      BY ZenonT(40), <1>0, <3>1, <3>2, CandidateStays
    <3>4. PrimaryAt(r)'
      BY <1>0, <3>1, PrimaryStays
    <3> QED
      BY <1>0, <3>1, <3>3, <3>4 DEF RoleAt
  <2>2. ASSUME NEW m, \/ HandlePrepareMsg(r, m) \/ HandleNotAcceptedMsg(r, m)
                      \/ HandleVoteBehind(r, m)
                      \/ HandleVoteAcceptedShutDown(r, m)
        PROVE  RoleAt(r)'
    BY ZenonT(40), <1>1, <2>2 DEF HandlePrepareMsg, HandleNotAcceptedMsg,
                      HandleVoteBehind, HandleVoteAcceptedShutDown
  <2> QED
    BY ZenonT(40), <1>5, <2>1, <2>2, CandidateHears, CandidateAccepts, PrimaryHears
    DEF MessageStep
<1>6. ASSUME NEW val \in AnyValue, NEW rp \in BOOLEAN, learn[r] = NotLearning,
             state[r] = "StablePrimary", UNCHANGED <<state, learn>>,
             SendVote(r, [bal |-> maxBallot[r], dec |-> NextVoteDecree(r),
                          val |-> val], rp)
      PROVE  RoleAt(r)'
  <2> DEFINE v == [bal |-> maxBallot[r], dec |-> NextVoteDecree(r), val |-> val]
  <2>1. v \in Vote /\ v.bal = maxBallot[r]
    <3>1. maxBallot[r] \in Ballot /\ maxAccepted[r].dec \in Nat \ {0}
      BY <1>0 DEF Vote, Decree, TypeOK
    <3>2. NextVoteDecree(r) \in Decree
      BY <3>1 DEF NextVoteDecree, Decree
    <3> QED
      BY ZenonT(40), <3>1, <3>2 DEF Vote
  <2>2. maxBallot[r].mem = r
    BY ZenonT(40), <1>0, <1>6 DEF PrimaryAt
  <2> QED
    BY ZenonT(40), <1>6, <2>1, <2>2, PrimaryVotes
<1>7. ASSUME NEW val \in AnyValue, SendNextVote(r, val) PROVE RoleAt(r)'
  BY ZenonT(40), <1>6, <1>7 DEF SendNextVote, AmPrimary
<1>8. CASE SendRelinquishVote(r)
  BY ZenonT(40), <1>6, <1>8 DEF SendRelinquishVote, AmPrimary, AnyValue
<1>9. CASE Restart(r)
  BY ZenonT(40), <1>1, <1>9 DEF Restart
<1> QED
  BY ZenonT(40), <1>2, <1>3, <1>4, <1>5, <1>7, <1>8, <1>9 DEF StepOf

\* Candidates and primaries, after a step of any replica.
LEMMA RolesKept ==
    ASSUME QuorumFacts, Base, VotingInv, TypeOK', LogEffect,
           Later(msgs, maxBallot, msgs', maxBallot'),
           NEW r \in Member, StepOf(r), KindOf(r)
    PROVE  RoleInv'
<1>1. RoleAt(r)'
  BY ZenonT(40), OwnRole
<1>2. ASSUME NEW q \in Member, q # r PROVE RoleAt(q)'
  BY ZenonT(40), <1>2, OthersKeepRoles DEF RoleAt, VotingInv
<1> QED
  BY <1>1, <1>2 DEF RoleAt, RoleInv

-----------------------------------------------------------------------------
(* Every part of the invariant, after a step of r. *)

\* What a replica has accepted is still at or below the vote it holds.
LEMMA CastsKept ==
    ASSUME Base, VotingInv, TypeOK', LogEffect, NEW r \in Member, KindOf(r)
    PROVE  CastInv'
<1>1. /\ msgs \subseteq msgs'
      /\ \A m \in msgs' \ msgs :
             m.type \in {"Vote", "Prepare"} => m.bal.mem = r
      /\ \A q : \A c \in Casts(msgs', q) \ Casts(msgs, q) :
             /\ q = r
             /\ c.bal = maxAccepted'[r].bal /\ c.dec = maxAccepted'[r].dec
      /\ \A m \in Accepted(msgs') \ Accepted(msgs) :
             /\ m.src # m.bal.mem
             /\ \E n \in Proposals(msgs) : n.bal = m.bal /\ n.dec = m.dec
  BY NewMessages
<1>2. /\ \A m \in Proposals(msgs) : m.bal.mem \in Member
      /\ \A q \in Member : \A c \in Casts(msgs, q) :
             BallotLeq(c.bal, maxAccepted[q].bal) /\ c.dec <= maxAccepted[q].dec
      /\ \A m \in Accepted(msgs) :
             /\ m.src # m.bal.mem
             /\ \E n \in Proposals(msgs) : n.bal = m.bal /\ n.dec = m.dec
  BY ZenonT(40) DEF VotingInv, CastInv
<1>3. \A m \in Proposals(msgs') : m.bal.mem \in Member
  BY ZenonT(40), <1>1, <1>2 DEF Proposals
<1>4. ASSUME NEW q \in Member, NEW c \in Casts(msgs', q)
      PROVE  /\ BallotLeq(c.bal, maxAccepted'[q].bal)
             /\ c.dec <= maxAccepted'[q].dec
  <2>1. /\ maxAccepted[q].bal \in Ballot /\ maxAccepted'[q].bal \in Ballot
        /\ maxAccepted[q].dec \in Nat /\ maxAccepted'[q].dec \in Nat
        /\ c.bal \in Ballot /\ c.dec \in Nat
    BY ZenonT(40), CastTypes DEF Base, TypeOK, Vote, Decree
  <2>2. CASE c \in Casts(msgs, q)
    <3>1. /\ BallotLeq(maxAccepted[q].bal, maxAccepted'[q].bal)
          /\ maxAccepted[q].dec <= maxAccepted'[q].dec
      BY ZenonT(40), AcceptedGrows DEF Base
    <3> QED
      BY <1>2, <2>1, <2>2, <3>1, BallotOrder
  <2>3. CASE c \notin Casts(msgs, q)
    BY <1>1, <2>1, <2>3, BallotOrder
  <2> QED
    BY ZenonT(40), <2>2, <2>3
<1>5. \A m \in Accepted(msgs') :
          /\ m.src # m.bal.mem
          /\ \E n \in Proposals(msgs') : n.bal = m.bal /\ n.dec = m.dec
  BY ZenonT(40), <1>1, <1>2, MoreMessages
<1> QED
  BY ZenonT(40), <1>3, <1>4, <1>5 DEF CastInv

\* A ballot has one value for a decree, and no lower ballot another one.
LEMMA VotesKept ==
    ASSUME Base, VotingInv, TypeOK', Later(msgs, maxBallot, msgs', maxBallot'),
           NEW r \in Member, KindOf(r)
    PROVE  OneValue(msgs') /\ SafeInv'
<1>1. /\ msgs \subseteq msgs'
      /\ \A m \in Proposals(msgs') \ Proposals(msgs) :
             \E v \in Vote, rp \in BOOLEAN :
                 Proposes(r, v, rp) /\ m = VoteMsg(v, rp)
  BY ZenonT(40), NewMessages
<1>2. /\ msgs \in SUBSET Message /\ msgs' \in SUBSET Message
      /\ maxBallot \in [Member -> Ballot] /\ maxBallot' \in [Member -> Ballot]
  BY ZenonT(40) DEF Base, TypeOK
<1>3. ASSUME NEW v \in Vote, NEW rp \in BOOLEAN, Proposes(r, v, rp)
      PROVE  /\ \A m \in Proposals(msgs) :
                    ~(m.bal = VoteMsg(v, rp).bal /\ m.dec = VoteMsg(v, rp).dec)
             /\ Safe(msgs, maxBallot, VoteMsg(v, rp))
             /\ Leading(msgs, maxBallot, VoteMsg(v, rp))
             /\ Proposals(msgs') \subseteq Proposals(msgs) \cup {VoteMsg(v, rp)}
  <2>1. /\ VoteMsg(v, rp).bal = v.bal /\ VoteMsg(v, rp).dec = v.dec
        /\ VoteMsg(v, rp).val = v.val
    BY ZenonT(40) DEF VoteMsg
  <2>2. /\ Safe(msgs, maxBallot, v) /\ Leading(msgs, maxBallot, v)
        /\ \A m \in Proposals(msgs) : ~(m.bal = v.bal /\ m.dec = v.dec)
        /\ msgs' = msgs \cup {VoteMsg(v, rp)}
    BY ZenonT(40), <1>3 DEF Proposes
  <2> QED
    BY ZenonT(40), <2>1, <2>2 DEF Safe, Leading, Proposals
<1>4. OneValue(msgs')
  <2>1. OneValue(msgs)
    BY ZenonT(40) DEF VotingInv
  <2> SUFFICES ASSUME NEW m \in Proposals(msgs'), NEW n \in Proposals(msgs'),
                      m.bal = n.bal, m.dec = n.dec
               PROVE  m.val = n.val
    BY ZenonT(40) DEF OneValue
  <2>2. CASE m \in Proposals(msgs) /\ n \in Proposals(msgs)
    BY ZenonT(40), <2>1, <2>2 DEF OneValue
  <2>3. CASE m \notin Proposals(msgs) \/ n \notin Proposals(msgs)
    <3>1. PICK v \in Vote, rp \in BOOLEAN : Proposes(r, v, rp)
      BY <1>1, <2>3
    <3> QED
      BY <1>3, <2>3, <3>1
  <2> QED
    BY ZenonT(40), <2>2, <2>3
<1>5. ASSUME NEW m \in Proposals(msgs')
      PROVE  Safe(msgs', maxBallot', m) /\ Leading(msgs', maxBallot', m)
  <2>1. Safe(msgs, maxBallot, m) /\ Leading(msgs, maxBallot, m)
    BY <1>1, <1>3 DEF VotingInv, SafeInv
  <2>2. m.bal \in Ballot
    BY ZenonT(40), <1>2, CastTypes
  <2> QED
    BY ZenonT(40), <1>2, <2>1, <2>2, SafeStable
<1> QED
  BY ZenonT(40), <1>4, <1>5 DEF SafeInv

\* The vote of the bootstrap is one that a replica may hold.
LEMMA InitialIsGenuine ==
    ASSUME NEW M PROVE Genuine(M, InitialVote)
  BY DEF Genuine, InitialVote

\* A new vote has itself as its origin.
LEMMA ProposedIsGenuine ==
    ASSUME NEW r \in Member, NEW v \in Vote, NEW rp \in BOOLEAN,
           Proposes(r, v, rp)
    PROVE  Genuine(msgs', v) /\ Genuine(msgs', VoteMsg(v, rp))
<1> DEFINE m == VoteMsg(v, rp)
<1>1. /\ m.type = "Vote" /\ m.bal = v.bal /\ m.dec = v.dec /\ m.val = v.val
      /\ msgs' = msgs \cup {m}
      /\ v.dec > 1 => Decided(msgs, v.bal, v.dec - 1)
  BY ZenonT(40) DEF Proposes, VoteMsg
<1> HIDE DEF m
<1>2. m \in Proposals(msgs') /\ BallotLeq(v.bal, v.bal)
  BY ZenonT(40), <1>1 DEF Proposals, BallotLeq
<1>3. v.dec > 1 => Decided(msgs', v.bal, v.dec - 1)
  BY <1>1, MoreMessages
<1>4. Genuine(msgs', v)
  BY ZenonT(40), <1>1, <1>2, <1>3 DEF Genuine
<1>5. Genuine(msgs', m)
  BY ZenonT(40), <1>1, <1>4 DEF Genuine
<1> QED
  BY ZenonT(40), <1>4, <1>5 DEF m

\* Whatever a replica holds, has logged or has reported is genuine.
LEMMA GenuineKept ==
    ASSUME MaximaExist,
           Base, VotingInv, TypeOK', LogEffect, NEW r \in Member, KindOf(r)
    PROVE  GenuineInv'
<1>1. /\ msgs \subseteq msgs'
      /\ \A m \in Proposals(msgs') \ Proposals(msgs) :
             \E v \in Vote, rp \in BOOLEAN :
                 Proposes(r, v, rp) /\ m = VoteMsg(v, rp)
  BY ZenonT(40), NewMessages
<1>2. /\ \A m \in Proposals(msgs) : Genuine(msgs', m)
      /\ \A m \in Joined(msgs) : Genuine(msgs', m.vote)
      /\ \A q \in Member : Genuine(msgs', maxAccepted[q])
      /\ \A q \in Member : \A v \in VotesIn(log[q]) :
             Genuine(msgs', v) /\ v.dec <= maxAccepted[q].dec
  BY ZenonT(40), <1>1, MoreMessages DEF VotingInv, GenuineInv
<1>3. \A m \in Proposals(msgs') : Genuine(msgs', m)
  BY <1>1, <1>2, ProposedIsGenuine
<1>4. ASSUME NEW m \in Joined(msgs') PROVE Genuine(msgs', m.vote)
  <2>1. CASE m \in Joined(msgs)
    BY ZenonT(40), <1>2, <2>1
  <2>2. CASE m \notin Joined(msgs)
    <3>1. m.type = "PrepareAccepted" /\ m \in msgs' \ msgs
      BY ZenonT(40), <2>2 DEF Joined
    <3>2. Joins(r)
      BY ZenonT(40), <3>1, NewMessages
    <3>3. m.vote = maxAccepted[r]
      BY <3>1, <3>2 DEF Joins, PrepareAcceptedMsg
    <3> QED
      BY ZenonT(40), <1>2, <3>3
  <2> QED
    BY ZenonT(40), <2>1, <2>2
<1>5. ASSUME NEW q \in Member PROVE Genuine(msgs', maxAccepted'[q])
  <2>0. maxAccepted \in [Member -> Vote] /\ log[r] \in Seq(Record)
    BY ZenonT(40) DEF Base, TypeOK
  <2>1. CASE Listens(r) \/ Joins(r) \/ Passes(r)
    BY ZenonT(40), <1>2, <2>1 DEF Listens, Joins, Passes
  <2>2. ASSUME NEW v \in Vote, NEW rp \in BOOLEAN, Proposes(r, v, rp)
        PROVE  Genuine(msgs', maxAccepted'[q])
    <3>1. maxAccepted' = [maxAccepted EXCEPT ![r] = v]
      BY ZenonT(40), <2>2 DEF Proposes
    <3> QED
      BY <1>2, <2>0, <2>2, <3>1, ProposedIsGenuine
  <2>3. ASSUME NEW v \in Vote, Accepts(r, v)
        PROVE  Genuine(msgs', maxAccepted'[q])
    <3>1. maxAccepted' = [maxAccepted EXCEPT ![r] = v] /\ Genuine(msgs, v)
      BY ZenonT(40), <2>3 DEF Accepts
    <3>2. Genuine(msgs', v)
      BY ZenonT(40), <1>1, <3>1, MoreMessages
    <3> QED
      BY <1>2, <2>0, <3>1, <3>2
  <2>4. CASE Restores(r)
    <3> DEFINE v == LoggedVote(log[r], Len(log[r]))
    <3>1. maxAccepted' = [maxAccepted EXCEPT ![r] = v]
      BY ZenonT(40), <2>4 DEF Restores, RestoreState, RestoreFrom
    <3>2. v \in VotesIn(log[r]) \cup {InitialVote}
      BY <2>0, LoggedVoteIsIn
    <3> HIDE DEF v
    <3>3. Genuine(msgs', v)
      BY ZenonT(40), <1>2, <3>2, InitialIsGenuine
    <3> QED
      BY <1>2, <2>0, <3>1, <3>3
  <2> QED
    BY <2>1, <2>2, <2>3, <2>4 DEF KindOf
<1>6. ASSUME NEW q \in Member, NEW v \in VotesIn(log'[q])
      PROVE  Genuine(msgs', v) /\ v.dec <= maxAccepted'[q].dec
  <2>1. /\ maxAccepted[q].dec <= maxAccepted'[q].dec
        /\ v \in VotesIn(log[q]) \cup {maxAccepted'[q]}
    BY ZenonT(40), AcceptedGrows DEF Base
  <2>2. maxAccepted[q].dec \in Nat /\ maxAccepted'[q].dec \in Nat
    BY ZenonT(40) DEF Base, TypeOK, Vote, Decree
  <2>3. CASE v \in VotesIn(log[q])
    <3>1. v.dec \in Nat
      <4>1. PICK i \in 1..Len(log[q]) : v.dec = log[q][i].dec
        BY <2>3 DEF VotesIn, VotesUpTo
      <4>2. log[q] \in Seq(Record)
        BY ZenonT(40) DEF Base, TypeOK
      <4>3. log[q][i] \in Record
        BY <4>1, <4>2
      <4> QED
        BY ZenonT(40), <4>1, <4>3 DEF Record, Decree
    <3> QED
      BY <1>2, <2>1, <2>2, <2>3, <3>1
  <2>4. CASE v = maxAccepted'[q]
    BY <1>5, <2>2, <2>4
  <2> QED
    BY ZenonT(40), <2>1, <2>3, <2>4
<1> QED
  BY ZenonT(40), <1>3, <1>4, <1>5, <1>6 DEF GenuineInv

\* An answer to a prepare covers what its sender had accepted, for ever.
LEMMA AnswersKept ==
    ASSUME Base, VotingInv, TypeOK', LogEffect,
           Later(msgs, maxBallot, msgs', maxBallot'),
           NEW r \in Member, KindOf(r)
    PROVE  PromiseInv'
<1>1. /\ msgs \in SUBSET Message /\ msgs' \in SUBSET Message
      /\ maxBallot \in [Member -> Ballot] /\ maxBallot' \in [Member -> Ballot]
      /\ msgs \subseteq msgs' /\ maxAccepted[r] \in Vote
      /\ \A q \in Member :
             maxAccepted[q].dec \in Nat /\ maxAccepted'[q].dec \in Nat
      /\ \A q \in Member : maxAccepted[q].dec <= maxAccepted'[q].dec
  BY ZenonT(40), AcceptedGrows DEF Base, TypeOK, Later, Vote, Decree
<1>2. ASSUME NEW m \in Asked(msgs')
      PROVE  m.bal.mem \in Member /\ m.dec <= maxAccepted'[m.bal.mem].dec
  <2>1. CASE m \in Asked(msgs)
    <3>1. m.bal.mem \in Member /\ m.dec <= maxAccepted[m.bal.mem].dec
      BY ZenonT(40), <2>1 DEF VotingInv, PromiseInv
    <3>2. m.dec \in Nat
      BY <1>1, <2>1 DEF Asked, Message, Decree
    <3> QED
      BY <1>1, <3>1, <3>2
  <2>2. CASE m \notin Asked(msgs)
    <3>1. m.type = "Prepare" /\ m \in msgs' \ msgs
      BY ZenonT(40), <2>2 DEF Asked
    <3>2. QuietNews(r)
      BY ZenonT(40), <3>1, NewMessages
    <3>3. m.bal.mem = r /\ m.dec = maxAccepted[r].dec
      BY <3>1, <3>2 DEF QuietNews
    <3> QED
      BY ZenonT(40), <1>1, <3>3
  <2> QED
    BY ZenonT(40), <2>1, <2>2
<1>3. ASSUME NEW m \in Joined(msgs')
      PROVE  /\ m.src # m.bal.mem /\ m.vote.dec <= m.dec
             /\ Covered(msgs', m.src, m.bal, m.vote)
             /\ \E n \in Asked(msgs') : n.bal = m.bal /\ n.dec = m.dec
  <2>0. Asked(msgs) \subseteq Asked(msgs')
    BY ZenonT(40), <1>1 DEF Asked
  <2>1. CASE m \in Joined(msgs)
    <3>1. /\ m.src # m.bal.mem /\ m.vote.dec <= m.dec
          /\ Covered(msgs, m.src, m.bal, m.vote)
          /\ \E n \in Asked(msgs) : n.bal = m.bal /\ n.dec = m.dec
      BY ZenonT(40), <2>1 DEF VotingInv, PromiseInv
    <3>2. m.src \in Member /\ m.bal \in Ballot /\ BallotLeq(m.bal, maxBallot[m.src])
      BY ZenonT(40), <2>1, SentTypes, SentKinds DEF Base, TypeOK, PromiseKept
    <3>3. Covered(msgs', m.src, m.bal, m.vote)
      BY ZenonT(40), <1>1, <3>1, <3>2, CoveredStable
    <3> QED
      BY ZenonT(40), <2>0, <3>1, <3>3
  <2>2. CASE m \notin Joined(msgs)
    <3>1. m.type = "PrepareAccepted" /\ m \in msgs' \ msgs
      BY ZenonT(40), <2>2 DEF Joined
    <3>2. Joins(r)
      BY ZenonT(40), <3>1, NewMessages
    <3>3. PICK n \in Asked(msgs) :
              /\ n.bal.mem # r /\ maxAccepted[r].dec <= n.dec
              /\ msgs' = msgs \cup
                     {PrepareAcceptedMsg(r, n.bal, n.dec, maxAccepted[r])}
      BY ZenonT(40), <3>2 DEF Joins
    <3>4. /\ m.src = r /\ m.bal = n.bal /\ m.dec = n.dec
          /\ m.vote = maxAccepted[r]
      <4>1. m = PrepareAcceptedMsg(r, n.bal, n.dec, maxAccepted[r])
        BY ZenonT(40), <3>1, <3>3
      <4> QED
        BY ZenonT(40), <4>1 DEF PrepareAcceptedMsg
    <3>5. Casts(msgs', r) \subseteq Casts(msgs, r)
      BY <3>3 DEF Casts, PrepareAcceptedMsg
    <3>6. \A c \in Casts(msgs, r) :
              /\ BallotLeq(c.bal, maxAccepted[r].bal)
              /\ c.dec <= maxAccepted[r].dec /\ c.dec \in Nat
      BY ZenonT(40), <1>1, CastTypes DEF VotingInv, CastInv, Decree
    <3>7. Covered(msgs', r, n.bal, maxAccepted[r])
      <4>1. maxAccepted[r].dec \in Nat
        BY ZenonT(40), <1>1
      <4>2. \A c \in Casts(msgs', r) :
                \/ c.dec < maxAccepted[r].dec
                \/ /\ c.dec = maxAccepted[r].dec
                   /\ BallotLeq(c.bal, maxAccepted[r].bal)
        BY <3>5, <3>6, <4>1
      <4> QED
        BY ZenonT(40), <4>2 DEF Covered
    <3> QED
      BY <2>0, <3>3, <3>4, <3>7
  <2> QED
    BY ZenonT(40), <2>1, <2>2
<1> QED
  BY ZenonT(40), <1>2, <1>3 DEF PromiseInv

-----------------------------------------------------------------------------
(* Execution. *)

\* A vote for the decree after v, under the ballot of v, settles v.
LEMMA NextSettles ==
    ASSUME QuorumFacts, Base, VotingInv, NEW v \in Vote, NEW w \in Vote,
           Genuine(msgs, v), Genuine(msgs, w), w.dec = v.dec + 1, w.bal = v.bal
    PROVE  Settled(msgs, v)
<1>1. v.dec \in Nat \ {0} /\ msgs \in SUBSET Message /\ w.dec > 1 /\ w.dec - 1 = v.dec
  BY DEF Base, TypeOK, Vote, Decree
<1>2. PICK m \in Proposals(msgs) : /\ m.dec = v.dec /\ BallotLeq(m.bal, v.bal)
                                   /\ ChosenIn(msgs, m.bal, v.dec)
  BY ZenonT(40), <1>1 DEF Genuine, Decided
<1>3. \A n \in Proposals(msgs) :
          Safe(msgs, maxBallot, n) /\ n.bal # ZeroBallot
  BY ZenonT(40), NoZeroCasts DEF Base, VotingInv, SafeInv
<1>4. v.val = m.val
  BY ZenonT(40), <1>1, <1>2, <1>3, GenuineAgrees DEF VotingInv
<1> QED
  BY ZenonT(40), <1>2, <1>4 DEF Settled

\* What some replica has executed and what is settled are the same request.
LEMMA SettledAgree ==
    ASSUME QuorumFacts,
           Base, VotingInv, NEW v, NEW w, Settled(msgs, v), Settled(msgs, w),
           v.dec = w.dec
    PROVE  v.val = w.val
<1>1. PICK m \in Proposals(msgs) :
          m.dec = v.dec /\ m.val = v.val /\ ChosenIn(msgs, m.bal, m.dec)
  BY Zenon DEF Settled
<1>2. PICK n \in Proposals(msgs) :
          n.dec = w.dec /\ n.val = w.val /\ ChosenIn(msgs, n.bal, n.dec)
  BY ZenonT(40) DEF Settled
<1> QED
  BY ZenonT(40), <1>1, <1>2, DecisionsAgree DEF Base, TypeOK, VotingInv, SafeInv

\* Nothing that is settled is ever open again.
LEMMA SettledStays ==
    ASSUME NEW M, NEW N, M \subseteq N, NEW v, Settled(M, v)
    PROVE  Settled(N, v)
<1>1. PICK m \in Proposals(M) :
          m.dec = v.dec /\ m.val = v.val /\ ChosenIn(M, m.bal, m.dec)
  BY ZenonT(40) DEF Settled
<1>2. m \in Proposals(N) /\ ChosenIn(N, m.bal, m.dec)
  BY ZenonT(40), <1>1, MoreMessages
<1> QED
  BY ZenonT(40), <1>1, <1>2 DEF Settled

\* AddToExecutionQueue hands over the decree after the last one, or nothing.
LEMMA QueueApplies ==
    ASSUME QuorumFacts,
           Base, VotingInv, NEW r \in Member, Settled(msgs, maxAccepted[r]),
           AddToExecutionQueue(r, maxAccepted[r])
    PROVE  \/ /\ UNCHANGED <<lastPassed, passed>>
              /\ lastPassed[r] = maxAccepted[r].dec
           \/ /\ Promised!Apply(r, maxAccepted[r].val)
              /\ lastPassed[r] + 1 = maxAccepted[r].dec
<1>1. /\ lastPassed[r] \in {maxAccepted[r].dec - 1, maxAccepted[r].dec}
      /\ \A p \in passed : Settled(msgs, p)
  BY ZenonT(40) DEF VotingInv, PassedInv, PassInOrder
<1>2. lastPassed[r] \in Nat /\ maxAccepted[r].dec \in Nat
  BY ZenonT(40) DEF Base, TypeOK, Vote, Decree
<1>3. \A p \in passed :
          p.dec = maxAccepted[r].dec => p.val = maxAccepted[r].val
  BY ZenonT(40), <1>1, SettledAgree
<1>4. CASE lastPassed[r] = maxAccepted[r].dec
  BY ZenonT(40), <1>4 DEF AddToExecutionQueue
<1>5. CASE lastPassed[r] # maxAccepted[r].dec
  <2>1. lastPassed[r] + 1 = maxAccepted[r].dec
    BY <1>1, <1>2, <1>5
  <2>2. /\ lastPassed' = [lastPassed EXCEPT ![r] = lastPassed[r] + 1]
        /\ passed' = passed \cup {[dec |-> lastPassed[r] + 1,
                                   val |-> maxAccepted[r].val]}
    BY ZenonT(40), <1>5, <2>1 DEF AddToExecutionQueue
  <2> QED
    BY ZenonT(40), <1>3, <2>1, <2>2 DEF Promised!Apply
<1> QED
  BY ZenonT(40), <1>4, <1>5

\* RestoreState executes again what the replica had executed.
LEMMA ReplayIsPassed ==
    ASSUME MaximaExist, QuorumFacts, Base, VotingInv, NEW r \in Member
    PROVE  ReplayedDecrees(log[r]) \subseteq passed
<1>1. /\ log[r] \in Seq(Record) /\ Len(log[r]) \in Nat
      /\ lastPassed[r] \in Nat /\ maxAccepted[r].dec \in Nat \ {0}
      /\ lastPassed[r] \in {maxAccepted[r].dec - 1, maxAccepted[r].dec}
      /\ passed \subseteq [dec : Decree, val : AnyValue]
  BY DEF Base, TypeOK, Vote, Decree, VotingInv, PassedInv, PassInOrder
<1>2. SUFFICES ASSUME NEW i \in VotesUpTo(log[r], Len(log[r])),
                      log[r][i].dec = LoggedVote(log[r], i - 1).dec + 1
               PROVE  [dec |-> LoggedVote(log[r], i - 1).dec,
                       val |-> LoggedVote(log[r], i - 1).val] \in passed
  BY ZenonT(40) DEF ReplayedDecrees
<1> DEFINE v == LoggedVote(log[r], i - 1)
           w == [bal |-> log[r][i].bal, dec |-> log[r][i].dec,
                 val |-> log[r][i].val]
<1>3. /\ i \in 1..Len(log[r]) /\ i - 1 \in 0..Len(log[r])
      /\ log[r][i].kind = "Vote" /\ log[r][i] \in Record
  BY <1>1 DEF VotesUpTo
<1>4. v \in Vote /\ w \in Vote /\ v.dec \in Nat \ {0}
  BY ZenonT(40), <1>1, <1>3, LoggedVoteType DEF Record, Vote, Decree
<1>5. w \in VotesIn(log[r]) /\ v \in VotesIn(log[r]) \cup {InitialVote}
  BY ZenonT(40), <1>1, <1>3, LoggedVoteIsIn DEF VotesIn
<1>6. /\ Genuine(msgs, v) /\ Genuine(msgs, w)
      /\ w.dec <= maxAccepted[r].dec
  BY ZenonT(40), <1>5, InitialIsGenuine DEF VotingInv, GenuineInv
<1>7. w.dec = v.dec + 1 /\ w.bal = v.bal
  <2>1. SequentialAt(log[r], i)
    BY ZenonT(40), <1>3 DEF Base, DurabilityInv
  <2>2. IsNextDecree(log[r][i], v.dec, v.bal)
    BY ZenonT(40), <1>3, <2>1 DEF SequentialAt
  <2>3. w.dec = log[r][i].dec /\ w.bal = log[r][i].bal /\ w.dec = v.dec + 1
    BY ZenonT(40), <1>2
  <2> HIDE DEF v, w
  <2> QED
    BY <1>4, <2>2, <2>3 DEF IsNextDecree
<1>8. Settled(msgs, v)
  BY ZenonT(40), <1>4, <1>6, <1>7, NextSettles
<1> HIDE DEF v, w
<1>9. v.dec \in 1..lastPassed[r]
  BY <1>1, <1>4, <1>6, <1>7
<1>10. PICK p \in passed : p.dec = v.dec
  BY ZenonT(40), <1>9 DEF VotingInv, PassedInv
<1>11. p.val = v.val
  BY ZenonT(40), <1>8, <1>10, SettledAgree DEF VotingInv, PassedInv
<1>12. p = [dec |-> p.dec, val |-> p.val]
  BY ZenonT(40), <1>1
<1> QED
  BY ZenonT(40), <1>10, <1>11, <1>12 DEF v

\* RestoreState resumes at the decree before the accepted one.
LEMMA RestoreRecovers ==
    ASSUME MaximaExist, QuorumFacts,
           Base, VotingInv, NEW r \in Member, Restores(r)
    PROVE  /\ Promised!Recover(r)
           /\ lastPassed' = [lastPassed EXCEPT ![r] = maxAccepted[r].dec - 1]
           /\ maxAccepted'[r].dec = maxAccepted[r].dec
           /\ \A q \in Member \ {r} : maxAccepted'[q] = maxAccepted[q]
<1> DEFINE v == LoggedVote(log[r], Len(log[r]))
<1>1. /\ maxAccepted' = [maxAccepted EXCEPT ![r] = v]
      /\ lastPassed' = [lastPassed EXCEPT ![r] = v.dec - 1]
      /\ passed' = passed \cup ReplayedDecrees(log[r])
  BY ZenonT(40) DEF Restores, RestoreState, RestoreFrom
<1>2. v.dec = maxAccepted[r].dec
  BY ZenonT(40) DEF Base, DurabilityInv, Durable
<1>3. /\ maxAccepted[r].dec \in Nat \ {0} /\ lastPassed[r] \in Nat
      /\ lastPassed[r] \in {maxAccepted[r].dec - 1, maxAccepted[r].dec}
      /\ maxAccepted \in [Member -> Vote]
  BY ZenonT(40) DEF Base, TypeOK, Vote, Decree, VotingInv, PassedInv, PassInOrder
<1> HIDE DEF v
<1>4. maxAccepted[r].dec - 1 \in 0..lastPassed[r]
  BY <1>3
<1>5. passed' = passed
  BY ZenonT(40), <1>1, ReplayIsPassed
<1>6. Promised!Recover(r)
  BY ZenonT(40), <1>1, <1>2, <1>4, <1>5 DEF Promised!Recover
<1> QED
  BY ZenonT(40), <1>1, <1>2, <1>3, <1>6

\* LogAndAcceptVote: the vote for the next decree settles the accepted one.
LEMMA AcceptSettles ==
    ASSUME QuorumFacts,
           Base, VotingInv, NEW r \in Member, NEW v \in Vote, Accepts(r, v)
    PROVE  \/ v.dec = maxAccepted[r].dec /\ UNCHANGED <<lastPassed, passed>>
           \/ /\ v.dec = maxAccepted[r].dec + 1
              /\ Settled(msgs, maxAccepted[r])
              /\ AddToExecutionQueue(r, maxAccepted[r])
<1>1. /\ IsNextDecree(v, maxAccepted[r].dec, maxAccepted[r].bal)
      /\ Genuine(msgs, v) /\ Genuine(msgs, maxAccepted[r])
      /\ maxAccepted[r] \in Vote /\ maxAccepted[r].dec \in Nat
      /\ IF v.dec = maxAccepted[r].dec + 1
         THEN AddToExecutionQueue(r, maxAccepted[r])
         ELSE UNCHANGED <<lastPassed, passed>>
  BY ZenonT(40) DEF Accepts, VotingInv, GenuineInv, Base, TypeOK, Vote, Decree
<1>2. CASE v.dec = maxAccepted[r].dec + 1
  <2>1. v.bal = maxAccepted[r].bal
    BY ZenonT(40), <1>1, <1>2, NextNumber DEF IsNextDecree
  <2>2. Settled(msgs, maxAccepted[r])
    BY <1>1, <1>2, <2>1, NextSettles
  <2> QED
    BY ZenonT(40), <1>1, <1>2, <2>2
<1>3. CASE v.dec # maxAccepted[r].dec + 1
  BY ZenonT(40), <1>1, <1>3 DEF IsNextDecree
<1> QED
  BY <1>2, <1>3

\* The decrees that have passed are settled, in order and without a gap.
LEMMA ExecutionKept ==
    ASSUME MaximaExist, QuorumFacts,
           Base, VotingInv, TypeOK', NEW r \in Member, KindOf(r)
    PROVE  PassedInv'
<1>0. /\ \A p \in passed : Settled(msgs', p)
      /\ \A q \in Member : lastPassed[q] \in {maxAccepted[q].dec - 1,
                                              maxAccepted[q].dec}
      /\ \A q \in Member : \A d \in 1..lastPassed[q] :
             \E p \in passed : p.dec = d
  <2>1. msgs \subseteq msgs'
    BY ZenonT(40), NewMessages
  <2> QED
    BY ZenonT(40), <2>1, SettledStays DEF VotingInv, PassedInv, PassInOrder
<1>1. /\ maxAccepted \in [Member -> Vote] /\ lastPassed \in [Member -> Nat]
      /\ \A q \in Member : maxAccepted[q].dec \in Nat \ {0}
      /\ passed \subseteq passed'
  <2>1. passed \subseteq passed'
    BY ZenonT(40) DEF KindOf, Listens, Joins, Proposes, Accepts, Passes, Restores,
           RestoreState, RestoreFrom, AddToExecutionQueue
  <2> QED
    BY ZenonT(40), <2>1 DEF Base, TypeOK, Vote, Decree
<1>2. ASSUME UNCHANGED <<lastPassed, passed>>,
             \A q \in Member : lastPassed[q] \in {maxAccepted'[q].dec - 1,
                                                  maxAccepted'[q].dec}
      PROVE  PassedInv'
  BY ZenonT(40), <1>0, <1>2 DEF PassedInv, PassInOrder
<1>3. ASSUME Settled(msgs, maxAccepted[r]), AddToExecutionQueue(r, maxAccepted[r]),
             \A q \in Member \ {r} : maxAccepted'[q] = maxAccepted[q],
             maxAccepted'[r].dec \in {maxAccepted[r].dec,
                                      maxAccepted[r].dec + 1}
      PROVE  PassedInv'
  <2>1. CASE UNCHANGED <<lastPassed, passed>> /\ lastPassed[r] = maxAccepted[r].dec
    <3>1. ASSUME NEW q \in Member
          PROVE  lastPassed[q] \in {maxAccepted'[q].dec - 1,
                                   maxAccepted'[q].dec}
      <4>1. CASE q = r
        <5>1. maxAccepted[r].dec \in Nat
          BY ZenonT(40), <1>1
        <5> QED
          BY <1>3, <2>1, <4>1, <5>1
      <4>2. CASE q # r
        BY ZenonT(40), <1>0, <1>3, <4>2
      <4> QED
        BY ZenonT(40), <4>1, <4>2
    <3> QED
      BY <1>2, <2>1, <3>1
  <2>2. CASE /\ Promised!Apply(r, maxAccepted[r].val)
             /\ lastPassed[r] + 1 = maxAccepted[r].dec
    <3> DEFINE new == [dec |-> maxAccepted[r].dec, val |-> maxAccepted[r].val]
    <3>1. /\ passed' = passed \cup {new}
          /\ lastPassed' = [lastPassed EXCEPT ![r] = maxAccepted[r].dec]
      BY ZenonT(40), <2>2 DEF Promised!Apply
    <3>2. Settled(msgs', new)
      <4>1. msgs \subseteq msgs'
        BY Zenon, NewMessages
      <4>2. Settled(msgs, new)
        BY ZenonT(40), <1>3 DEF Settled
      <4> HIDE DEF new
      <4> QED
        BY <4>1, <4>2, SettledStays
    <3>3. new.dec = maxAccepted[r].dec
      BY ZenonT(40)
    <3> HIDE DEF new
    <3>4. \A q \in Member : lastPassed'[q] \in {maxAccepted'[q].dec - 1,
                                                maxAccepted'[q].dec}
      BY <1>0, <1>1, <1>3, <3>1
    <3>5. ASSUME NEW q \in Member, NEW d \in 1..lastPassed'[q]
          PROVE  \E p \in passed' : p.dec = d
      <4>1. d \in 1..lastPassed[q] \/ (q = r /\ d = maxAccepted[r].dec)
        BY <1>1, <2>2, <3>1
      <4> QED
        BY ZenonT(40), <1>0, <3>1, <3>3, <4>1
    <3> QED
      BY ZenonT(40), <1>0, <3>1, <3>2, <3>4, <3>5 DEF PassedInv, PassInOrder
  <2> QED
    BY ZenonT(40), <1>3, <2>1, <2>2, QueueApplies
<1>4. CASE Listens(r) \/ Joins(r)
  BY ZenonT(40), <1>0, <1>2, <1>4 DEF Listens, Joins
<1>5. ASSUME NEW v \in Vote, NEW rp \in BOOLEAN, Proposes(r, v, rp)
      PROVE  PassedInv'
  <2>1. /\ maxAccepted' = [maxAccepted EXCEPT ![r] = v]
        /\ \/ v.dec = maxAccepted[r].dec
           \/ /\ v.dec = maxAccepted[r].dec + 1
              /\ lastPassed[r] = maxAccepted[r].dec
        /\ UNCHANGED <<lastPassed, passed>>
    BY ZenonT(40), <1>5 DEF Proposes
  <2>2. \A q \in Member : lastPassed[q] \in {maxAccepted'[q].dec - 1,
                                             maxAccepted'[q].dec}
    BY <1>0, <1>1, <2>1
  <2> QED
    BY ZenonT(40), <1>2, <2>1, <2>2
<1>6. ASSUME NEW v \in Vote, Accepts(r, v) PROVE PassedInv'
  <2>1. /\ maxAccepted' = [maxAccepted EXCEPT ![r] = v]
        /\ maxAccepted'[r] = v
        /\ \A q \in Member \ {r} : maxAccepted'[q] = maxAccepted[q]
    BY ZenonT(40), <1>1, <1>6 DEF Accepts
  <2>2. CASE v.dec = maxAccepted[r].dec /\ UNCHANGED <<lastPassed, passed>>
    <3>1. \A q \in Member : lastPassed[q] \in {maxAccepted'[q].dec - 1,
                                               maxAccepted'[q].dec}
      BY ZenonT(40), <1>0, <2>1, <2>2
    <3> QED
      BY ZenonT(40), <1>2, <2>2, <3>1
  <2> QED
    BY ZenonT(40), <1>3, <1>6, <2>1, <2>2, AcceptSettles
<1>7. CASE Passes(r)
  BY ZenonT(40), <1>3, <1>7 DEF Passes
<1>8. CASE Restores(r)
  <2>1. /\ lastPassed' = [lastPassed EXCEPT ![r] = maxAccepted[r].dec - 1]
        /\ maxAccepted'[r].dec = maxAccepted[r].dec
        /\ \A q \in Member \ {r} : maxAccepted'[q] = maxAccepted[q]
        /\ passed' = passed
    BY ZenonT(40), <1>8, RestoreRecovers DEF Promised!Recover
  <2>2. \A q \in Member : lastPassed'[q] \in {maxAccepted'[q].dec - 1,
                                              maxAccepted'[q].dec}
    BY ZenonT(40), <1>0, <1>1, <2>1
  <2>3. \A q \in Member : \A d \in 1..lastPassed'[q] : d \in 1..lastPassed[q]
    BY <1>0, <1>1, <2>1
  <2> QED
    BY <1>0, <2>1, <2>2, <2>3 DEF PassedInv, PassInOrder
<1> QED
  BY <1>4, <1>5, <1>6, <1>7, <1>8 DEF KindOf

\* A step, as the state machines see it.
LEMMA StepImplements ==
    ASSUME MaximaExist, QuorumFacts,
           Base, VotingInv, NEW r \in Member, KindOf(r)
    PROVE  \/ UNCHANGED <<passed, lastPassed>>
           \/ Promised!Recover(r)
           \/ \E val \in AnyValue : Promised!Apply(r, val)
<1>0. maxAccepted[r].val \in AnyValue
  BY ZenonT(40) DEF Base, TypeOK, Vote
<1>1. CASE Listens(r) \/ Joins(r)
  BY ZenonT(40), <1>1 DEF Listens, Joins
<1>2. CASE \E v \in Vote, rp \in BOOLEAN : Proposes(r, v, rp)
  BY ZenonT(40), <1>2 DEF Proposes
<1>3. ASSUME NEW v \in Vote, Accepts(r, v)
      PROVE  \/ UNCHANGED <<passed, lastPassed>>
             \/ Promised!Apply(r, maxAccepted[r].val)
  BY ZenonT(40), <1>3, AcceptSettles, QueueApplies
<1>4. CASE Passes(r)
  BY ZenonT(40), <1>0, <1>4, QueueApplies DEF Passes
<1>5. CASE Restores(r)
  BY ZenonT(40), <1>5, RestoreRecovers
<1> QED
  BY ZenonT(40), <1>0, <1>1, <1>2, <1>3, <1>4, <1>5 DEF KindOf

-----------------------------------------------------------------------------
(* The invariant. *)

\* No vote has been sent in a bootstrapped configuration.
LEMMA InitialVoting ==
    ASSUME Init PROVE VotingInv
<1>1. /\ msgs = {} /\ passed = {} /\ Proposals(msgs) = {} /\ Asked(msgs) = {}
      /\ Joined(msgs) = {} /\ Accepted(msgs) = {}
      /\ \A q : Casts(msgs, q) = {}
  BY ZenonT(40) DEF Init, Proposals, Asked, Joined, Accepted, Casts
<1>2. ASSUME NEW r \in Member
      PROVE  /\ state[r] = "Initializing" /\ responses[r] = {}
             /\ maxAccepted[r] = InitialVote /\ VotesIn(log[r]) = {}
             /\ lastPassed[r] = 0
  <2>1. log[r] = <<>>
    BY ZenonT(40) DEF Init
  <2>2. VotesUpTo(<<>>, Len(<<>>)) = {}
    BY DEF VotesUpTo
  <2>3. VotesIn(log[r]) = {}
    BY ZenonT(40), <2>1, <2>2 DEF VotesIn
  <2> QED
    BY ZenonT(40), <2>3 DEF Init
<1>3. CastInv /\ OneValue(msgs) /\ SafeInv /\ PromiseInv
  BY ZenonT(40), <1>1 DEF CastInv, OneValue, SafeInv, PromiseInv
<1>4. GenuineInv
  BY ZenonT(40), <1>1, <1>2, InitialIsGenuine DEF GenuineInv
<1>5. PassedInv
  <2>1. \A r \in Member : lastPassed[r] = 0 /\ maxAccepted[r].dec = 1
    BY <1>2 DEF InitialVote
  <2>2. PassInOrder
    BY <2>1 DEF PassInOrder
  <2> QED
    BY <1>1, <2>1, <2>2 DEF PassedInv
<1>6. RoleInv
  BY ZenonT(40), <1>2 DEF RoleInv, CandidateAt, PrimaryAt
<1> QED
  BY <1>3, <1>4, <1>5, <1>6 DEF VotingInv

\* A stuttering step preserves it.
LEMMA VotingStutter ==
    ASSUME VotingInv, UNCHANGED vars PROVE VotingInv'
<1>1. CastInv' /\ OneValue(msgs)' /\ SafeInv'
  BY ZenonT(40) DEF vars, VotingInv, CastInv, SafeInv
<1>2. GenuineInv' /\ PromiseInv' /\ PassedInv'
  BY ZenonT(40) DEF vars, VotingInv, GenuineInv, PromiseInv, PassedInv, PassInOrder
<1>3. RoleInv'
  BY ZenonT(40) DEF vars, VotingInv, RoleInv, CandidateAt, PrimaryAt, Owns
<1> QED
  BY ZenonT(40), <1>1, <1>2, <1>3 DEF VotingInv

\* Every step of a replica preserves it.
LEMMA VotingStep ==
    ASSUME MaximaExist, QuorumFacts, Base, VotingInv, TypeOK', LogEffect,
           NEW r \in Member, StepOf(r)
    PROVE  VotingInv'
<1>1. KindOf(r)
  BY ZenonT(40), StepKind
<1>2. Later(msgs, maxBallot, msgs', maxBallot')
  BY ZenonT(40), <1>1, StepIsLater
<1>3. CastInv' /\ OneValue(msgs)' /\ SafeInv'
  BY ZenonT(40), <1>1, <1>2, CastsKept, VotesKept
<1>4. GenuineInv' /\ PromiseInv' /\ PassedInv'
  BY ZenonT(40), <1>1, <1>2, GenuineKept, AnswersKept, ExecutionKept
<1>5. RoleInv'
  BY ZenonT(40), <1>1, <1>2, RolesKept
<1> QED
  BY ZenonT(40), <1>3, <1>4, <1>5 DEF VotingInv

-----------------------------------------------------------------------------
(* What it says of the properties. *)

\* All that was executed for a decree is the value of votes that were chosen.
LEMMA InvAgreement ==
    ASSUME QuorumFacts, Base, VotingInv PROVE Agreement
BY ZenonT(40), SettledAgree DEF VotingInv, PassedInv, Agreement

\* A ballot has one value for a decree.
LEMMA InvOneVote ==
    ASSUME VotingInv PROVE OneVotePerBallot
BY ZenonT(40), SentKinds DEF VotingInv, OneValue, OneVotePerBallot

\* The members that have cast a chosen vote are a majority.
LEMMA InvChosen ==
    ASSUME QuorumFacts, Base, VotingInv PROVE PassedChosen
<1>1. \A q, b, d : Voted(q, b, d) <=> CastFor(msgs, q, b, d)
  BY ZenonT(40) DEF Voted, CastFor, Casts, Sent
<1>2. ASSUME NEW b, NEW d, ChosenIn(msgs, b, d) PROVE Chosen(b, d)
  <2> DEFINE S == {q \in Member : Voted(q, b, d)}
  <2>1. PICK Q \in Quorums : \A q \in Q : CastFor(msgs, q, b, d)
    BY ZenonT(40), <1>2 DEF ChosenIn
  <2>2. Q \subseteq S /\ S \in SUBSET Member
    BY ZenonT(40), <1>1, <2>1 DEF Quorums
  <2> HIDE DEF S
  <2>3. 2 * Cardinality(S) > Cardinality(Member)
    BY ZenonT(40), <2>2 DEF QuorumFacts, Quorums
  <2> QED
    BY ZenonT(40), <2>3 DEF Chosen, S
<1>3. \A p \in passed : Settled(msgs, p)
  BY ZenonT(40) DEF VotingInv, PassedInv
<1> QED
  BY ZenonT(40), <1>2, <1>3, SentKinds DEF Settled, PassedChosen

\* A candidate's answers are for its decree, and a primary holds its own ballot.
LEMMA InvAsserts ==
    ASSUME Base, VotingInv PROVE HandlerAsserts
<1>1. ASSUME NEW r \in Member, NEW m \in Sent("PrepareAccepted"),
             state[r] = "Preparing", learn[r] = NotLearning, m.bal.mem = r,
             IsSameDecree(m, maxAccepted[r].dec, maxBallot[r])
      PROVE  oldFreshest[r].dec = maxAccepted[r].dec
  BY ZenonT(40), <1>1, CandidateAnswered
<1>2. ASSUME NEW r \in Member, AmPrimary(r)
      PROVE  /\ outstanding[r] # NoVote => maxBallot[r] = maxAccepted[r].bal
             /\ maxBallot[r].mem = r
  BY ZenonT(40), <1>2 DEF VotingInv, RoleInv, PrimaryAt, Owns, AmPrimary
<1>3. \A r \in Member : BallotLeq(maxAccepted[r].bal, maxBallot[r])
  BY ZenonT(40) DEF Base, DurabilityInv, PromiseCoversVote
<1> QED
  BY ZenonT(40), <1>1, <1>2, <1>3 DEF HandlerAsserts
=============================================================================
