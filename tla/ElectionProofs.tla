---------------------------- MODULE ElectionProofs ----------------------------
(***************************************************************************)
(* What makes a vote safe to propose, the inductive invariant of           *)
(* agreement, and what a step of one replica can do to the votes: it is    *)
(* one of six kinds, and what candidates and primaries propose is safe.    *)
(* The operators of the first part speak of a set M of messages and a      *)
(* function P from members to the ballots they have promised, so that the  *)
(* lemmas can compare two moments of a behaviour.                          *)
(***************************************************************************)
EXTENDS LogProofs

\* The provers get more than their default time.
USE SMTT(40), ZenonT(40)

-----------------------------------------------------------------------------
(* Quorums. *)

Quorums == {Q \in SUBSET Member : 2 * Cardinality(Q) > Cardinality(Member)}

\* Two quorums have a member in common, QuorumSize - 1 answers make one with the
\* replica that counts them, and what contains one is one.
QuorumFacts ==
    /\ \A Q, R \in Quorums : \E q \in Q : q \in R
    /\ \A r \in Member : \A S \in SUBSET Member :
          r \notin S /\ Cardinality(S) >= QuorumSize - 1 => S \cup {r} \in Quorums
    /\ \A Q \in Quorums : \A S \in SUBSET Member : Q \subseteq S => S \in Quorums

\* Two quorums have a member in common.
LEMMA QuorumsMeet ==
    ASSUME QuorumFacts, NEW Q \in Quorums, NEW R \in Quorums
    PROVE  \E q \in Q : q \in R
BY ZenonT(40) DEF QuorumFacts

\* QuorumSize - 1 answers and the replica that counts them are a quorum.
LEMMA AnswersMakeQuorum ==
    ASSUME QuorumFacts, NEW r \in Member, NEW S \in SUBSET Member, r \notin S,
           Cardinality(S) >= QuorumSize - 1
    PROVE  S \cup {r} \in Quorums
BY ZenonT(40) DEF QuorumFacts

-----------------------------------------------------------------------------
(* Votes. *)

Proposals(M) == {m \in M : m.type = "Vote"}

\* The messages by which q has accepted a vote: its answers, and its own.
Casts(M, q) ==
    {m \in M : \/ m.type = "VoteAccepted" /\ m.src = q
               \/ m.type = "Vote" /\ m.bal.mem = q}

CastFor(M, q, bal, dec) == \E c \in Casts(M, q) : c.bal = bal /\ c.dec = dec

ChosenIn(M, bal, dec) ==
    \E Q \in Quorums : \A q \in Q : CastFor(M, q, bal, dec)

\* The decree was decided under this ballot or a lower one.
Decided(M, bal, dec) ==
    \E m \in Proposals(M) : /\ m.dec = dec /\ BallotLeq(m.bal, bal)
                            /\ ChosenIn(M, m.bal, dec)

Proposed(M, bal, dec, val) ==
    \E m \in Proposals(M) : m.bal = bal /\ m.dec = dec /\ m.val = val

\* A vote that a replica may hold: the one it was bootstrapped with, or one
\* whose value was proposed for the decree under its ballot or, if LearnVotes
\* made it up, a higher one.  The decree before it is decided.
Genuine(M, v) ==
    /\ \/ v.bal = ZeroBallot /\ v.dec = 1 /\ v.val = NoValue
       \/ /\ \E m \in Proposals(M) : m.bal = v.bal
          /\ \E m \in Proposals(M) : /\ m.dec = v.dec /\ m.val = v.val
                                     /\ BallotLeq(v.bal, m.bal)
    /\ v.dec > 1 => Decided(M, v.bal, v.dec - 1)

\* What q accepted under ballots below bal is no fresher than v.
Covered(M, q, bal, v) ==
    \A c \in Casts(M, q) : BallotLess(c.bal, bal) =>
        c.dec < v.dec \/ (c.dec = v.dec /\ BallotLeq(c.bal, v.bal))

\* The ballot can no longer get a quorum for the decree.
Dead(M, P, bal, dec) ==
    \E Q \in Quorums : \A q \in Q :
        BallotLess(bal, P[q]) /\ ~CastFor(M, q, bal, dec)

\* No lower ballot chooses another value for the decree.
Safe(M, P, m) ==
    \A b \in Ballot : BallotLess(b, m.bal) =>
        Dead(M, P, b, m.dec) \/ Proposed(M, b, m.dec, m.val)

\* A quorum has joined the ballot without anything accepted ahead of it.
Leading(M, P, m) ==
    \E Q \in Quorums : \A q \in Q :
        /\ BallotLeq(m.bal, P[q])
        /\ \A c \in Casts(M, q) : BallotLess(c.bal, m.bal) => c.dec <= m.dec

OneValue(M) ==
    \A m, n \in Proposals(M) : m.bal = n.bal /\ m.dec = n.dec => m.val = n.val

-----------------------------------------------------------------------------
(* From one moment to a later one. *)

\* Messages are added and promises grow; what is accepted is not below them.
Later(M, P, N, R) ==
    /\ M \subseteq N
    /\ \A q \in Member :
           /\ BallotLeq(P[q], R[q])
           /\ \A c \in Casts(N, q) \ Casts(M, q) : ~BallotLess(c.bal, P[q])

\* Messages and casts carry ballots and decrees.
LEMMA CastTypes ==
    ASSUME NEW M \in SUBSET Message
    PROVE  /\ \A m \in Proposals(M) :
                  m.bal \in Ballot /\ m.dec \in Decree /\ m.val \in AnyValue
           /\ \A q : \A c \in Casts(M, q) : c.bal \in Ballot /\ c.dec \in Decree
  BY ZenonT(40) DEF Proposals, Casts, Message

\* More messages choose no less.
LEMMA MoreMessages ==
    ASSUME NEW M, NEW N, M \subseteq N
    PROVE  /\ Proposals(M) \subseteq Proposals(N)
           /\ \A q : Casts(M, q) \subseteq Casts(N, q)
           /\ \A b, d : ChosenIn(M, b, d) => ChosenIn(N, b, d)
           /\ \A b, d : Decided(M, b, d) => Decided(N, b, d)
           /\ \A b, d, v : Proposed(M, b, d, v) => Proposed(N, b, d, v)
           /\ \A v : Genuine(M, v) => Genuine(N, v)
<1>1. Proposals(M) \subseteq Proposals(N)
  BY ZenonT(40) DEF Proposals
<1>2. \A q : Casts(M, q) \subseteq Casts(N, q)
  BY ZenonT(40) DEF Casts
<1>3. \A b, d : ChosenIn(M, b, d) => ChosenIn(N, b, d)
  BY ZenonT(40), <1>2 DEF ChosenIn, CastFor
<1>4. \A b, d : Decided(M, b, d) => Decided(N, b, d)
  BY ZenonT(40), <1>1, <1>3 DEF Decided
<1>5. \A b, d, v : Proposed(M, b, d, v) => Proposed(N, b, d, v)
  BY ZenonT(40), <1>1 DEF Proposed
<1>6. \A v : Genuine(M, v) => Genuine(N, v)
  BY ZenonT(40), <1>1, <1>4 DEF Genuine
<1> QED
  BY ZenonT(40), <1>1, <1>2, <1>3, <1>4, <1>5, <1>6

\* What is covered up to a promised ballot stays covered.
LEMMA CoveredStable ==
    ASSUME NEW M \in SUBSET Message, NEW N \in SUBSET Message,
           NEW P \in [Member -> Ballot], NEW R \in [Member -> Ballot],
           Later(M, P, N, R), NEW q \in Member, NEW bal \in Ballot, NEW v,
           BallotLeq(bal, P[q]), Covered(M, q, bal, v)
    PROVE  Covered(N, q, bal, v)
<1>1. SUFFICES ASSUME NEW c \in Casts(N, q), BallotLess(c.bal, bal)
               PROVE  c \in Casts(M, q)
  BY ZenonT(40) DEF Covered
<1>2. c.bal \in Ballot /\ P[q] \in Ballot
  BY ZenonT(40), CastTypes
<1>3. BallotLess(c.bal, P[q])
  BY ZenonT(40), <1>1, <1>2, BallotOrder
<1> QED
  BY ZenonT(40), <1>3 DEF Later

\* What a vote covers, a fresher vote covers.
LEMMA FresherCovers ==
    ASSUME NEW M \in SUBSET Message, NEW q, NEW bal, NEW v \in Vote,
           NEW w \in Vote, Covered(M, q, bal, v),
           v.dec < w.dec \/ (v.dec = w.dec /\ BallotLeq(v.bal, w.bal))
    PROVE  Covered(M, q, bal, w)
<1>1. SUFFICES ASSUME NEW c \in Casts(M, q), BallotLess(c.bal, bal)
               PROVE  c.dec < w.dec \/ (c.dec = w.dec /\ BallotLeq(c.bal, w.bal))
  BY ZenonT(40) DEF Covered
<1>2. /\ c.bal \in Ballot /\ v.bal \in Ballot /\ w.bal \in Ballot
      /\ c.dec \in Nat /\ v.dec \in Nat /\ w.dec \in Nat
  BY ZenonT(40), CastTypes DEF Vote, Decree
<1>3. c.dec < v.dec \/ (c.dec = v.dec /\ BallotLeq(c.bal, v.bal))
  BY ZenonT(40), <1>1 DEF Covered
<1>4. CASE c.dec < v.dec
  BY <1>2, <1>4
<1>5. CASE c.dec = v.dec /\ BallotLeq(c.bal, v.bal)
  BY ZenonT(40), <1>2, <1>5, BallotOrder
<1> QED
  BY ZenonT(40), <1>3, <1>4, <1>5

\* A ballot that cannot get a quorum never will.
LEMMA DeadStable ==
    ASSUME NEW M \in SUBSET Message, NEW N \in SUBSET Message,
           NEW P \in [Member -> Ballot], NEW R \in [Member -> Ballot],
           Later(M, P, N, R), NEW b \in Ballot, NEW d, Dead(M, P, b, d)
    PROVE  Dead(N, R, b, d)
<1>1. PICK Q \in Quorums : \A q \in Q :
          BallotLess(b, P[q]) /\ ~CastFor(M, q, b, d)
  BY ZenonT(40) DEF Dead
<1>2. ASSUME NEW q \in Q
      PROVE  BallotLess(b, R[q]) /\ ~CastFor(N, q, b, d)
  <2>1. q \in Member /\ P[q] \in Ballot /\ R[q] \in Ballot
    BY ZenonT(40) DEF Quorums
  <2>2. BallotLess(b, R[q])
    BY ZenonT(40), <1>1, <2>1, BallotOrder DEF Later
  <2>3. ~CastFor(N, q, b, d)
    BY ZenonT(40), <1>1, <2>1 DEF Later, CastFor
  <2> QED
    BY ZenonT(40), <2>2, <2>3
<1> QED
  BY ZenonT(40), <1>2 DEF Dead

\* A vote that was safe, and ahead of a quorum, stays so.
LEMMA SafeStable ==
    ASSUME NEW M \in SUBSET Message, NEW N \in SUBSET Message,
           NEW P \in [Member -> Ballot], NEW R \in [Member -> Ballot],
           Later(M, P, N, R), NEW m, m.bal \in Ballot
    PROVE  /\ Safe(M, P, m) => Safe(N, R, m)
           /\ Leading(M, P, m) => Leading(N, R, m)
<1>1. m.bal \in Ballot
  BY Zenon
<1>2. ASSUME Safe(M, P, m) PROVE Safe(N, R, m)
  <2>1. \A b \in Ballot : Dead(M, P, b, m.dec) => Dead(N, R, b, m.dec)
    BY ZenonT(40), DeadStable
  <2>2. \A b : Proposed(M, b, m.dec, m.val) => Proposed(N, b, m.dec, m.val)
    BY ZenonT(40), MoreMessages DEF Later
  <2> QED
    BY ZenonT(40), <1>2, <2>1, <2>2 DEF Safe
<1>3. ASSUME Leading(M, P, m) PROVE Leading(N, R, m)
  <2>1. PICK Q \in Quorums : \A q \in Q :
            /\ BallotLeq(m.bal, P[q])
            /\ \A c \in Casts(M, q) : BallotLess(c.bal, m.bal) => c.dec <= m.dec
    BY ZenonT(40), <1>3 DEF Leading
  <2>2. ASSUME NEW q \in Q
        PROVE  /\ BallotLeq(m.bal, R[q])
               /\ \A c \in Casts(N, q) :
                      BallotLess(c.bal, m.bal) => c.dec <= m.dec
    <3>1. q \in Member /\ P[q] \in Ballot /\ R[q] \in Ballot
      BY ZenonT(40) DEF Quorums
    <3>2. BallotLeq(m.bal, R[q])
      BY ZenonT(40), <1>1, <2>1, <3>1, BallotOrder DEF Later
    <3>3. ASSUME NEW c \in Casts(N, q), BallotLess(c.bal, m.bal)
          PROVE  c \in Casts(M, q)
      <4>1. c.bal \in Ballot
        BY ZenonT(40), CastTypes
      <4>2. BallotLess(c.bal, P[q])
        BY ZenonT(40), <1>1, <2>1, <3>1, <3>3, <4>1, BallotOrder
      <4> QED
        BY ZenonT(40), <3>1, <4>2 DEF Later
    <3> QED
      BY ZenonT(40), <2>1, <3>2, <3>3
  <2> QED
    BY ZenonT(40), <2>2 DEF Leading
<1> QED
  BY ZenonT(40), <1>2, <1>3

-----------------------------------------------------------------------------
(* One value for a decree. *)

\* A later vote for a decided decree carries the decided value.
LEMMA ChosenAgree ==
    ASSUME QuorumFacts, NEW M \in SUBSET Message, NEW P, OneValue(M),
           NEW m \in Proposals(M), NEW n \in Proposals(M), Safe(M, P, n),
           m.dec = n.dec, BallotLeq(m.bal, n.bal), ChosenIn(M, m.bal, m.dec)
    PROVE  m.val = n.val
<1>1. m.bal \in Ballot /\ n.bal \in Ballot
  BY ZenonT(40), CastTypes
<1>2. CASE m.bal = n.bal
  BY ZenonT(40), <1>2 DEF OneValue
<1>3. CASE BallotLess(m.bal, n.bal)
  <2>1. ~Dead(M, P, m.bal, m.dec)
    BY ZenonT(40), QuorumsMeet DEF Dead, ChosenIn
  <2>2. Proposed(M, m.bal, m.dec, n.val)
    BY ZenonT(40), <1>1, <1>3, <2>1 DEF Safe
  <2> QED
    BY ZenonT(40), <2>2 DEF Proposed, OneValue
<1> QED
  BY ZenonT(40), <1>2, <1>3 DEF BallotLeq

\* A vote that a replica holds at or above the ballot under which its decree
\* was decided carries the decided value.
LEMMA GenuineAgrees ==
    ASSUME QuorumFacts, NEW M \in SUBSET Message, NEW P, OneValue(M),
           \A n \in Proposals(M) : Safe(M, P, n) /\ n.bal # ZeroBallot,
           NEW m \in Proposals(M), ChosenIn(M, m.bal, m.dec),
           NEW v \in Vote, Genuine(M, v), v.dec = m.dec,
           BallotLeq(m.bal, v.bal)
    PROVE  v.val = m.val
<1>1. m.bal \in Ballot /\ m.bal # ZeroBallot /\ v.bal \in Ballot
  BY ZenonT(40), CastTypes DEF Vote
<1>2. v.bal # ZeroBallot
  BY ZenonT(40), <1>1, ZeroIsLeast, BallotOrder
<1>3. PICK n \in Proposals(M) : /\ n.dec = v.dec /\ n.val = v.val
                                /\ BallotLeq(v.bal, n.bal)
  BY ZenonT(40), <1>2 DEF Genuine
<1>4. n.bal \in Ballot
  BY ZenonT(40), CastTypes
<1>5. BallotLeq(m.bal, n.bal)
  BY ZenonT(40), <1>1, <1>3, <1>4, BallotOrder
<1> QED
  BY <1>3, <1>5, ChosenAgree

\* Two decisions for a decree have one value.
LEMMA DecisionsAgree ==
    ASSUME QuorumFacts, NEW M \in SUBSET Message, NEW P, OneValue(M),
           \A n \in Proposals(M) : Safe(M, P, n),
           NEW m \in Proposals(M), ChosenIn(M, m.bal, m.dec),
           NEW n \in Proposals(M), ChosenIn(M, n.bal, n.dec), m.dec = n.dec
    PROVE  m.val = n.val
<1>1. m.bal \in Ballot /\ n.bal \in Ballot
  BY ZenonT(40), CastTypes
<1>2. BallotLeq(m.bal, n.bal) \/ BallotLeq(n.bal, m.bal)
  BY ZenonT(40), <1>1, BallotOrder DEF BallotLeq
<1> QED
  BY ZenonT(40), <1>2, ChosenAgree

-----------------------------------------------------------------------------
(* A new vote. *)

\* The first vote of a ballot carries the value of the freshest vote that a
\* quorum reported when it joined the ballot.
LEMMA FirstVoteSafe ==
    ASSUME NEW M \in SUBSET Message, NEW P \in [Member -> Ballot],
           \A n \in Proposals(M) : Safe(M, P, n),
           \A q \in Member : \A c \in Casts(M, q) : c.bal # ZeroBallot,
           NEW bal \in Ballot, NEW v \in Vote, Genuine(M, v),
           NEW Q \in Quorums,
           \A q \in Q : BallotLeq(bal, P[q]) /\ Covered(M, q, bal, v)
    PROVE  \A m : m.bal = bal /\ m.dec = v.dec /\ m.val = v.val
                      => Safe(M, P, m) /\ Leading(M, P, m)
<1>1. ASSUME NEW m, m.bal = bal, m.dec = v.dec, m.val = v.val
      PROVE  Leading(M, P, m)
  <2>1. ASSUME NEW q \in Q, NEW c \in Casts(M, q), BallotLess(c.bal, m.bal)
        PROVE  c.dec <= m.dec
    <3>1. c.dec \in Decree /\ v.dec \in Decree
      BY ZenonT(40), CastTypes DEF Vote
    <3>2. c.dec < v.dec \/ c.dec = v.dec
      BY ZenonT(40), <1>1, <2>1 DEF Covered
    <3> QED
      BY <1>1, <3>1, <3>2 DEF Decree
  <2> QED
    BY ZenonT(40), <1>1, <2>1 DEF Leading
<1>2. ASSUME NEW b \in Ballot, BallotLess(b, bal)
      PROVE  Dead(M, P, b, v.dec) \/ Proposed(M, b, v.dec, v.val)
  <2>1. v.bal \in Ballot
    BY ZenonT(40) DEF Vote
  <2>2. CASE BallotLess(v.bal, b) \/ b = ZeroBallot
    <3>1. ASSUME NEW q \in Q
          PROVE  BallotLess(b, P[q]) /\ ~CastFor(M, q, b, v.dec)
      <4>1. q \in Member /\ P[q] \in Ballot
        BY ZenonT(40) DEF Quorums
      <4>2. BallotLess(b, P[q])
        BY ZenonT(40), <1>2, <4>1, BallotOrder
      <4>3. ASSUME NEW c \in Casts(M, q), c.bal = b, c.dec = v.dec
            PROVE  FALSE
        <5>1. b # ZeroBallot
          BY ZenonT(40), <4>1, <4>3
        <5>2. BallotLeq(b, v.bal)
          <6>1. ~(c.dec < v.dec)
            BY <4>3 DEF Vote, Decree
          <6> QED
            BY ZenonT(40), <1>2, <4>3, <6>1 DEF Covered
        <5> QED
          BY <2>1, <2>2, <5>1, <5>2, BallotOrder
      <4> QED
        BY ZenonT(40), <4>2, <4>3 DEF CastFor
    <3> QED
      BY ZenonT(40), <3>1 DEF Dead
  <2>3. CASE ~BallotLess(v.bal, b) /\ b # ZeroBallot
    <3>1. BallotLeq(b, v.bal) /\ v.bal # ZeroBallot
      BY ZenonT(40), <2>1, <2>3, ZeroIsLeast, BallotOrder
    <3>2. PICK n \in Proposals(M) : /\ n.dec = v.dec /\ n.val = v.val
                                    /\ BallotLeq(v.bal, n.bal)
      BY ZenonT(40), <3>1 DEF Genuine
    <3>3. n.bal \in Ballot
      BY ZenonT(40), CastTypes
    <3>4. BallotLeq(b, n.bal)
      BY <2>1, <3>1, <3>2, <3>3, BallotOrder
    <3>5. CASE b = n.bal
      BY ZenonT(40), <3>2, <3>5 DEF Proposed
    <3>6. CASE BallotLess(b, n.bal)
      BY ZenonT(40), <3>2, <3>6 DEF Safe
    <3> QED
      BY ZenonT(40), <3>4, <3>5, <3>6 DEF BallotLeq
  <2> QED
    BY ZenonT(40), <2>2, <2>3
<1> QED
  BY ZenonT(40), <1>1, <1>2 DEF Safe

\* The next vote of the ballot may carry any value.
LEMMA NextVoteSafe ==
    ASSUME NEW M \in SUBSET Message, NEW P \in [Member -> Ballot],
           NEW n \in Proposals(M), Leading(M, P, n)
    PROVE  \A m : m.bal = n.bal /\ m.dec = n.dec + 1
                      => Safe(M, P, m) /\ Leading(M, P, m)
<1>1. n.bal \in Ballot /\ n.dec \in Nat
  BY ZenonT(40), CastTypes DEF Decree
<1>2. PICK Q \in Quorums : \A q \in Q :
          /\ BallotLeq(n.bal, P[q])
          /\ \A c \in Casts(M, q) : BallotLess(c.bal, n.bal) => c.dec <= n.dec
  BY ZenonT(40) DEF Leading
<1>3. \A q \in Q : \A c \in Casts(M, q) : c.dec \in Nat
  BY ZenonT(40), CastTypes DEF Decree
<1>4. ASSUME NEW m, m.bal = n.bal, m.dec = n.dec + 1 PROVE Leading(M, P, m)
  BY <1>1, <1>2, <1>3, <1>4 DEF Leading
<1>5. ASSUME NEW b \in Ballot, BallotLess(b, n.bal)
      PROVE  Dead(M, P, b, n.dec + 1)
  <2>1. ASSUME NEW q \in Q
        PROVE  BallotLess(b, P[q]) /\ ~CastFor(M, q, b, n.dec + 1)
    <3>1. P[q] \in Ballot
      BY ZenonT(40) DEF Quorums
    <3>2. BallotLess(b, P[q])
      BY <1>1, <1>2, <1>5, <3>1, BallotOrder
    <3>3. ~CastFor(M, q, b, n.dec + 1)
      BY <1>1, <1>2, <1>5 DEF CastFor
    <3> QED
      BY ZenonT(40), <3>2, <3>3
  <2> QED
    BY ZenonT(40), <2>1 DEF Dead
<1> QED
  BY ZenonT(40), <1>4, <1>5 DEF Safe

-----------------------------------------------------------------------------
(* The invariant. *)

Asked(M) == {m \in M : m.type = "Prepare"}

Joined(M) == {m \in M : m.type = "PrepareAccepted"}

Accepted(M) == {m \in M : m.type = "VoteAccepted"}

VotesIn(l) ==
    {[bal |-> l[i].bal, dec |-> l[i].dec, val |-> l[i].val] :
        i \in VotesUpTo(l, Len(l))}

\* A replica still holds the last vote it accepted, or a later one.
CastInv ==
    /\ \A m \in Proposals(msgs) : m.bal.mem \in Member
    /\ \A q \in Member : \A c \in Casts(msgs, q) :
           BallotLeq(c.bal, maxAccepted[q].bal) /\ c.dec <= maxAccepted[q].dec
    /\ \A m \in Accepted(msgs) :
           /\ m.src # m.bal.mem
           /\ \E n \in Proposals(msgs) : n.bal = m.bal /\ n.dec = m.dec

SafeInv ==
    \A m \in Proposals(msgs) :
        Safe(msgs, maxBallot, m) /\ Leading(msgs, maxBallot, m)

GenuineInv ==
    /\ \A m \in Proposals(msgs) : Genuine(msgs, m)
    /\ \A m \in Joined(msgs) : Genuine(msgs, m.vote)
    /\ \A r \in Member : Genuine(msgs, maxAccepted[r])
    /\ \A r \in Member : \A v \in VotesIn(log[r]) :
           Genuine(msgs, v) /\ v.dec <= maxAccepted[r].dec

\* A prepare asks for a decree its owner has accepted, and its answer covers
\* what the sender had accepted.
PromiseInv ==
    /\ \A m \in Asked(msgs) :
           m.bal.mem \in Member /\ m.dec <= maxAccepted[m.bal.mem].dec
    /\ \A m \in Joined(msgs) :
           /\ m.src # m.bal.mem /\ m.vote.dec <= m.dec
           /\ Covered(msgs, m.src, m.bal, m.vote)
           /\ \E n \in Asked(msgs) : n.bal = m.bal /\ n.dec = m.dec

\* What is known of a vote that some replica has executed.
Settled(M, v) ==
    \E m \in Proposals(M) :
        m.dec = v.dec /\ m.val = v.val /\ ChosenIn(M, m.bal, m.dec)

PassedInv ==
    /\ \A p \in passed : Settled(msgs, p)
    /\ PassInOrder
    /\ \A r \in Member : \A d \in 1..lastPassed[r] :
           \E p \in passed : p.dec = d

\* A candidate holds the freshest vote of the members that have joined it.
CandidateAt(r) ==
    state[r] = "Preparing" /\ learn[r] = NotLearning /\ maxBallot[r].mem = r =>
        /\ oldFreshest[r] \in Vote /\ Genuine(msgs, oldFreshest[r])
        /\ oldFreshest[r].dec <= maxAccepted[r].dec
        /\ BallotLeq(oldFreshest[r].bal, maxBallot[r])
        /\ \A m \in Proposals(msgs) : m.bal # maxBallot[r]
        /\ \A m \in Asked(msgs) :
               m.bal = maxBallot[r] => m.dec <= oldFreshest[r].dec
        /\ \A q \in responses[r] \cup {r} :
               /\ BallotLeq(maxBallot[r], maxBallot[q])
               /\ Covered(msgs, q, maxBallot[r], oldFreshest[r])

\* A primary holds its own last vote, which has passed if nothing is
\* outstanding.
Owns(r) ==
    /\ maxAccepted[r].bal = maxBallot[r]
    /\ Proposed(msgs, maxAccepted[r].bal, maxAccepted[r].dec,
                maxAccepted[r].val)

PrimaryAt(r) ==
    state[r] = "StablePrimary" =>
        /\ learn[r] = NotLearning /\ maxBallot[r].mem = r
        /\ outstanding[r] # NoVote =>
               /\ Owns(r)
               /\ \A q \in responses[r] :
                      CastFor(msgs, q, maxAccepted[r].bal, maxAccepted[r].dec)
        /\ outstanding[r] = NoVote /\ ~relinquish[r] =>
               /\ Owns(r)
               /\ ChosenIn(msgs, maxAccepted[r].bal, maxAccepted[r].dec)
               /\ lastPassed[r] = maxAccepted[r].dec

RoleInv ==
    \A r \in Member : r \notin responses[r] /\ CandidateAt(r) /\ PrimaryAt(r)

VotingInv ==
    /\ CastInv /\ OneValue(msgs) /\ SafeInv /\ GenuineInv
    /\ PromiseInv /\ PassedInv /\ RoleInv

\* What the earlier theorems provide.
Base == TypeOK /\ DurabilityInv /\ PromiseKept

-----------------------------------------------------------------------------
(* What the records of a log contribute. *)

\* Sent, by the type of the message.
LEMMA SentKinds ==
    /\ Sent("Vote") = Proposals(msgs) /\ Sent("Prepare") = Asked(msgs)
    /\ Sent("PrepareAccepted") = Joined(msgs)
    /\ Sent("VoteAccepted") = Accepted(msgs)
  BY ZenonT(40) DEF Sent, Proposals, Asked, Joined, Accepted

\* Appending a record adds at most the vote in it.
LEMMA VotesInAppend ==
    ASSUME NEW l \in Seq(Record), NEW rec \in Record
    PROVE  VotesIn(Append(l, rec)) \subseteq
               VotesIn(l) \cup
                   (IF rec.kind = "Vote"
                    THEN {[bal |-> rec.bal, dec |-> rec.dec, val |-> rec.val]}
                    ELSE {})
<1> DEFINE k == Append(l, rec)
<1>1. /\ Len(l) \in Nat
      /\ Len(k) = Len(l) + 1
      /\ k[Len(l) + 1] = rec
      /\ \A i \in 1..Len(l) : k[i] = l[i]
  OBVIOUS
<1> HIDE DEF k
<1>2. ASSUME NEW i \in VotesUpTo(k, Len(k))
      PROVE  \/ i \in VotesUpTo(l, Len(l)) /\ k[i] = l[i]
             \/ k[i] = rec /\ rec.kind = "Vote"
  BY <1>1 DEF VotesUpTo
<1>3. VotesIn(k) \subseteq
          VotesIn(l) \cup
              (IF rec.kind = "Vote"
               THEN {[bal |-> rec.bal, dec |-> rec.dec, val |-> rec.val]}
               ELSE {})
  BY ZenonT(40), <1>2 DEF VotesIn
<1> QED
  BY ZenonT(40), <1>3 DEF k

\* What replay holds is a vote of the log, or the vote of the bootstrap.
LEMMA LoggedVoteIsIn ==
    ASSUME MaximaExist, NEW l \in Seq(Record), NEW n \in 0..Len(l)
    PROVE  LoggedVote(l, n) \in VotesIn(l) \cup {InitialVote}
<1>1. CASE VotesUpTo(l, n) # {}
  <2>1. n \in Nat /\ VotesUpTo(l, n) \in SUBSET (1..n)
    BY DEF VotesUpTo
  <2>2. \E i \in VotesUpTo(l, n) : \A j \in VotesUpTo(l, n) : j <= i
    BY ZenonT(40), <1>1, <2>1, MaximumExists
  <2> DEFINE i == CHOOSE i \in VotesUpTo(l, n) :
                      \A j \in VotesUpTo(l, n) : j <= i
  <2>3. i \in VotesUpTo(l, n)
    BY ZenonT(40), <2>2
  <2>4. i \in VotesUpTo(l, Len(l))
    BY <2>3 DEF VotesUpTo
  <2> QED
    BY ZenonT(40), <1>1, <2>4 DEF LoggedVote, VotesIn
<1> QED
  BY ZenonT(40), <1>1 DEF LoggedVote

\* A step accepts nothing lower, and logs no vote but the one it accepts.
LEMMA AcceptedGrows ==
    ASSUME TypeOK, TypeOK', LogEffect, NEW q \in Member
    PROVE  /\ BallotLeq(maxAccepted[q].bal, maxAccepted'[q].bal)
           /\ maxAccepted[q].dec <= maxAccepted'[q].dec
           /\ VotesIn(log'[q]) \subseteq VotesIn(log[q]) \cup {maxAccepted'[q]}
<1>1. /\ maxAccepted[q] \in Vote /\ maxAccepted'[q] \in Vote
      /\ maxAccepted[q].bal \in Ballot /\ maxAccepted'[q].bal \in Ballot
      /\ maxAccepted[q].dec \in Nat /\ maxAccepted'[q].dec \in Nat
      /\ log[q] \in Seq(Record)
  BY ZenonT(40) DEF TypeOK, Vote, Decree
<1>2. BallotLeq(maxAccepted[q].bal, maxAccepted[q].bal)
  BY ZenonT(40), <1>1, BallotOrder
<1>3. CASE Quiet
  BY <1>1, <1>2, <1>3 DEF Quiet
<1>4. ASSUME NEW r \in Member, NEW bal \in Ballot, NEW dec \in Decree,
             LogsPrepare(r, bal, dec)
      PROVE  /\ BallotLeq(maxAccepted[q].bal, maxAccepted'[q].bal)
             /\ maxAccepted[q].dec <= maxAccepted'[q].dec
             /\ VotesIn(log'[q]) \subseteq
                    VotesIn(log[q]) \cup {maxAccepted'[q]}
  <2>1. /\ PrepareRecord(bal, dec) \in Record
        /\ PrepareRecord(bal, dec).kind # "Vote"
    BY ZenonT(40), ConstantTypes DEF PrepareRecord
  <2>2. log'[q] = IF q = r THEN Append(log[q], PrepareRecord(bal, dec))
                           ELSE log[q]
    BY ZenonT(40), <1>4 DEF LogsPrepare, TypeOK
  <2>3. VotesIn(log'[q]) \subseteq VotesIn(log[q])
    BY <1>1, <2>1, <2>2, VotesInAppend
  <2> QED
    BY <1>1, <1>2, <1>4, <2>3 DEF LogsPrepare
<1>5. ASSUME NEW r \in Member, NEW vote \in Vote, LogsVote(r, vote)
      PROVE  /\ BallotLeq(maxAccepted[q].bal, maxAccepted'[q].bal)
             /\ maxAccepted[q].dec <= maxAccepted'[q].dec
             /\ VotesIn(log'[q]) \subseteq
                    VotesIn(log[q]) \cup {maxAccepted'[q]}
  <2>1. CASE q # r
    <3>1. log'[q] = log[q] /\ maxAccepted'[q] = maxAccepted[q]
      BY <1>5, <2>1 DEF LogsVote, TypeOK
    <3> QED
      BY <1>1, <1>2, <3>1
  <2>2. CASE q = r
    <3>1. /\ VoteRecord(vote) \in Record
          /\ VoteRecord(vote).bal = vote.bal /\ VoteRecord(vote).dec = vote.dec
          /\ VoteRecord(vote).val = vote.val
          /\ [bal |-> vote.bal, dec |-> vote.dec, val |-> vote.val] = vote
      BY ZenonT(40), ConstantTypes DEF VoteRecord, Vote
    <3>2. /\ log'[q] = Append(log[q], VoteRecord(vote))
          /\ maxAccepted'[q] = vote
      BY <1>5, <2>2 DEF LogsVote, TypeOK
    <3>3. VotesIn(log'[q]) \subseteq VotesIn(log[q]) \cup {vote}
      BY <1>1, <3>1, <3>2, VotesInAppend
    <3>4. /\ BallotLeq(maxAccepted[q].bal, vote.bal)
          /\ maxAccepted[q].dec <= vote.dec
      <4>1. /\ IsNextDecree(vote, maxAccepted[r].dec, maxAccepted[r].bal)
            /\ maxAccepted[r].dec \in Nat
        BY ZenonT(40), <1>1, <1>2, <1>5, <2>2 DEF LogsVote
      <4> QED
        BY ZenonT(40), <2>2, <4>1, NextIsNotLower
    <3> QED
      BY ZenonT(40), <3>2, <3>3, <3>4
  <2> QED
    BY ZenonT(40), <2>1, <2>2
<1> QED
  BY ZenonT(40), <1>3, <1>4, <1>5 DEF LogEffect

-----------------------------------------------------------------------------
(* What a step does to the votes. *)

\* The messages that no vote depends on: rejections, and prepares of r.
QuietNews(r) ==
    /\ msgs \subseteq msgs'
    /\ \A m \in msgs' \ msgs :
           \/ m.type = "NotAccepted"
           \/ /\ m.type = "Prepare" /\ m.bal.mem = r
              /\ m.dec = maxAccepted[r].dec

Listens(r) ==
    UNCHANGED <<maxAccepted, lastPassed, passed>> /\ QuietNews(r)

Joins(r) ==
    /\ UNCHANGED <<maxAccepted, lastPassed, passed>>
    /\ \E m \in Asked(msgs) :
           /\ m.bal.mem # r
           /\ maxAccepted[r].dec <= m.dec
           /\ msgs' = msgs \cup
                          {PrepareAcceptedMsg(r, m.bal, m.dec, maxAccepted[r])}

Proposes(r, v, rp) ==
    /\ v.bal = maxBallot[r] /\ maxBallot[r].mem = r
    /\ Safe(msgs, maxBallot, v) /\ Leading(msgs, maxBallot, v)
    /\ \A m \in Proposals(msgs) : ~(m.bal = v.bal /\ m.dec = v.dec)
    /\ v.dec > 1 => Decided(msgs, v.bal, v.dec - 1)
    /\ \/ v.dec = maxAccepted[r].dec
       \/ v.dec = maxAccepted[r].dec + 1 /\ lastPassed[r] = maxAccepted[r].dec
    /\ maxAccepted' = [maxAccepted EXCEPT ![r] = v]
    /\ msgs' = msgs \cup {VoteMsg(v, rp)}
    /\ UNCHANGED <<lastPassed, passed>>

Accepts(r, v) ==
    /\ IsNextDecree(v, maxAccepted[r].dec, maxAccepted[r].bal)
    /\ Genuine(msgs, v)
    /\ IF v.dec = maxAccepted[r].dec + 1
       THEN AddToExecutionQueue(r, maxAccepted[r])
       ELSE UNCHANGED <<lastPassed, passed>>
    /\ maxAccepted' = [maxAccepted EXCEPT ![r] = v]
    /\ \/ QuietNews(r)
       \/ /\ msgs' = msgs \cup {VoteAcceptedMsg(r, v.bal, v.dec)}
          /\ v.bal.mem # r /\ ~BallotLess(v.bal, maxBallot[r])
          /\ \E m \in Proposals(msgs) : m.bal = v.bal /\ m.dec = v.dec

Passes(r) ==
    /\ Settled(msgs, maxAccepted[r])
    /\ AddToExecutionQueue(r, maxAccepted[r])
    /\ UNCHANGED <<maxAccepted, msgs>>

Restores(r) == RestoreState(r) /\ UNCHANGED log /\ QuietNews(r)

KindOf(r) ==
    \/ Listens(r) \/ Joins(r)
    \/ \E v \in Vote, rp \in BOOLEAN : Proposes(r, v, rp)
    \/ \E v \in Vote : Accepts(r, v)
    \/ Passes(r) \/ Restores(r)

\* What the owner of a replica's state sees of a step of another one.
Untouched(q) ==
    /\ state'[q] = state[q] /\ learn'[q] = learn[q]
    /\ maxBallot'[q] = maxBallot[q] /\ maxAccepted'[q] = maxAccepted[q]
    /\ oldFreshest'[q] = oldFreshest[q] /\ outstanding'[q] = outstanding[q]
    /\ responses'[q] = responses[q] /\ relinquish'[q] = relinquish[q]
    /\ lastPassed'[q] = lastPassed[q]

\* A step of one replica leaves the others alone.
LEMMA OthersUntouched ==
    ASSUME TypeOK, NEW r \in Member, StepOf(r), NEW q \in Member \ {r}
    PROVE  Untouched(q)
<1> USE DEF TypeOK, Untouched
<1>0. ASSUME NEW v, NEW rp, SendVote(r, v, rp)
      PROVE  /\ outstanding'[q] = outstanding[q] /\ responses'[q] = responses[q]
             /\ maxAccepted'[q] = maxAccepted[q] /\ maxBallot'[q] = maxBallot[q]
  BY <1>0 DEF SendVote, LogVote
<1>1. CASE TimerStartInitializing(r)
  BY ZenonT(40), <1>1 DEF TimerStartInitializing, StartInitializing
<1>2. ASSUME NEW p \in Member, StatusStep(r, p) PROVE Untouched(q)
  <2>1. CASE StatusWait(r, p)
    BY <2>1 DEF StatusWait
  <2>2. CASE StatusLearn(r, p)
    BY <2>2 DEF StatusLearn, StartLearning
  <2>3. CASE StatusSecondary(r, p)
    BY <2>3 DEF StatusSecondary, StartBeingStableSecondary
  <2>4. CASE StatusPrepare(r, p)
    BY <2>4 DEF StatusPrepare, StartPreparing, LogPrepare
  <2>5. CASE StatusPrepareCrash(r, p)
    BY ZenonT(40), <2>5 DEF StatusPrepareCrash, RestoreState, RestoreFrom
  <2>6. CASE StatusAhead(r, p)
    BY ZenonT(40), <2>6 DEF StatusAhead, StartLearning
  <2> QED
    BY <1>2, <2>1, <2>2, <2>3, <2>4, <2>5, <2>6 DEF StatusStep
<1>3. CASE LearnStep(r)
  <2>1. CASE LearnPrepare(r)
    BY <2>1 DEF LearnPrepare, LogPrepare, Advance
  <2>2. CASE LearnSkip(r) \/ LearnEnd(r)
    BY <2>2 DEF LearnSkip, Advance, LearnEnd, StartInitializing
  <2>3. CASE LearnMissing(r)
    BY <2>3 DEF LearnMissing, LogAndAcceptVote, LogVote, AddToExecutionQueue
  <2>4. CASE LearnAccept(r)
    BY <2>4 DEF LearnAccept, LogAndAcceptVote, LogVote, AddToExecutionQueue,
                Advance, StartBeingStableSecondary
  <2> QED
    BY <1>3, <2>1, <2>2, <2>3, <2>4 DEF LearnStep
<1>4. CASE MessageStep(r)
  <2>1. ASSUME NEW m, HandlePrepareLower(r, m) \/ HandleVoteLower(r, m)
        PROVE  Untouched(q)
    BY <2>1 DEF HandlePrepareLower, HandleVoteLower, volatile
  <2>2. ASSUME NEW m, HandlePrepareMsg(r, m) PROVE Untouched(q)
    BY <2>2 DEF HandlePrepareMsg, LogPrepare, StartInitializing,
                StartBeingStableSecondary
  <2>3. ASSUME NEW m, HandlePrepareAcceptedMsg(r, m) PROVE Untouched(q)
    <3>1. CASE Cardinality(responses[r] \cup {m.src}) >= QuorumSize - 1
      <4>1. StartBeingStablePrimary(r, Fresher(r, m.vote))
        BY <2>3, <3>1 DEF HandlePrepareAcceptedMsg
      <4>2. UNCHANGED <<statusMap, relinquish, learn, lastPassed, passed>>
        BY <2>3 DEF HandlePrepareAcceptedMsg
      <4>3. CASE relinquish[r]
        BY <4>1, <4>2, <4>3 DEF StartBeingStablePrimary
      <4>4. CASE ~relinquish[r]
        <5>1. /\ state' = [state EXCEPT ![r] = "StablePrimary"]
              /\ oldFreshest' = [oldFreshest EXCEPT ![r] = NoVote]
              /\ \E v : SendVote(r, v, FALSE)
          BY ZenonT(40), <4>1, <4>4 DEF StartBeingStablePrimary
        <5> QED
          BY ZenonT(40), <1>0, <4>2, <5>1
      <4> QED
        BY ZenonT(40), <4>3, <4>4
    <3>2. CASE ~(Cardinality(responses[r] \cup {m.src}) >= QuorumSize - 1)
      BY <2>3, <3>2 DEF HandlePrepareAcceptedMsg
    <3> QED
      BY ZenonT(40), <3>1, <3>2
  <2>4. ASSUME NEW m, HandleNotAcceptedMsg(r, m) PROVE Untouched(q)
    BY <2>4 DEF HandleNotAcceptedMsg, LogPrepare, StartInitializing,
                StartBeingStableSecondary
  <2>5. ASSUME NEW m, HandleVoteNext(r, m) PROVE Untouched(q)
    BY ZenonT(40), <2>5 DEF HandleVoteNext, LogAndAcceptVote, LogVote,
                AddToExecutionQueue, StartBeingStableSecondary
  <2>6. ASSUME NEW m, HandleVoteBehind(r, m) \/ HandleVoteAcceptedWait(r, m)
        PROVE  Untouched(q)
    BY <2>6 DEF HandleVoteBehind, StartInitializing, HandleVoteAcceptedWait
  <2>7. ASSUME NEW m, HandleVoteAcceptedQuorum(r, m) PROVE Untouched(q)
    BY <2>7 DEF HandleVoteAcceptedQuorum, AddToExecutionQueue
  <2>8. ASSUME NEW m, HandleVoteAcceptedShutDown(r, m) PROVE Untouched(q)
    BY <2>8 DEF HandleVoteAcceptedShutDown, RestoreState, RestoreFrom
  <2> QED
    BY ZenonT(40), <1>4, <2>1, <2>2, <2>3, <2>4, <2>5, <2>6, <2>7, <2>8 DEF MessageStep
<1>5. CASE \E val \in AnyValue : SendNextVote(r, val)
  BY ZenonT(40), <1>0, <1>5 DEF SendNextVote
<1>6. CASE SendRelinquishVote(r)
  BY ZenonT(40), <1>0, <1>6 DEF SendRelinquishVote
<1>7. CASE Restart(r)
  BY ZenonT(40), <1>7 DEF Restart, RestoreState, RestoreFrom
<1> QED
  BY <1>1, <1>2, <1>3, <1>4, <1>5, <1>6, <1>7 DEF StepOf

\* The steps that neither vote nor join a ballot.
LEMMA ListenSteps ==
    ASSUME TypeOK, NEW r \in Member,
           \/ TimerStartInitializing(r)
           \/ \E q \in Member :
                  \/ StatusWait(r, q) \/ StatusLearn(r, q)
                  \/ StatusSecondary(r, q) \/ StatusPrepare(r, q)
                  \/ StatusAhead(r, q)
           \/ LearnPrepare(r) \/ LearnSkip(r) \/ LearnEnd(r)
           \/ \E m \in msgs :
                  \/ HandlePrepareLower(r, m) \/ HandleVoteLower(r, m)
                  \/ HandleVoteBehind(r, m) \/ HandleNotAcceptedMsg(r, m)
                  \/ HandleVoteAcceptedWait(r, m)
    PROVE  Listens(r)
<1> USE DEF Listens, QuietNews
<1>1. CASE \/ TimerStartInitializing(r)
           \/ LearnPrepare(r) \/ LearnSkip(r) \/ LearnEnd(r)
  BY ZenonT(40), <1>1 DEF TimerStartInitializing, LearnPrepare, LearnSkip, LearnEnd
<1>2. ASSUME NEW q \in Member,
             \/ StatusWait(r, q) \/ StatusLearn(r, q)
             \/ StatusSecondary(r, q) \/ StatusAhead(r, q)
      PROVE  Listens(r)
  BY ZenonT(40), <1>2 DEF StatusWait, StatusLearn, StatusSecondary, StatusAhead
<1>3. ASSUME NEW q \in Member, StatusPrepare(r, q) PROVE Listens(r)
  <2>1. PICK seen : Send(PrepareMsg(NewBallot(r, seen), maxAccepted[r].dec))
    BY ZenonT(40), <1>3 DEF StatusPrepare, StartPreparing
  <2> DEFINE n == PrepareMsg(NewBallot(r, seen), maxAccepted[r].dec)
  <2>2. n.type = "Prepare" /\ n.bal.mem = r /\ n.dec = maxAccepted[r].dec
    BY ZenonT(40) DEF NewBallot, PrepareMsg
  <2>3. msgs' = msgs \cup {n} /\ UNCHANGED <<maxAccepted, lastPassed, passed>>
    BY <1>3, <2>1 DEF StatusPrepare, Send
  <2> HIDE DEF n
  <2> QED
    BY ZenonT(40), <2>2, <2>3
<1>4. ASSUME NEW m, HandlePrepareLower(r, m) \/ HandleVoteLower(r, m)
      PROVE  Listens(r)
  <2> DEFINE n == NotAcceptedMsg(r, m.bal.mem, maxBallot[r], maxAccepted[r].dec)
  <2>1. n.type = "NotAccepted"
    BY ZenonT(40) DEF NotAcceptedMsg
  <2>2. msgs' = msgs \cup {n} /\ UNCHANGED <<maxAccepted, lastPassed, passed>>
    BY ZenonT(40), <1>4 DEF HandlePrepareLower, HandleVoteLower, Reject, Send
  <2> HIDE DEF n
  <2> QED
    BY ZenonT(40), <2>1, <2>2
<1>5. ASSUME NEW m, \/ HandleVoteBehind(r, m) \/ HandleNotAcceptedMsg(r, m)
                    \/ HandleVoteAcceptedWait(r, m)
      PROVE  Listens(r)
  BY ZenonT(40), <1>5 DEF HandleVoteBehind, HandleNotAcceptedMsg, HandleVoteAcceptedWait
<1> QED
  BY <1>1, <1>2, <1>3, <1>4, <1>5

\* A restart, whatever ended the process.
LEMMA RestoreSteps ==
    ASSUME TypeOK, NEW r \in Member,
           \/ Restart(r)
           \/ \E m \in msgs : HandleVoteAcceptedShutDown(r, m)
           \/ \E q \in Member : StatusPrepareCrash(r, q)
    PROVE  Restores(r)
<1> USE DEF Restores, QuietNews
<1>1. CASE Restart(r) \/ \E m \in msgs : HandleVoteAcceptedShutDown(r, m)
  BY ZenonT(40), <1>1 DEF Restart, HandleVoteAcceptedShutDown
<1>2. ASSUME NEW q \in Member, StatusPrepareCrash(r, q) PROVE Restores(r)
  <2>1. PICK seen : Send(PrepareMsg(NewBallot(r, seen), maxAccepted[r].dec))
    BY ZenonT(40), <1>2 DEF StatusPrepareCrash
  <2> DEFINE n == PrepareMsg(NewBallot(r, seen), maxAccepted[r].dec)
  <2>2. n.type = "Prepare" /\ n.bal.mem = r /\ n.dec = maxAccepted[r].dec
    BY ZenonT(40) DEF NewBallot, PrepareMsg
  <2>3. msgs' = msgs \cup {n} /\ RestoreState(r) /\ UNCHANGED log
    BY ZenonT(40), <1>2, <2>1 DEF StatusPrepareCrash, Send
  <2> HIDE DEF n
  <2> QED
    BY ZenonT(40), <2>2, <2>3
<1> QED
  BY ZenonT(40), <1>1, <1>2

-----------------------------------------------------------------------------
(* Votes. *)

\* What is decided under a ballot is decided under a higher one.
LEMMA DecidedUp ==
    ASSUME NEW M \in SUBSET Message, NEW a \in Ballot, NEW b \in Ballot,
           BallotLeq(a, b), NEW d, Decided(M, a, d)
    PROVE  Decided(M, b, d)
<1>1. PICK m \in Proposals(M) : /\ m.dec = d /\ BallotLeq(m.bal, a)
                                /\ ChosenIn(M, m.bal, d)
  BY ZenonT(40) DEF Decided
<1>2. m.bal \in Ballot
  BY ZenonT(40), CastTypes
<1>3. BallotLeq(m.bal, b)
  BY ZenonT(40), <1>1, <1>2, BallotOrder
<1> QED
  BY ZenonT(40), <1>1, <1>3 DEF Decided

\* No replica accepts anything under the ballot of the bootstrap.
LEMMA NoZeroCasts ==
    ASSUME TypeOK, CastInv
    PROVE  /\ \A m \in Proposals(msgs) : m.bal # ZeroBallot
           /\ \A q \in Member : \A c \in Casts(msgs, q) : c.bal # ZeroBallot
<1>1. \A m \in Proposals(msgs) : m.bal # ZeroBallot
  BY MemberAssumption DEF CastInv, ZeroBallot
<1>2. \A q : \A c \in Casts(msgs, q) :
          c \in Proposals(msgs) \/ c \in Accepted(msgs)
  BY ZenonT(40) DEF Casts, Proposals, Accepted
<1> QED
  BY ZenonT(40), <1>1, <1>2 DEF CastInv

\* HandlePrepareAcceptedMsg: the answer is for the decree that was prepared
\* (the handler asserts it), and the freshest vote covers everyone who joined.
LEMMA CandidateAnswered ==
    ASSUME Base, VotingInv, NEW r \in Member,
           NEW m \in Sent("PrepareAccepted"), learn[r] = NotLearning,
           state[r] = "Preparing", m.bal.mem = r,
           IsSameDecree(m, maxAccepted[r].dec, maxBallot[r])
    PROVE  /\ oldFreshest[r].dec = maxAccepted[r].dec
           /\ m.src \in Member \ {r}
           /\ maxBallot[r].mem = r
           /\ maxAccepted[r].bal # maxBallot[r]
           /\ \A n \in Proposals(msgs) : n.bal # maxBallot[r]
           /\ \A n \in Asked(msgs) :
                  n.bal = maxBallot[r] => n.dec <= Fresher(r, m.vote).dec
           /\ Fresher(r, m.vote) \in Vote
           /\ Genuine(msgs, Fresher(r, m.vote))
           /\ Fresher(r, m.vote).dec = maxAccepted[r].dec
           /\ BallotLeq(m.vote.bal, m.bal)
                  => BallotLeq(Fresher(r, m.vote).bal, maxBallot[r])
           /\ \A q \in responses[r] \cup {m.src} \cup {r} :
                  /\ BallotLeq(maxBallot[r], maxBallot[q])
                  /\ Covered(msgs, q, maxBallot[r], Fresher(r, m.vote))
<1> DEFINE f == Fresher(r, m.vote)
<1>1. /\ m \in Joined(msgs)
      /\ m.src \in Member /\ m.bal \in Ballot /\ m.dec \in Decree
      /\ m.vote \in Vote
      /\ msgs \in SUBSET Message
      /\ maxBallot[r] \in Ballot /\ maxAccepted[r] \in Vote
  BY SentTypes, SentKinds DEF Base, TypeOK
<1>2. m.bal = maxBallot[r] /\ m.dec = maxAccepted[r].dec /\ maxBallot[r].mem = r
  BY ZenonT(40) DEF IsSameDecree
<1>3. /\ oldFreshest[r] \in Vote /\ Genuine(msgs, oldFreshest[r])
      /\ oldFreshest[r].dec <= maxAccepted[r].dec
      /\ BallotLeq(oldFreshest[r].bal, maxBallot[r])
      /\ \A n \in Proposals(msgs) : n.bal # maxBallot[r]
      /\ \A n \in Asked(msgs) :
             n.bal = maxBallot[r] => n.dec <= oldFreshest[r].dec
      /\ \A q \in responses[r] \cup {r} :
             /\ BallotLeq(maxBallot[r], maxBallot[q])
             /\ Covered(msgs, q, maxBallot[r], oldFreshest[r])
  BY ZenonT(40), <1>2 DEF VotingInv, RoleInv, CandidateAt
<1>4. /\ m.src # r /\ m.vote.dec <= m.dec
      /\ Covered(msgs, m.src, maxBallot[r], m.vote)
      /\ \E n \in Asked(msgs) : n.bal = m.bal /\ n.dec = m.dec
      /\ Genuine(msgs, m.vote)
      /\ BallotLeq(maxBallot[r], maxBallot[m.src])
  BY ZenonT(40), <1>1, <1>2, SentKinds DEF VotingInv, PromiseInv, GenuineInv,
     Base, PromiseKept
<1>5. oldFreshest[r].dec = maxAccepted[r].dec
  <2>1. m.dec <= oldFreshest[r].dec
    BY ZenonT(40), <1>2, <1>3, <1>4
  <2> QED
    BY <1>1, <1>2, <1>3, <2>1 DEF Vote, Decree
<1>6. maxAccepted[r].bal # maxBallot[r]
  <2>1. maxBallot[r] # ZeroBallot
    BY <1>2, MemberAssumption DEF ZeroBallot
  <2>2. Genuine(msgs, maxAccepted[r])
    BY ZenonT(40) DEF VotingInv, GenuineInv
  <2> QED
    BY <1>3, <2>1, <2>2 DEF Genuine
<1>7. /\ f \in Vote /\ Genuine(msgs, f) /\ f.dec = maxAccepted[r].dec
      /\ BallotLeq(m.vote.bal, m.bal) => BallotLeq(f.bal, maxBallot[r])
  BY ZenonT(40), <1>1, <1>2, <1>3, <1>4, <1>5 DEF Fresher
<1>8. /\ oldFreshest[r].dec = f.dec /\ BallotLeq(oldFreshest[r].bal, f.bal)
      /\ m.vote.dec < f.dec \/ (m.vote.dec = f.dec /\ BallotLeq(m.vote.bal, f.bal))
  <2>1. /\ oldFreshest[r].bal \in Ballot /\ m.vote.bal \in Ballot
        /\ m.vote.dec \in Nat /\ maxAccepted[r].dec \in Nat
    BY ZenonT(40), <1>1, <1>3 DEF Vote, Decree
  <2>2. CASE f = oldFreshest[r]
    BY <1>2, <1>4, <1>5, <2>1, <2>2, BallotOrder DEF Fresher
  <2>3. CASE f # oldFreshest[r]
    BY ZenonT(40), <1>2, <1>4, <1>5, <2>1, <2>3, BallotOrder DEF Fresher, BallotLeq
  <2> QED
    BY ZenonT(40), <2>2, <2>3
<1> HIDE DEF f
<1>9. \A q \in responses[r] \cup {r} : Covered(msgs, q, maxBallot[r], f)
  BY ZenonT(40), <1>1, <1>3, <1>7, <1>8, FresherCovers
<1>10. Covered(msgs, m.src, maxBallot[r], f)
  BY <1>1, <1>4, <1>7, <1>8, FresherCovers
<1> QED
  BY ZenonT(40), <1>1, <1>2, <1>3, <1>4, <1>5, <1>6, <1>7, <1>9, <1>10 DEF f

\* StartBeingStablePrimary: the first vote of a ballot is safe.
LEMMA FirstVote ==
    ASSUME QuorumFacts, Base, VotingInv, NEW r \in Member,
           NEW m \in Sent("PrepareAccepted"), HandlePrepareAcceptedMsg(r, m),
           Cardinality(responses[r] \cup {m.src}) >= QuorumSize - 1,
           ~relinquish[r]
    PROVE  \E v \in Vote : Proposes(r, v, FALSE)
<1> DEFINE f == Fresher(r, m.vote)
           v == [bal |-> maxBallot[r], dec |-> NextVoteDecree(r),
                 val |-> f.val]
           Q == responses[r] \cup {m.src} \cup {r}
<1>1. /\ learn[r] = NotLearning /\ state[r] = "Preparing" /\ m.bal.mem = r
      /\ IsSameDecree(m, maxAccepted[r].dec, maxBallot[r])
      /\ BallotLeq(m.vote.bal, m.bal)
      /\ SendVote(r, v, FALSE)
      /\ UNCHANGED <<lastPassed, passed>>
  BY ZenonT(40) DEF HandlePrepareAcceptedMsg, StartBeingStablePrimary
<1>2. /\ m.src \in Member \ {r} /\ maxBallot[r].mem = r
      /\ maxAccepted[r].bal # maxBallot[r]
      /\ \A n \in Proposals(msgs) : n.bal # maxBallot[r]
      /\ f \in Vote /\ Genuine(msgs, f) /\ f.dec = maxAccepted[r].dec
      /\ BallotLeq(f.bal, maxBallot[r])
      /\ \A q \in Q : /\ BallotLeq(maxBallot[r], maxBallot[q])
                      /\ Covered(msgs, q, maxBallot[r], f)
  BY <1>1, CandidateAnswered
<1>3. /\ msgs \in SUBSET Message /\ maxBallot \in [Member -> Ballot]
      /\ maxBallot[r] \in Ballot /\ responses[r] \in SUBSET Member
  BY ZenonT(40) DEF Base, TypeOK
<1> HIDE DEF f
<1>4. /\ v.bal = maxBallot[r] /\ v.dec = f.dec /\ v.val = f.val /\ v \in Vote
  BY ZenonT(40), <1>2, <1>3 DEF NextVoteDecree, Vote
<1>5. Q \in Quorums
  BY ZenonT(40), <1>2, <1>3, AnswersMakeQuorum DEF VotingInv, RoleInv
<1> HIDE DEF Q, v
<1>6. Safe(msgs, maxBallot, v) /\ Leading(msgs, maxBallot, v)
  <2>1. \A q \in Member : \A c \in Casts(msgs, q) : c.bal # ZeroBallot
    BY ZenonT(40), NoZeroCasts DEF Base, VotingInv
  <2>2. \A n \in Proposals(msgs) : Safe(msgs, maxBallot, n)
    BY ZenonT(40) DEF VotingInv, SafeInv
  <2> QED
    BY ZenonT(40), <1>2, <1>3, <1>4, <1>5, <2>1, <2>2, FirstVoteSafe
<1>7. v.dec > 1 => Decided(msgs, v.bal, v.dec - 1)
  BY <1>2, <1>3, <1>4, DecidedUp DEF Genuine, Vote
<1>8. /\ maxAccepted' = [maxAccepted EXCEPT ![r] = v]
      /\ msgs' = msgs \cup {VoteMsg(v, FALSE)}
  BY ZenonT(40), <1>1 DEF SendVote, LogVote, Send
<1> QED
  BY ZenonT(40), <1>1, <1>2, <1>4, <1>6, <1>7, <1>8 DEF Proposes

\* SendNextVote: a primary whose last vote has passed proposes the next.
LEMMA LaterVote ==
    ASSUME Base, VotingInv, NEW r \in Member, NEW val \in AnyValue,
           NEW rp \in BOOLEAN, state[r] = "StablePrimary",
           outstanding[r] = NoVote, ~relinquish[r],
           SendVote(r, [bal |-> maxBallot[r], dec |-> NextVoteDecree(r),
                        val |-> val], rp),
           UNCHANGED <<lastPassed, passed>>
    PROVE  \E v \in Vote : Proposes(r, v, rp)
<1> DEFINE v == [bal |-> maxBallot[r], dec |-> NextVoteDecree(r), val |-> val]
<1>1. /\ msgs \in SUBSET Message /\ maxBallot \in [Member -> Ballot]
      /\ maxBallot[r] \in Ballot
      /\ maxAccepted[r].dec \in Nat \ {0}
  BY ZenonT(40) DEF Base, TypeOK, Vote, Decree
<1>2. /\ maxBallot[r].mem = r
      /\ maxAccepted[r].bal = maxBallot[r]
      /\ Proposed(msgs, maxAccepted[r].bal, maxAccepted[r].dec,
                  maxAccepted[r].val)
      /\ ChosenIn(msgs, maxAccepted[r].bal, maxAccepted[r].dec)
      /\ lastPassed[r] = maxAccepted[r].dec
  BY ZenonT(40) DEF VotingInv, RoleInv, PrimaryAt, Owns
<1>3. PICK n \in Proposals(msgs) :
          n.bal = maxBallot[r] /\ n.dec = maxAccepted[r].dec
  BY ZenonT(40), <1>2 DEF Proposed
<1>4. /\ v.bal = n.bal /\ v.dec = n.dec + 1 /\ v \in Vote
      /\ v.dec = maxAccepted[r].dec + 1
  BY <1>1, <1>2, <1>3 DEF NextVoteDecree, Vote, Decree
<1>5. /\ maxAccepted' = [maxAccepted EXCEPT ![r] = v]
      /\ msgs' = msgs \cup {VoteMsg(v, rp)}
  BY ZenonT(40) DEF SendVote, LogVote, Send
<1>6. v.bal = maxBallot[r]
  BY ZenonT(40)
<1> HIDE DEF v
<1>7. Safe(msgs, maxBallot, v) /\ Leading(msgs, maxBallot, v)
  <2>1. Leading(msgs, maxBallot, n)
    BY ZenonT(40) DEF VotingInv, SafeInv
  <2> QED
    BY ZenonT(40), <1>1, <1>4, <2>1, NextVoteSafe
<1>8. ASSUME NEW k \in Proposals(msgs), k.bal = v.bal, k.dec = v.dec
      PROVE  FALSE
  <2>1. k \in Casts(msgs, r)
    BY <1>2, <1>6, <1>8 DEF Proposals, Casts
  <2>2. k.dec <= maxAccepted[r].dec
    BY ZenonT(40), <2>1 DEF VotingInv, CastInv
  <2>3. k.dec = maxAccepted[r].dec + 1 /\ maxAccepted[r].dec \in Nat
    BY ZenonT(40), <1>1, <1>4, <1>8
  <2> QED
    BY ZenonT(40), <2>2, <2>3, NextNumber
<1>9. Decided(msgs, v.bal, v.dec - 1)
  <2>1. v.dec - 1 = n.dec /\ BallotLeq(n.bal, v.bal)
    BY ZenonT(40), <1>1, <1>3, <1>4, NextNumber DEF BallotLeq
  <2> QED
    BY ZenonT(40), <1>2, <1>3, <2>1 DEF Decided
<1> QED
  BY ZenonT(40), <1>2, <1>4, <1>5, <1>6, <1>7, <1>8, <1>9 DEF Proposes

\* LearnVotes: the missing vote is one that others hold for the next decree.
LEMMA MissingIsGenuine ==
    ASSUME MaximaExist, Base, VotingInv, NEW r \in Member, LearnMissing(r)
    PROVE  Genuine(msgs, MissingVote(r))
<1> DEFINE acc == maxAccepted[r]
           nv == NextVote(r)
           last == learn[r].last
<1>1. /\ MoreToLearn(r) /\ ValidVote(r) /\ NextRecord(r).kind = "Vote"
      /\ ~BallotLess(nv.bal, acc.bal)
      /\ ~IsNextDecree(nv, acc.dec, acc.bal)
  BY ZenonT(40) DEF LearnMissing
<1>2. /\ learn[r] \in Learning /\ learn[r].src \in Member
      /\ log[learn[r].src] \in Seq(Record)
      /\ learn[r].pos \in 1..Len(log[learn[r].src])
      /\ nv \in Vote
  BY ZenonT(40), <1>1, NextRecordType DEF Base
<1>3. /\ last # NoVote /\ nv.dec = acc.dec + 1
      /\ MissingVote(r).bal = acc.bal /\ MissingVote(r).dec = acc.dec + 1
      /\ MissingVote(r).val = nv.val
  BY ZenonT(40), MissingVoteIsNext DEF Base, MissingVote
<1>4. /\ last = LoggedVote(log[learn[r].src], learn[r].pos - 1)
      /\ last.dec >= acc.dec /\ BallotLeq(last.bal, acc.bal)
      /\ IsNextDecree(nv, last.dec, last.bal)
  BY ZenonT(40), <1>1, <1>3 DEF Base, DurabilityInv, LearnAligned, MoreToLearn,
     ValidVote
<1>5. /\ acc.bal \in Ballot /\ nv.bal \in Ballot /\ last.bal \in Ballot
      /\ acc.dec \in Nat \ {0} /\ last.dec \in Nat /\ msgs \in SUBSET Message
  BY ZenonT(40), <1>2, <1>3 DEF Base, TypeOK, Vote, Learning, Decree
<1>6. last.dec = acc.dec + 1
  <2>1. CASE nv.dec = last.dec + 1 /\ nv.bal = last.bal
    <3>1. nv.bal = acc.bal
      BY ZenonT(40), <1>1, <1>4, <1>5, <2>1, BallotOrder
    <3> QED
      BY <1>1, <1>3, <3>1 DEF IsNextDecree
  <2> QED
    BY ZenonT(40), <1>3, <1>4, <1>5, <2>1 DEF IsNextDecree
<1>7. last \in VotesIn(log[learn[r].src])
  <2>1. learn[r].pos - 1 \in 0..Len(log[learn[r].src])
    BY <1>2
  <2>2. InitialVote.dec # last.dec
    BY <1>5, <1>6 DEF InitialVote
  <2> QED
    BY ZenonT(40), <1>2, <1>4, <2>1, <2>2, LoggedVoteIsIn
<1>8. Genuine(msgs, last) /\ Genuine(msgs, acc) /\ Genuine(msgs, nv)
  <2>1. nv \in VotesIn(log[learn[r].src])
    BY ZenonT(40), <1>1, <1>2 DEF VotesIn, VotesUpTo, NextVote, NextRecord
  <2> QED
    BY ZenonT(40), <1>2, <1>7, <2>1 DEF VotingInv, GenuineInv
<1> HIDE DEF acc, nv, last
<1>9. /\ last.dec > 1 /\ last.dec # 1 /\ nv.dec # 1 /\ last.dec - 1 = acc.dec
      /\ acc.dec + 1 > 1 /\ (acc.dec + 1) - 1 = acc.dec
  BY <1>3, <1>5, <1>6
<1>10. \E m \in Proposals(msgs) : m.bal = acc.bal
  <2>1. PICK k \in Proposals(msgs) : k.bal = last.bal
    BY ZenonT(40), <1>8, <1>9 DEF Genuine
  <2>2. last.bal # ZeroBallot
    BY ZenonT(40), <2>1, NoZeroCasts DEF Base, VotingInv
  <2>3. acc.bal # ZeroBallot
    BY <1>4, <1>5, <2>2, ZeroIsLeast, BallotOrder
  <2> QED
    BY ZenonT(40), <1>8, <2>3 DEF Genuine
<1>11. \E m \in Proposals(msgs) : /\ m.dec = acc.dec + 1 /\ m.val = nv.val
                                  /\ BallotLeq(acc.bal, m.bal)
  <2>1. PICK m \in Proposals(msgs) : /\ m.dec = nv.dec /\ m.val = nv.val
                                     /\ BallotLeq(nv.bal, m.bal)
    BY ZenonT(40), <1>8, <1>9 DEF Genuine
  <2>2. m.bal \in Ballot
    BY ZenonT(40), <1>5, CastTypes
  <2>3. BallotLeq(acc.bal, m.bal)
    BY <1>1, <1>5, <2>1, <2>2, BallotOrder DEF acc, nv
  <2> QED
    BY ZenonT(40), <1>3, <2>1, <2>3
<1>12. Decided(msgs, acc.bal, acc.dec)
  BY ZenonT(40), <1>4, <1>5, <1>8, <1>9, DecidedUp DEF Genuine
<1> QED
  BY <1>3, <1>9, <1>10, <1>11, <1>12 DEF Genuine

\* The vote comes from the network, or from the log of another replica.
LEMMA AcceptSteps ==
    ASSUME MaximaExist, Base, VotingInv, NEW r \in Member,
           \/ LearnMissing(r) \/ LearnAccept(r)
           \/ \E m \in Sent("Vote") : HandleVoteNext(r, m)
    PROVE  \E v \in Vote : Accepts(r, v)
<1>1. CASE LearnMissing(r)
  <2>1. /\ MissingVote(r) \in Vote
        /\ IsNextDecree(MissingVote(r), maxAccepted[r].dec, maxAccepted[r].bal)
    BY ZenonT(40), <1>1, MissingVoteIsNext DEF Base
  <2>2. Genuine(msgs, MissingVote(r))
    BY ZenonT(40), <1>1, MissingIsGenuine
  <2>3. Accepts(r, MissingVote(r))
    BY ZenonT(40), <1>1, <2>1, <2>2
    DEF Accepts, LearnMissing, LogAndAcceptVote, LogVote, QuietNews
  <2> QED
    BY ZenonT(40), <2>1, <2>3
<1>2. CASE LearnAccept(r)
  <2>1. /\ MoreToLearn(r) /\ NextRecord(r).kind = "Vote"
        /\ IsNextDecree(NextVote(r), maxAccepted[r].dec, maxAccepted[r].bal)
        /\ LogAndAcceptVote(r, NextVote(r)) /\ UNCHANGED msgs
    BY ZenonT(40), <1>2 DEF LearnAccept
  <2>2. /\ NextVote(r) \in Vote /\ learn[r].src \in Member
        /\ learn[r].pos \in 1..Len(log[learn[r].src])
    BY ZenonT(40), <2>1, NextRecordType DEF Base
  <2>3. NextVote(r) \in VotesIn(log[learn[r].src])
    BY ZenonT(40), <2>1, <2>2 DEF VotesIn, VotesUpTo, NextVote, NextRecord
  <2>4. Genuine(msgs, NextVote(r))
    BY ZenonT(40), <2>2, <2>3 DEF VotingInv, GenuineInv
  <2>5. Accepts(r, NextVote(r))
    BY ZenonT(40), <2>1, <2>4 DEF Accepts, LogAndAcceptVote, LogVote, QuietNews
  <2> QED
    BY ZenonT(40), <2>2, <2>5
<1>3. ASSUME NEW m \in Sent("Vote"), HandleVoteNext(r, m)
      PROVE  \E v \in Vote : Accepts(r, v)
  <2> DEFINE v == [bal |-> m.bal, dec |-> m.dec, val |-> m.val]
  <2>1. m \in Proposals(msgs) /\ v \in Vote
    BY SentTypes, SentKinds DEF Base, TypeOK, Vote
  <2>2. /\ v.bal = m.bal /\ v.dec = m.dec /\ v.val = m.val
        /\ LogAndAcceptVote(r, v) /\ m.bal.mem # r
        /\ IsNextDecree(m, maxAccepted[r].dec, maxAccepted[r].bal)
        /\ IF BallotLess(m.bal, maxBallot[r])
           THEN Send(NotAcceptedMsg(r, m.bal.mem, maxBallot[r], m.dec))
           ELSE Send(VoteAcceptedMsg(r, m.bal, m.dec))
    BY ZenonT(40), <1>3 DEF HandleVoteNext, ReceiveVote
  <2> HIDE DEF v
  <2>3. /\ Genuine(msgs, v)
        /\ IsNextDecree(v, maxAccepted[r].dec, maxAccepted[r].bal)
    <3>1. Genuine(msgs, m)
      BY ZenonT(40), <2>1 DEF VotingInv, GenuineInv
    <3>2. Genuine(msgs, v)
      BY ZenonT(40), <2>2, <3>1 DEF Genuine
    <3> QED
      BY ZenonT(40), <2>2, <3>2 DEF IsNextDecree
  <2>4. CASE BallotLess(m.bal, maxBallot[r])
    <3>1. QuietNews(r)
      <4> DEFINE n == NotAcceptedMsg(r, m.bal.mem, maxBallot[r], m.dec)
      <4>1. n.type = "NotAccepted"
        BY ZenonT(40) DEF NotAcceptedMsg
      <4>2. msgs' = msgs \cup {n}
        BY ZenonT(40), <2>2, <2>4 DEF Send
      <4> HIDE DEF n
      <4> QED
        BY ZenonT(40), <4>1, <4>2 DEF QuietNews
    <3> QED
      BY ZenonT(40), <2>1, <2>2, <2>3, <3>1 DEF Accepts, LogAndAcceptVote, LogVote
  <2>5. CASE ~BallotLess(m.bal, maxBallot[r])
    BY ZenonT(40), <2>1, <2>2, <2>3, <2>5 DEF Accepts, LogAndAcceptVote, LogVote, Send
  <2> QED
    BY ZenonT(40), <2>4, <2>5
<1> QED
  BY <1>1, <1>2, <1>3

\* HandleVoteAcceptedMsg: a quorum has accepted the vote of the primary.
LEMMA QuorumChooses ==
    ASSUME QuorumFacts,
           Base, VotingInv, NEW r \in Member, NEW m \in Sent("VoteAccepted"),
           ReceiveVoteAccepted(r, m)
    PROVE  /\ Owns(r) /\ m.src \in Member \ {r}
           /\ CastFor(msgs, m.src, maxAccepted[r].bal, maxAccepted[r].dec)
           /\ QuorumAccepted(r, m)
                  => ChosenIn(msgs, maxAccepted[r].bal, maxAccepted[r].dec)
<1> DEFINE acc == maxAccepted[r]
           Q == responses[r] \cup {m.src} \cup {r}
<1>1. /\ state[r] = "StablePrimary" /\ outstanding[r] # NoVote
      /\ m.bal = maxBallot[r] /\ m.dec = acc.dec /\ m.bal.mem = r
  BY ZenonT(40) DEF ReceiveVoteAccepted, AmPrimary, IsSameDecree
<1>2. /\ Owns(r)
      /\ \A q \in responses[r] : CastFor(msgs, q, acc.bal, acc.dec)
  BY ZenonT(40), <1>1 DEF VotingInv, RoleInv, PrimaryAt
<1>3. m \in Accepted(msgs) /\ m.src \in Member /\ m.src # r
  BY ZenonT(40), <1>1, SentTypes, SentKinds DEF Base, TypeOK, VotingInv, CastInv
<1>4. CastFor(msgs, m.src, acc.bal, acc.dec)
  <2>1. m \in Casts(msgs, m.src)
    BY ZenonT(40), <1>3 DEF Casts, Accepted
  <2>2. m.bal = acc.bal /\ m.dec = acc.dec
    BY ZenonT(40), <1>1, <1>2 DEF Owns
  <2> QED
    BY ZenonT(40), <2>1, <2>2 DEF CastFor
<1>5. CastFor(msgs, r, acc.bal, acc.dec)
  BY <1>1, <1>2 DEF Owns, Proposed, CastFor, Casts, Proposals
<1>6. ASSUME QuorumAccepted(r, m) PROVE ChosenIn(msgs, acc.bal, acc.dec)
  <2>1. responses[r] \in SUBSET Member /\ r \notin responses[r]
    BY ZenonT(40) DEF Base, TypeOK, VotingInv, RoleInv
  <2>2. Q \in Quorums
    BY ZenonT(40), <1>3, <1>6, <2>1, AnswersMakeQuorum DEF QuorumAccepted
  <2> QED
    BY ZenonT(40), <1>2, <1>4, <1>5, <2>2 DEF ChosenIn
<1> QED
  BY <1>2, <1>3, <1>4, <1>6

\* Every step of a replica is one of the six kinds.
LEMMA StepKind ==
    ASSUME MaximaExist, QuorumFacts,
           Base, VotingInv, NEW r \in Member, StepOf(r)
    PROVE  KindOf(r)
<1>0. TypeOK /\ msgs \in SUBSET Message
  BY ZenonT(40) DEF Base, TypeOK
<1>1. CASE TimerStartInitializing(r)
  BY ZenonT(40), <1>0, <1>1, ListenSteps DEF KindOf
<1>2. ASSUME NEW q \in Member, StatusStep(r, q) PROVE KindOf(r)
  BY ZenonT(40), <1>0, <1>2, ListenSteps, RestoreSteps DEF StatusStep, KindOf
<1>3. CASE LearnStep(r)
  BY ZenonT(40), <1>0, <1>3, ListenSteps, AcceptSteps DEF LearnStep, KindOf
<1>4. CASE MessageStep(r)
  <2>0. \A type : Sent(type) \subseteq msgs
    BY ZenonT(40) DEF Sent
  <2>1. ASSUME NEW m \in Sent("Prepare"), HandlePrepareMsg(r, m)
        PROVE  KindOf(r)
    <3>1. /\ m \in Asked(msgs) /\ m.dec \in Nat /\ maxAccepted[r].dec \in Nat
      BY ZenonT(40), SentTypes, SentKinds DEF Base, TypeOK, Vote, Decree
    <3>2. maxAccepted[r].dec <= m.dec
      BY ZenonT(40), <2>1, <3>1, NotLowerDecree DEF HandlePrepareMsg
    <3> QED
      BY ZenonT(40), <2>1, <3>1, <3>2 DEF HandlePrepareMsg, Send, Joins, KindOf
  <2>2. ASSUME NEW m \in Sent("PrepareAccepted"),
               HandlePrepareAcceptedMsg(r, m)
        PROVE  KindOf(r)
    <3>1. CASE /\ Cardinality(responses[r] \cup {m.src}) >= QuorumSize - 1
               /\ ~relinquish[r]
      BY ZenonT(40), <2>2, <3>1, FirstVote DEF KindOf
    <3>2. CASE ~(/\ Cardinality(responses[r] \cup {m.src}) >= QuorumSize - 1
                 /\ ~relinquish[r])
      <4>1. UNCHANGED <<maxAccepted, lastPassed, passed, msgs>>
        BY ZenonT(40), <2>2, <3>2 DEF HandlePrepareAcceptedMsg, StartBeingStablePrimary
      <4> QED
        BY ZenonT(40), <4>1 DEF Listens, QuietNews, KindOf
    <3> QED
      BY ZenonT(40), <3>1, <3>2
  <2>3. ASSUME NEW m \in Sent("VoteAccepted"), HandleVoteAcceptedQuorum(r, m)
        PROVE  KindOf(r)
    <3>1. ReceiveVoteAccepted(r, m) /\ QuorumAccepted(r, m)
      BY ZenonT(40), <2>3 DEF HandleVoteAcceptedQuorum
    <3>2. Settled(msgs, maxAccepted[r])
      <4>1. /\ Owns(r)
            /\ ChosenIn(msgs, maxAccepted[r].bal, maxAccepted[r].dec)
        BY ZenonT(40), <3>1, QuorumChooses
      <4> QED
        BY ZenonT(40), <4>1 DEF Owns, Proposed, Settled
    <3> QED
      BY ZenonT(40), <2>3, <3>2 DEF HandleVoteAcceptedQuorum, Passes, KindOf
  <2> QED
    BY ZenonT(40), <1>0, <1>4, <2>0, <2>1, <2>2, <2>3, ListenSteps, RestoreSteps,
       AcceptSteps DEF MessageStep, KindOf
<1>5. ASSUME NEW val \in AnyValue, SendNextVote(r, val) PROVE KindOf(r)
  BY ZenonT(40), <1>5, LaterVote DEF SendNextVote, AmPrimary, KindOf
<1>6. CASE SendRelinquishVote(r)
  <2>1. NoValue \in AnyValue
    BY ZenonT(40) DEF AnyValue
  <2> QED
    BY ZenonT(40), <1>6, <2>1, LaterVote DEF SendRelinquishVote, AmPrimary, KindOf
<1>7. CASE Restart(r)
  BY ZenonT(40), <1>0, <1>7, RestoreSteps DEF KindOf
<1> QED
  BY ZenonT(40), <1>1, <1>2, <1>3, <1>4, <1>5, <1>6, <1>7 DEF StepOf
=============================================================================
