--------------------------- MODULE Reconfiguration ---------------------------
(***************************************************************************)
(* Changing the set of replicas (legislator.cpp): a vote whose value is a  *)
(* new member set, the decision that its majority sends and logs, the      *)
(* switch to the next configuration, the members that missed it and join   *)
(* by reading another log or by copying a checkpoint, and the number of    *)
(* the last configuration known to be defunct.                             *)
(*                                                                         *)
(* The protocol inside a configuration is the one of module Legislator,    *)
(* here without its timers, its NotAccepted answers (every message may be  *)
(* lost) and the status exchange before a learn or an election.  A ballot  *)
(* is a number, ballotId * (N + 1) + the rank of its member, rank 0 being  *)
(* the empty member id; 0 is the empty ballot.  The value of a vote is the *)
(* new member set, {} for a vote that only carries requests.               *)
(***************************************************************************)
EXTENDS Integers, Sequences, SequencesExt, FiniteSets

CONSTANTS
    N,               \* replicas 1 .. N
    Start,           \* starting points: [members, quiet, restarts]
    NewMembers,      \* the member sets ChangeConfiguration may ask for
    Candidates,      \* per configuration, whose election timer may expire
    MaxBallotId,     \* bound: per configuration number, the highest ballotId
    MaxDecree,       \* bound: no vote for a later decree
    MaxConfig        \* bound: no reconfiguration out of this one

ASSUME ReconfigurationAssumption ==
    /\ {N, MaxDecree, MaxConfig} \subseteq Nat \ {0}
    /\ \A z \in Start : /\ 1 \in z.members /\ z.members \subseteq 1 .. N
                        /\ z.quiet \in BOOLEAN /\ z.restarts \in Nat
    /\ \A m \in NewMembers : m # {} /\ m \subseteq 1 .. N
    /\ \A c \in 1 .. MaxConfig :
           MaxBallotId[c] \in Nat /\ Candidates[c] \subseteq 1 .. N

VARIABLES
    conf,        \* m_paxosConfiguration: [num, init, members]
    acc,         \* m_maxAcceptedVote: [dec, bal, val]
    maxb,        \* m_maxBallot
    st,          \* m_state
    out,         \* m_outstandingVote # NULL
    resp,        \* m_responseMap
    fresh,       \* m_oldFreshestVote
    log,         \* the records of the log, after the checkpoint ckpt
    stale,       \* what follows them in a file opened again at its start:
                 \* [left: the records not yet written over, ever: BOOLEAN]
    ckpt,        \* the checkpoint a restart begins with: [conf, next, bal]
    defunct,     \* m_highestDefunctConfigurationNumber
    sent,        \* every message sent so far; any of them may arrive or not
    quiet,       \* no election takes place in configuration 1
    rrestarts    \* crashes still to come (bounded by Start)

confVars == <<conf, acc, maxb, st, out, resp, fresh, log, stale, ckpt, defunct,
              sent, quiet, rrestarts>>

Replica == 1 .. N
BallotId(b) == b \div (N + 1)
NewBallot(id, r) == id * (N + 1) + r

NoConf == [num |-> 0, init |-> 0, members |-> {}]
Vote0(d) == [dec |-> d, bal |-> 0, val |-> {}]
QuorumSize(c) == Cardinality(c.members) \div 2 + 1

IsLower(dec, bal, d, b) == dec < d \/ bal < b
IsNext(dec, bal, d, b) == (dec = d /\ bal >= b) \/ (dec = d + 1 /\ bal = b)

\* VerifyMessage: only messages of a known member of the current
\* configuration, which is not defunct, reach a handler.
Verify(r, m) ==
    /\ m \in sent
    /\ m.cfg > defunct[r]
    /\ m.cfg = conf[r].num
    /\ st[r] # "inactive"
    /\ m.from # r
    /\ m.from \in conf[r].members

VoteRec(v, c) == [k |-> "V", dec |-> v.dec, bal |-> v.bal, val |-> v.val,
                  cfg |-> c]
PrepareRec(d, b, c) == [k |-> "P", dec |-> d, bal |-> b, val |-> {}, cfg |-> c]
DecisionRec(d, b, c) == [k |-> "D", dec |-> d, bal |-> b, val |-> {}, cfg |-> c]

Send(k, r, d, b, val) ==
    sent' = sent \cup {[k |-> k, from |-> r, cfg |-> conf[r].num, dec |-> d,
                        bal |-> b, val |-> val, vb |-> 0]}

(***************************************************************************)
(* What the log does to a replica: the functions below take a record m of  *)
(* the fields conf, acc, bal, log and left, and are shared by the          *)
(* handlers, by LearnVotes and by RestoreState.                            *)
(***************************************************************************)
Mem(r) == [conf |-> conf[r], acc |-> acc[r], bal |-> maxb[r], log |-> log[r],
           left |-> stale[r].left, ok |-> TRUE]

\* LogFile::Write, at the write pointer (a record is one page).
Written(m, rec) ==
    [m EXCEPT !.log = Append(@, rec),
              !.left = IF @ = <<>> THEN @ ELSE Tail(@)]

Larger(a, b) == IF a >= b THEN a ELSE b

\* A defect: the decision changes memory and is not written.
TakeDecisionUnlogged(m, rec) ==
    [m EXCEPT !.conf = [num |-> m.conf.num + 1, init |-> m.acc.dec + 1,
                        members |-> m.acc.val],
              !.acc = Vote0(m.acc.dec + 1),
              !.bal = NewBallot(BallotId(m.bal) + 1, 0)]

\* LogReconfigurationDecision, ChangePaxosConfiguration.
TakeDecision(m, rec) ==
    [Written(m, rec) EXCEPT
              !.conf = [num |-> m.conf.num + 1, init |-> m.acc.dec + 1,
                        members |-> m.acc.val],
              !.acc = Vote0(m.acc.dec + 1),
              !.bal = NewBallot(BallotId(m.bal) + 1, 0)]

\* A defect: a decision of any ballot is taken for the last accepted vote.
DecisionMatchesDecree(m, rec) == rec.dec = m.acc.dec

DecisionMatches(m, rec) == rec.dec = m.acc.dec /\ rec.bal = m.acc.bal

TakeVote(m, rec) ==
    [Written(m, rec) EXCEPT
              !.acc = [dec |-> rec.dec, bal |-> rec.bal, val |-> rec.val],
              !.bal = Larger(@, rec.bal)]

TakePrepare(m, rec) ==
    [Written(m, rec) EXCEPT !.bal = Larger(@, rec.bal)]

\* m' of replica r is the record m.
Become(r, m) ==
    /\ conf' = [conf EXCEPT ![r] = m.conf]
    /\ acc' = [acc EXCEPT ![r] = m.acc]
    /\ maxb' = [maxb EXCEPT ![r] = m.bal]
    /\ log' = [log EXCEPT ![r] = m.log]
    /\ stale' = [stale EXCEPT ![r] = [left |-> m.left,
                                      ever |-> @.ever \/ m.left # <<>>]]

\* StartInitializing, or the inactive state of a replica that is no member.
Settle(r, c) ==
    /\ st' = [st EXCEPT ![r] = IF r \in c.members THEN "initializing"
                               ELSE "inactive"]
    /\ out' = [out EXCEPT ![r] = FALSE]
    /\ resp' = [resp EXCEPT ![r] = {}]

\* Logging a vote shows that the configuration before its own is defunct.
DefunctByVote(r, c) == Larger(defunct[r], c - 1)

(***************************************************************************)
(* Elections and votes inside a configuration.                             *)
(***************************************************************************)

\* A majority answered the status query, and nobody knows a later vote.
NobodyAhead(r) ==
    Cardinality({s \in conf[r].members :
                    /\ conf[s].num = conf[r].num
                    /\ \/ acc[s].dec < acc[r].dec
                       \/ acc[s].dec = acc[r].dec /\ acc[s].bal <= acc[r].bal})
        >= QuorumSize(conf[r])

\* One above m_maxBallot, or one above m_maxSeenBallot if that is higher.
NextBallotIds(r) ==
    LET id == BallotId(maxb[r]) + 1
    IN  {id} \cup {BallotId(m.bal) + 1 :
                       m \in {x \in sent : /\ x.cfg = conf[r].num
                                          /\ x.bal > NewBallot(id, r)}}

StartPreparing(r, id) ==
    /\ st[r] = "initializing"
    /\ NobodyAhead(r)
    /\ r \in Candidates[conf[r].num]
    /\ quiet => conf[r].num > 1
    /\ id \in NextBallotIds(r) /\ id <= MaxBallotId[conf[r].num]
    /\ LET b == NewBallot(id, r)
       IN  /\ Become(r, TakePrepare(Mem(r),
                                    PrepareRec(acc[r].dec, b, conf[r].num)))
           /\ Send("Prepare", r, acc[r].dec, b, {})
    /\ st' = [st EXCEPT ![r] = "preparing"]
    /\ resp' = [resp EXCEPT ![r] = {}]
    /\ fresh' = [fresh EXCEPT ![r] = acc[r]]
    /\ UNCHANGED <<out, ckpt, defunct, quiet, rrestarts>>

BecomeSecondary(r) ==
    /\ st[r] = "initializing"
    /\ NobodyAhead(r)
    /\ st' = [st EXCEPT ![r] = "secondary"]
    /\ UNCHANGED <<conf, acc, maxb, out, resp, fresh, log, stale, ckpt,
                   defunct, sent, quiet, rrestarts>>

\* Timer: a secondary that hears nothing starts over.
ElectionTimeout(r) ==
    /\ st[r] = "secondary"
    /\ r \in Candidates[conf[r].num]
    /\ quiet => conf[r].num > 1
    /\ st' = [st EXCEPT ![r] = "initializing"]
    /\ UNCHANGED <<conf, acc, maxb, out, resp, fresh, log, stale, ckpt,
                   defunct, sent, quiet, rrestarts>>

HandlePrepare(r, m) ==
    /\ Verify(r, m) /\ m.k = "Prepare"
    /\ ~IsLower(m.dec, m.bal, acc[r].dec, maxb[r])
    /\ st[r] # "initializing"
    /\ IF m.bal > maxb[r]
       THEN Become(r, TakePrepare(Mem(r), PrepareRec(m.dec, m.bal, m.cfg)))
       ELSE UNCHANGED <<conf, acc, maxb, log, stale>>
    /\ sent' = sent \cup {[k |-> "PrepareAccepted", from |-> r, cfg |-> m.cfg,
                           dec |-> m.dec, bal |-> m.bal, val |-> acc[r].val,
                           vb |-> IF acc[r].dec = m.dec THEN acc[r].bal
                                  ELSE 0]}
    /\ st' = [st EXCEPT ![r] = IF m.dec > acc[r].dec THEN "initializing"
                               ELSE "secondary"]
    /\ resp' = [resp EXCEPT ![r] = {}]
    /\ out' = [out EXCEPT ![r] = FALSE]
    /\ UNCHANGED <<fresh, ckpt, defunct, quiet, rrestarts>>

\* SendNextVote: log the vote, then send it to the other members.
SendVote(r, vote) ==
    /\ Become(r, TakeVote(Mem(r), VoteRec(vote, conf[r].num)))
    /\ Send("Vote", r, vote.dec, vote.bal, vote.val)
    /\ st' = [st EXCEPT ![r] = "primary"]
    /\ out' = [out EXCEPT ![r] = TRUE]
    /\ resp' = [resp EXCEPT ![r] = {}]
    /\ defunct' = [defunct EXCEPT ![r] = DefunctByVote(r, conf[r].num)]

\* The freshest vote the majority reported is proposed again.
HandlePrepareAccepted(r, m) ==
    /\ Verify(r, m) /\ m.k = "PrepareAccepted"
    /\ st[r] = "preparing"
    /\ m.dec = acc[r].dec /\ m.bal = maxb[r]
    /\ LET f == IF m.vb > fresh[r].bal
                THEN [dec |-> m.dec, bal |-> m.vb, val |-> m.val]
                ELSE fresh[r]
           got == resp[r] \cup {m.from}
       IN  /\ fresh' = [fresh EXCEPT ![r] = f]
           /\ IF Cardinality(got) >= QuorumSize(conf[r]) - 1
              THEN SendVote(r, [dec |-> acc[r].dec, bal |-> maxb[r],
                                val |-> f.val])
              ELSE /\ resp' = [resp EXCEPT ![r] = got]
                   /\ UNCHANGED <<conf, acc, maxb, log, stale, sent, st, out,
                                  defunct>>
    /\ UNCHANGED <<ckpt, quiet, rrestarts>>

\* The primary takes the next vote of m_votesToSend: requests, or the member
\* set of ChangeConfiguration.
SendNextVote(r, val) ==
    /\ st[r] = "primary" /\ ~out[r]
    /\ acc[r].dec < MaxDecree
    /\ val # {} => conf[r].num < MaxConfig
    /\ SendVote(r, [dec |-> acc[r].dec + 1, bal |-> maxb[r], val |-> val])
    /\ UNCHANGED <<fresh, ckpt, quiet, rrestarts>>

HandleVote(r, m) ==
    /\ Verify(r, m) /\ m.k = "Vote"
    /\ st[r] # "initializing"
    /\ ~IsLower(m.dec, m.bal, acc[r].dec, acc[r].bal)
    /\ IF IsNext(m.dec, m.bal, acc[r].dec, acc[r].bal)
       THEN /\ Become(r, IF m.dec = acc[r].dec /\ m.bal = acc[r].bal
                         THEN Mem(r) ELSE TakeVote(Mem(r), VoteRec(m, m.cfg)))
            /\ st' = [st EXCEPT ![r] = "secondary"]
            /\ defunct' = [defunct EXCEPT ![r] = DefunctByVote(r, m.cfg)]
            /\ IF m.bal < maxb[r] THEN sent' = sent     \* NotAccepted
               ELSE Send("VoteAccepted", r, m.dec, m.bal, {})
       ELSE /\ st' = [st EXCEPT ![r] = "initializing"]  \* missed votes
            /\ UNCHANGED <<conf, acc, maxb, log, stale, defunct, sent>>
    /\ resp' = [resp EXCEPT ![r] = {}]
    /\ out' = [out EXCEPT ![r] = FALSE]
    /\ UNCHANGED <<fresh, ckpt, quiet, rrestarts>>

(***************************************************************************)
(* The decision.                                                           *)
(***************************************************************************)

\* The majority accepted the vote of primary r.  The decision on a member set
\* goes to the members of the old configuration, r itself moves on at once.
VotePassed(r) ==
    IF acc[r].val = {}
    THEN /\ out' = [out EXCEPT ![r] = FALSE]
         /\ resp' = [resp EXCEPT ![r] = {}]
         /\ UNCHANGED <<conf, acc, maxb, log, stale, sent, st>>
    ELSE /\ Send("Decision", r, acc[r].dec, acc[r].bal, {})
         /\ LET m == TakeDecision(Mem(r), DecisionRec(acc[r].dec, acc[r].bal,
                                                      conf[r].num))
            IN  Become(r, m) /\ Settle(r, m.conf)

HandleVoteAccepted(r, m) ==
    /\ Verify(r, m) /\ m.k = "VoteAccepted"
    /\ st[r] = "primary" /\ out[r]
    /\ m.dec = acc[r].dec /\ m.bal = maxb[r] /\ acc[r].bal = maxb[r]
    /\ IF Cardinality(resp[r] \cup {m.from}) >= QuorumSize(conf[r]) - 1
       THEN VotePassed(r)
       ELSE /\ resp' = [resp EXCEPT ![r] = @ \cup {m.from}]
            /\ UNCHANGED <<conf, acc, maxb, log, stale, sent, st, out>>
    /\ UNCHANGED <<fresh, ckpt, defunct, quiet, rrestarts>>

HandleDecision(r, m) ==
    /\ Verify(r, m) /\ m.k = "Decision"
    /\ DecisionMatches(Mem(r), m)
    /\ LET n == TakeDecision(Mem(r), DecisionRec(m.dec, m.bal, m.cfg))
       IN  Become(r, n) /\ Settle(r, n.conf)
    /\ UNCHANGED <<fresh, ckpt, defunct, sent, quiet, rrestarts>>

(***************************************************************************)
(* Members that missed the decision: they hear of a later configuration,   *)
(* ask for a Join message, and read the log of its sender or copy its      *)
(* checkpoint.  Learning inside a configuration is the same read.          *)
(***************************************************************************)

\* LogFile::GetOffset: the last vote for decree d, 0 if the log has none.
Offset(s, d) ==
    LET at == {i \in 1 .. Len(log[s]) : log[s][i].k = "V" /\ log[s][i].dec = d}
    IN  IF at = {} THEN 0 ELSE CHOOSE i \in at : \A j \in at : i >= j

LearnVote(m, rec) ==
    CASE rec.bal < m.acc.bal -> m
      [] rec.dec = m.acc.dec /\ rec.bal = m.acc.bal -> m
      [] IsNext(rec.dec, rec.bal, m.acc.dec, m.acc.bal) -> TakeVote(m, rec)
      [] OTHER -> TakeVote(TakeVote(m, [rec EXCEPT !.bal = m.acc.bal]), rec)

\* A defect: a decision in the log of another replica is passed over.
LearnDecisionSkipped(m, rec) == m

LearnDecision(m, rec) ==
    IF DecisionMatches(m, rec) THEN TakeDecision(m, rec) ELSE m

\* One message of the stream; one of another configuration ends it.
LearnRecord(m, rec) ==
    IF ~m.ok \/ rec.cfg # m.conf.num
    THEN [m EXCEPT !.ok = FALSE]
    ELSE CASE rec.k = "P" -> IF rec.bal > m.bal THEN TakePrepare(m, rec) ELSE m
           [] rec.k = "D" -> LearnDecision(m, rec)
           [] OTHER       -> LearnVote(m, rec)

LearnVotes(r, s) ==
    FoldLeft(LearnRecord, Mem(r),
             SubSeq(log[s], Offset(s, acc[r].dec), Len(log[s])))

\* After a Join message, or at the end of the status exchange.
MayLearn(r, s) ==
    /\ r # s
    /\ conf[r].num > 0
    /\ Offset(s, acc[r].dec) > 0
    /\ \/ conf[s].num > conf[r].num
       \/ /\ conf[s].num = conf[r].num /\ r \in conf[r].members
          /\ st[r] = "initializing"
          /\ \/ acc[s].dec > acc[r].dec
             \/ acc[s].dec = acc[r].dec /\ acc[s].bal > acc[r].bal

Learn(r, s) ==
    /\ MayLearn(r, s)
    /\ LET m == LearnVotes(r, s)
       IN  /\ Become(r, m)
           /\ defunct' = [defunct EXCEPT ![r] =
                  IF m.acc.bal = 0 THEN @ ELSE DefunctByVote(r, m.conf.num)]
           /\ IF m.conf # conf[r] THEN Settle(r, m.conf)
              ELSE UNCHANGED <<st, out, resp>>
    /\ UNCHANGED <<fresh, ckpt, sent, quiet, rrestarts>>

\* RestoreState, on the records after the checkpoint.
RestoreRecord(m, rec) ==
    CASE rec.k = "P" -> TakePrepare(m, rec)
      [] rec.k = "D" -> [TakeDecision(m, rec) EXCEPT
                            !.ok = /\ @ /\ rec.dec = m.acc.dec
                                   /\ m.acc.bal >= rec.bal /\ m.acc.val # {}]
      [] OTHER       -> [TakeVote(m, rec) EXCEPT
                            !.ok = @ /\ IsNext(rec.dec, rec.bal, m.acc.dec,
                                               m.acc.bal)]

\* The logs hold no vote as late as that of the checkpoint: they are dropped,
\* and the file named after that decree is written from its start.
Reopened(c, m) ==
    IF c.next.bal = 0 THEN [m EXCEPT !.log = <<>>, !.left = m.log]
    ELSE Written([m EXCEPT !.log = <<>>, !.left = m.log],
                 VoteRec(c.next, c.conf.num))

RestoreState(c, recs) ==
    LET m == FoldLeft(RestoreRecord,
                      [conf |-> c.conf, acc |-> c.next, bal |-> c.bal,
                       log |-> <<>>, left |-> <<>>, ok |-> TRUE], recs)
    IN  IF \E i \in 1 .. Len(recs) : recs[i].k = "V" THEN m
        ELSE Reopened(c, m)

MayCopy(r, s) ==
    /\ r # s
    /\ conf[s].num > conf[r].num
    /\ conf[r].num = 0 \/ Offset(s, acc[r].dec) = 0
    /\ acc[s].dec - 1 >= acc[r].dec

\* The checkpoint of s after its last passed decree; it replaces what r has,
\* and r restarts from it.
CopyCheckpoint(r, s) ==
    /\ MayCopy(r, s)
    /\ LET c == [conf |-> conf[s], next |-> acc[s],
                 bal |-> Larger(maxb[s], maxb[r])]
           m == RestoreState(c, <<>>)
       IN  /\ ckpt' = [ckpt EXCEPT ![r] = c]
           /\ Become(r, m)
           /\ Settle(r, m.conf)
    /\ UNCHANGED <<fresh, defunct, sent, quiet, rrestarts>>

\* defunct.txt is written without a flush: a crash may bring back an old one.
Restart(r, d) ==
    /\ rrestarts > 0
    /\ rrestarts' = rrestarts - 1
    /\ LET m == RestoreState(ckpt[r], log[r] \o stale[r].left)
       IN  Become(r, m) /\ Settle(r, m.conf)
    /\ d \in 0 .. defunct[r]
    /\ defunct' = [defunct EXCEPT ![r] = d]
    /\ UNCHANGED <<fresh, ckpt, sent, quiet>>

\* UpdateDefunctInfo, on the answer of s to a message or a Join of r.
HearDefunct(r, s) ==
    /\ defunct[s] > defunct[r]
    /\ conf[r].num <= defunct[s] + 1
    /\ IF conf[r].num <= defunct[s] /\ st[r] # "inactive"
       THEN Settle(r, conf[r]) /\ UNCHANGED defunct
       ELSE /\ defunct' = [defunct EXCEPT ![r] = defunct[s]]
            /\ UNCHANGED <<st, out, resp>>
    /\ UNCHANGED <<conf, acc, maxb, fresh, log, stale, ckpt, sent, quiet,
                   rrestarts>>

-----------------------------------------------------------------------------

FirstConf(members) == [num |-> 1, init |-> 1, members |-> members]
FirstBallot == NewBallot(1, 1)

\* Replica 1 is the primary of configuration 1 and its first vote has passed.
\* Replicas that are no members have only been started.
InitReconfiguration ==
  \E z \in Start :
    /\ conf = [r \in Replica |->
                  IF r \in z.members THEN FirstConf(z.members) ELSE NoConf]
    /\ acc = [r \in Replica |->
                 IF r \in z.members
                 THEN [dec |-> 1, bal |-> FirstBallot, val |-> {}]
                 ELSE Vote0(0)]
    /\ maxb = [r \in Replica |-> IF r \in z.members THEN FirstBallot ELSE 0]
    /\ st = [r \in Replica |-> CASE r = 1 -> "primary"
                                [] r \in z.members -> "secondary"
                                [] OTHER -> "inactive"]
    /\ out = [r \in Replica |-> FALSE]
    /\ resp = [r \in Replica |-> {}]
    /\ fresh = [r \in Replica |-> Vote0(0)]
    /\ log = [r \in Replica |->
                 IF r \in z.members THEN <<VoteRec(acc[r], 1)>> ELSE <<>>]
    /\ stale = [r \in Replica |-> [left |-> <<>>, ever |-> FALSE]]
    /\ ckpt = [r \in Replica |->
                  [conf |-> conf[r],
                   next |-> IF r \in z.members THEN Vote0(1) ELSE Vote0(0),
                   bal |-> 0]]
    /\ defunct = [r \in Replica |-> 0]
    /\ sent = {}
    /\ quiet = z.quiet
    /\ rrestarts = z.restarts

NextReconfiguration ==
    \E r \in Replica :
        \/ \E id \in 1 .. MaxBallotId[MaxConfig] : StartPreparing(r, id)
        \/ BecomeSecondary(r)
        \/ ElectionTimeout(r)
        \/ \E val \in NewMembers \cup {{}} : SendNextVote(r, val)
        \/ \E m \in sent : HandlePrepare(r, m)
        \/ \E m \in sent : HandlePrepareAccepted(r, m)
        \/ \E m \in sent : HandleVote(r, m)
        \/ \E m \in sent : HandleVoteAccepted(r, m)
        \/ \E m \in sent : HandleDecision(r, m)
        \/ \E s \in Replica : Learn(r, s)
        \/ \E s \in Replica : CopyCheckpoint(r, s)
        \/ \E s \in Replica : HearDefunct(r, s)
        \/ \E d \in 0 .. MaxConfig : Restart(r, d)

\* Join messages are repeated until the new configuration has accepted a vote,
\* and from then on its primary's heartbeats make a straggler ask for one.
JoinStep ==
    \E r, s \in Replica : Learn(r, s) \/ CopyCheckpoint(r, s)

\* Some join step is possible that changes its replica (this is ENABLED of
\* <<JoinStep>>_confVars, written as a state predicate).
JoinPossible ==
    \E r, s \in Replica :
        MayCopy(r, s) \/ (MayLearn(r, s) /\ LearnVotes(r, s).log # log[r])

\* A primary sends its vote again every second until it has passed, so that
\* the members of its configuration get it, and it their answers, as often as
\* they are ready for it.
VoteStep ==
    \E r \in Replica, m \in sent : HandleVote(r, m) \/ HandleVoteAccepted(r, m)

SettleStep == \E r \in Replica : BecomeSecondary(r)

FairReconfiguration ==
    /\ []<>~JoinPossible \/ []<><<JoinStep>>_confVars   \* weak fairness
    /\ SF_confVars(VoteStep)
    /\ WF_confVars(SettleStep)

SpecReconfiguration ==
    InitReconfiguration /\ [][NextReconfiguration]_confVars
        /\ FairReconfiguration

-----------------------------------------------------------------------------

\* A decree belongs to one configuration: once a majority has accepted the new
\* member set for decree d, no primary of the old configuration ever proposes
\* a vote for d + 1, whatever elections overlap the decision (SendNextVote,
\* LogReconfigurationDecision).
OneConfigurationPerDecree ==
    \A m1, m2 \in sent :
        (m1.k = "Vote" /\ m2.k = "Vote" /\ m1.dec = m2.dec)
            => m1.cfg = m2.cfg

\* Replicas that are in the same configuration agree on its members and on its
\* first decree, even when two primaries proposed different member sets
\* (ChangePaxosConfiguration).
ConfigurationAgreement ==
    \A r, s \in Replica : conf[r].num = conf[s].num => conf[r] = conf[s]

\* A configuration is recorded as defunct only when a majority of the members
\* of the next one have moved to it, so that it can be forgotten
\* (UpdateDefunctInfo).
DefunctEstablished ==
    \A r, s \in Replica :
        (defunct[r] > 0 /\ conf[s].num = defunct[r] + 1)
            => Cardinality({q \in conf[s].members :
                               conf[q].num > defunct[r]}) >= QuorumSize(conf[s])

\* A crash at any point around the decision brings back the configuration and
\* the accepted vote, with every assertion of RestoreState satisfied, and the
\* promise the replica had.  One case is excepted, and there the code loses the
\* promise: a replica that has restarted with prepares and no vote in its log
\* since it copied a checkpoint writes that file again from its start, and a
\* vote of a lower ballot takes the place of the prepare it had answered.
RestoresConfiguration ==
    \A r \in Replica :
        LET m == RestoreState(ckpt[r], log[r] \o stale[r].left)
        IN  /\ m.ok /\ m.conf = conf[r] /\ m.acc = acc[r]
            /\ m.bal = maxb[r] \/ (stale[r].ever /\ m.bal < maxb[r])

EveryMemberJoined ==
    \E r \in Replica :
        /\ conf[r].num = MaxConfig
        /\ \A s \in conf[r].members : conf[s].num = MaxConfig

\* When no election overlaps the reconfiguration, every member of the new
\* configuration moves to it, by the decision, a log or a checkpoint
\* (HandleJoinMsg).
MembersJoin ==
    (quiet /\ \E r \in Replica : conf[r].num = MaxConfig) ~> EveryMemberJoined

\* The same with elections.  "if a decree d with value V has been passed then
\* any decree d proposed later with higher ballot must also have value V" is
\* why a decision should also settle a vote of a higher ballot
\* (LogReconfigurationDecision).
MembersJoinAlways ==
    (\E r \in Replica : conf[r].num = MaxConfig) ~> EveryMemberJoined
=============================================================================
