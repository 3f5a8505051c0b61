---------------------------- MODULE MCLegislator ----------------------------
(***************************************************************************)
(* Small instances of Legislator for TLC.  What a replica could repeat for *)
(* ever is counted, and each kind has a bound.  A run is made of several   *)
(* scenarios: bound says which one a behaviour belongs to.                 *)
(***************************************************************************)
EXTENDS Legislator

CONSTANT Scenarios   \* the scenarios of the run, each a record of bounds

VARIABLES
    bound,     \* the scenario of this behaviour
    spent      \* how many of each kind of step have happened

MCVars == <<vars, bound, spent>>

\* At most ballots ids are prepared in elections rounds, with rejects
\* NotAccepted messages; members of maySetback return to Initializing
\* setbacks times, those of mayLearn learn learns times, those of mayRestart
\* crash restarts times, and relinquish votes give up the primary.  Messages
\* of ballots with id 1 are answered by the members first only, those of the
\* other ballots by the members later.
Quiet ==
    [ballots |-> 1, elections |-> 2, rejects |-> 0, setbacks |-> 0,
     learns |-> 0, restarts |-> 0, relinquish |-> 0, maySetback |-> Member,
     mayLearn |-> Member, mayRestart |-> Member, first |-> Member,
     later |-> Member]

Competing ==
    [Quiet EXCEPT !.rejects = 1, !.setbacks = 1, !.maySetback = {2, 3}]
Relinquishing ==
    [Quiet EXCEPT !.ballots = 2, !.elections = 3, !.rejects = 1,
                  !.setbacks = 1, !.relinquish = 1, !.maySetback = {1},
                  !.first = {3}, !.later = {3}]

AcceptorCrash ==
    [Quiet EXCEPT !.setbacks = 1, !.restarts = 1, !.maySetback = {2},
                  !.mayRestart = {3}]
RefusedCrash == [AcceptorCrash EXCEPT !.rejects = 1, !.first = {2, 3}]
FallenBehind ==
    [Quiet EXCEPT !.setbacks = 1, !.learns = 1, !.maySetback = {2, 3},
                  !.mayLearn = {2, 3}, !.first = {2, 3}]
SourceCrash ==
    [Quiet EXCEPT !.ballots = 2, !.setbacks = 1, !.learns = 1,
                  !.restarts = 2, !.maySetback = {2}, !.mayLearn = {2},
                  !.mayRestart = {1, 2}, !.first = {3}, !.later = {2}]
LearnerCrash == [SourceCrash EXCEPT !.elections = 3, !.mayRestart = {2}]
ConsensusScenarios ==
    {Competing, Relinquishing, AcceptorCrash, RefusedCrash, FallenBehind,
     SourceCrash, LearnerCrash}

DemotedWhileRelinquishing ==
    {[Quiet EXCEPT !.ballots = 2, !.elections = 3, !.rejects = 1,
                   !.setbacks = 1, !.relinquish = 1, !.maySetback = {1}]}

TwoRestarts ==
    {[Quiet EXCEPT !.ballots = 3, !.elections = 3, !.setbacks = 2,
                   !.learns = 1, !.restarts = 3, !.maySetback = {2, 3},
                   !.mayLearn = {3}, !.mayRestart = {1, 3}, !.first = {2},
                   !.later = {3}]}

-----------------------------------------------------------------------------
Setbacks == {r \in Member : /\ state[r] # "Initializing"
                            /\ state'[r] = "Initializing"}
Learns == {r \in Member : learn[r] = NotLearning /\ learn'[r] # NotLearning}

Prepares(ms) == {m \in ms : m.type = "Prepare"}

\* A step that is a crash when crash is 1, and gives up the primary when rp
\* is 1.
Count(crash, rp) ==
    /\ UNCHANGED bound
    /\ spent' = [setbacks |-> spent.setbacks +
                              (IF crash = 1 THEN 0 ELSE Cardinality(Setbacks)),
                 learns |-> spent.learns + Cardinality(Learns),
                 restarts |-> spent.restarts + crash,
                 relinquish |-> spent.relinquish + rp]
    /\ spent'.setbacks <= bound.setbacks
    /\ spent'.learns <= bound.learns
    /\ spent'.restarts <= bound.restarts
    /\ spent'.relinquish <= bound.relinquish
    /\ \/ UNCHANGED msgs
       \/ /\ Cardinality(Prepares(msgs')) <= bound.elections
          /\ \A m \in Prepares(msgs' \ msgs) : m.bal.id <= bound.ballots
          /\ Cardinality({m \in msgs' : m.type = "NotAccepted"})
                 <= bound.rejects
    /\ crash = 1 \/ Setbacks \subseteq bound.maySetback
    /\ Learns \subseteq bound.mayLearn

Reached(bal) == IF bal.id = 1 THEN bound.first ELSE bound.later

Partitioned ==
    \A m \in msgs' \ msgs :
        m.type \in {"PrepareAccepted", "VoteAccepted"} => m.src \in Reached(m.bal)

\* After the first crash, another one happens only while a member learns.
CrashesMeetLearning ==
    spent'.restarts \in {spent.restarts, 1}
    \/ \E r \in Member : learn[r] # NotLearning

MCInit ==
    /\ Init
    /\ bound \in Scenarios
    /\ spent = [setbacks |-> 0, learns |-> 0, restarts |-> 0, relinquish |-> 0]

FreeStep(r) ==
    \/ TimerStartInitializing(r)
    \/ \E q \in Member :
           \/ StatusWait(r, q)
           \/ StatusLearn(r, q)
           \/ StatusSecondary(r, q)
           \/ StatusPrepare(r, q)
           \/ StatusAhead(r, q)
    \/ LearnStep(r)
    \/ MessageStep(r)
    \/ \E val \in AnyValue : SendNextVote(r, val)

CrashStep(r) ==
    \/ Restart(r)
    \/ \E q \in Member : StatusPrepareCrash(r, q)

MCNext ==
    /\ \E r \in Member :
           \/ FreeStep(r) /\ Count(0, 0)
           \/ SendRelinquishVote(r) /\ Count(0, 1)
           \/ r \in bound.mayRestart /\ CrashStep(r) /\ Count(1, 0)
    /\ Partitioned
    /\ CrashesMeetLearning

MCSpec == MCInit /\ [][MCNext]_MCVars

-----------------------------------------------------------------------------
\* A narrower environment for a long run with restarts before the first vote:
\* member 1 stops under ballot 1 and member 3 under ballot 3, the timer of
\* member 2 runs out under ballot 1, and member 1 is the only one with a
\* client.
Environment(r) ==
    \/ r = 2 /\ maxBallot[r].id = 1 /\ TimerStartInitializing(r) /\ Count(0, 0)
    \/ \E q \in Member : /\ \/ StatusLearn(r, q)
                            \/ StatusSecondary(r, q)
                            \/ StatusPrepare(r, q)
                         /\ Count(0, 0)
    \/ LearnAccept(r) /\ Count(0, 0)
    \/ MessageStep(r) /\ Count(0, 0)
    \/ SendNextVote(r, IF r = 1 THEN CHOOSE v \in Value : TRUE ELSE NoValue)
       /\ Count(0, 0)
    \/ /\ maxBallot[r].id = r
       /\ r \in bound.mayRestart
       /\ Restart(r) \/ RestartBeforeFirstVote(r)
       /\ Count(1, 0)

MCNextAnyRestart == \E r \in Member : Environment(r) /\ Partitioned

MCSpecAnyRestart == MCInit /\ [][MCNextAnyRestart]_MCVars
=============================================================================
