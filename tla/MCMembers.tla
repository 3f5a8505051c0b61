------------------------------ MODULE MCMembers ------------------------------
(***************************************************************************)
(* The members of a configuration for TLC: how one configuration takes     *)
(* over from another, and how a primary keeps in touch with the members it *)
(* has.  A behaviour is about one of the two.                              *)
(***************************************************************************)
EXTENDS Reconfiguration, ReplicaHealth

CONSTANT Concerns    \* what the run is about

VARIABLE concern

membersVars == <<concern, confVars, hvars>>

Starting(members, calm, crashes) ==
    [members |-> members, quiet |-> calm, restarts |-> crashes]
MCStart ==
    {Starting({1, 2}, FALSE, 0), Starting({1, 2, 3}, FALSE, 0),
     Starting({1, 2, 3}, TRUE, 0), Starting({1, 2}, TRUE, 1)}
OverlappingElections == {Starting({1, 2, 3}, FALSE, 0)}

MCNewMembers == {{2, 3}}
MCCandidates == <<{2}, {3}>>
MCMaxBallotId == <<2, 3>>
MCKnown == [m \in HMember |-> m]

InitMembers ==
    /\ concern \in Concerns
    /\ concern = "health" \/ hreq = "Prepare"
    /\ InitReconfiguration
    /\ InitHealth
    /\ concern = "configuration" \/ (quiet /\ rrestarts = 0)
NextMembers ==
    \/ /\ concern = "configuration" /\ NextReconfiguration
       /\ UNCHANGED <<concern, hvars>>
    \/ /\ concern = "health" /\ NextHealth
       /\ UNCHANGED <<concern, confVars>>

\* Each under its own fairness.
FairMembers ==
    \/ concern = "configuration" /\ FairReconfiguration
    \/ concern = "health" /\ FairHealth

SpecMembers == InitMembers /\ [][NextMembers]_membersVars /\ FairMembers

-----------------------------------------------------------------------------
\* A configuration is one thing: a decree belongs to one configuration, its
\* members agree on who they are, and it is given up only when the next one
\* stands.
ConfigurationsAgree ==
    OneConfigurationPerDecree /\ ConfigurationAgreement /\ DefunctEstablished

\* The members of a new configuration join it, and a vote reaches every member
\* that is up.
MembersReached ==
    /\ concern = "configuration" => MembersJoin
    /\ concern = "health" => VoteReachesMembers
=============================================================================
