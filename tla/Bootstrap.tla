----------------------------- MODULE Bootstrap -----------------------------
(***************************************************************************)
(* The birth of a replicated system: one member is told the member set     *)
(* (Legislator::Bootstrap), writes it to its first checkpoint, invites the *)
(* others with BootstrapMsg until a first vote has been accepted, and each *)
(* invited member writes its own checkpoint before it takes part           *)
(* (legislator.cpp).  Members crash and restart from disk, messages are    *)
(* lost, repeated and delayed, and a call may time out and be repeated     *)
(* with another set.                                                       *)
(*                                                                         *)
(* {} stands for the empty member set a replica starts with.  The election *)
(* is reduced to what makes it a quorum's decision; the members that learn *)
(* of the configuration from a JoinMessage are in Reconfiguration.         *)
(***************************************************************************)
EXTENDS Naturals, FiniteSets

CONSTANTS
    BMember,      \* the machines
    BSets,        \* the member sets the application may ask for
    BCallers,     \* the machines on which it calls Bootstrap
    MaxCalls,     \* calls of Bootstrap, at most
    MaxCrashes    \* crashes, at most

(* The application calls Bootstrap on one machine, possibly many times.    *)
ASSUME BootstrapAssumption ==
    /\ IsFiniteSet(BMember) /\ BSets \subseteq SUBSET BMember
    /\ \E c \in BMember : BCallers = {c}

VARIABLES
    bmem,      \* per member: configuration, pending set, state of the replica
    bdisk,     \* per member: member set in its checkpoint, whether its log has a vote
    bcall,     \* per member: the Bootstrap call in progress or its result
    bmsgs,     \* BootstrapMsgs sent
    bunsaved,  \* the members whose first checkpoint once kept its temporary name
    bleft      \* calls and crashes left

bvars == <<bmem, bdisk, bcall, bmsgs, bunsaved, bleft>>

Blank == [conf |-> {}, pending |-> {}, state |-> "PaxosInactive", primary |-> FALSE]

InitBootstrap ==
    /\ bmem = [m \in BMember |-> Blank]
    /\ bdisk = [m \in BMember |-> [set |-> {}, voted |-> FALSE]]
    /\ bcall = [m \in BMember |-> [set |-> {}, result |-> "none"]]
    /\ bmsgs = {} /\ bunsaved = {}
    /\ bleft = [calls |-> MaxCalls, crashes |-> MaxCrashes]

-----------------------------------------------------------------------------
HasConfigurationCheckpointed(m) == bmem[m].conf # {}

(* A vote has been accepted.                                               *)
IsBootstrapped(m) == bdisk[m].voted

(* What StartBootstrap answers: the set must include the member and be the *)
(* one it already has, checkpointed or pending.                            *)
StartBootstrap(m, S) ==
    LET current == IF HasConfigurationCheckpointed(m)
                   THEN bmem[m].conf ELSE bmem[m].pending
    IN IF IsBootstrapped(m) THEN "RSLAlreadyBootstrapped"
       ELSE IF m \in S /\ current \in {{}, S} THEN "RSLSuccess"
       ELSE "RSLBootstrapFailed"

Started(m, S) ==
    IF StartBootstrap(m, S) = "RSLSuccess" THEN [bmem EXCEPT ![m].pending = S] ELSE bmem

(* The application calls Bootstrap.                                        *)
CallBootstrap(m, S) ==
    /\ bmem[m].state # "down"
    /\ bleft.calls > 0
    /\ bcall[m].result # "sending"
    /\ bmem' = Started(m, S)
    /\ bcall' = [bcall EXCEPT ![m] =
                   [set |-> S,
                    result |-> IF StartBootstrap(m, S) = "RSLSuccess" THEN "sending" ELSE StartBootstrap(m, S)]]
    /\ bleft' = [bleft EXCEPT !.calls = @ - 1]
    /\ UNCHANGED <<bdisk, bmsgs, bunsaved>>

(* m_replicas is filled by CheckBootstrap.                                 *)
BootstrapReplicas(m) == IF bmem[m].state = "Initializing" THEN bmem[m].conf \ {m} ELSE {}

(* Once a second, while no vote has been accepted.                         *)
SendBootstrap(m) ==
    /\ bmem[m].state # "down"
    /\ bcall[m].result = "sending"
    /\ ~IsBootstrapped(m)
    /\ bmsgs' = bmsgs \cup {[to |-> r, set |-> bcall[m].set] : r \in BootstrapReplicas(m)}
    /\ UNCHANGED <<bmem, bdisk, bcall, bunsaved, bleft>>

BootstrapReturns(m) ==
    /\ bmem[m].state # "down"
    /\ bcall[m].result = "sending"
    /\ \/ IsBootstrapped(m) /\ bcall' = [bcall EXCEPT ![m].result = "RSLSuccess"]
       \/ ~IsBootstrapped(m) /\ bcall' = [bcall EXCEPT ![m].result = "RSLBootstrapFailed"]
    /\ UNCHANGED <<bmem, bdisk, bmsgs, bunsaved, bleft>>

(* The message may arrive again: it stays in bmsgs.                        *)
HandleBootstrapMessage(m, msg) ==
    /\ msg.to = m
    /\ bmem[m].state # "down"
    /\ bmem' = Started(m, msg.set)
    /\ UNCHANGED <<bdisk, bcall, bmsgs, bunsaved, bleft>>

(* A defect: the checkpoint is left for later.                             *)
PersistMemberSetInMemory(m) == bdisk' = bdisk /\ bunsaved' = bunsaved

(* PersistMemberSet: configuration 1, and its checkpoint at decree 0.      *)
(* When CheckpointDone cannot rename the file it only logs an error; the   *)
(* member goes on, and its next start deletes the temporary file.          *)
PersistMemberSet(m) ==
    \/ /\ bdisk' = [bdisk EXCEPT ![m].set = bmem[m].pending]
       /\ bunsaved' = bunsaved
    \/ /\ bdisk' = bdisk
       /\ bunsaved' = bunsaved \cup {m}

(* The main loop of an inactive replica: a pending set is written and      *)
(* forgotten, and a member of the configuration starts.                    *)
CheckBootstrap(m) ==
    /\ bmem[m].state = "PaxosInactive"
    /\ LET persists == ~HasConfigurationCheckpointed(m) /\ bmem[m].pending # {}
           conf == IF persists THEN bmem[m].pending ELSE bmem[m].conf
       IN /\ persists \/ m \in conf
          /\ IF persists THEN PersistMemberSet(m) ELSE UNCHANGED <<bdisk, bunsaved>>
          /\ bmem' = [bmem EXCEPT ![m] =
                        [conf |-> conf, primary |-> @.primary,
                         pending |-> IF persists THEN {} ELSE @.pending,
                         state |-> IF m \in conf THEN "Initializing" ELSE @.state]]
    /\ UNCHANGED <<bcall, bmsgs, bleft>>

-----------------------------------------------------------------------------
(* The first election.  A member takes another's messages only when it     *)
(* takes part and knows the sender (VerifyMessage).                        *)
Hears(m, r) ==
    /\ bmem[m].state = "Initializing"
    /\ r \in bmem[m].conf

(* PrepareAccepted from a quorum of the configuration.                     *)
Elect(m) ==
    /\ bmem[m].state = "Initializing" /\ ~bmem[m].primary
    /\ LET answers == {r \in bmem[m].conf : Hears(r, m) /\ Hears(m, r)}
       IN 2 * Cardinality(answers) > Cardinality(bmem[m].conf)
    /\ bmem' = [bmem EXCEPT ![m].primary = TRUE]
    /\ UNCHANGED <<bdisk, bcall, bmsgs, bunsaved, bleft>>

(* A vote of the primary's is logged.                                      *)
AcceptFirstVote(m, p) ==
    /\ bmem[p].primary
    /\ m \in bmem[p].conf /\ Hears(m, p)
    /\ ~bdisk[m].voted
    /\ bdisk' = [bdisk EXCEPT ![m].voted = TRUE]
    /\ UNCHANGED <<bmem, bcall, bmsgs, bunsaved, bleft>>

-----------------------------------------------------------------------------
CrashMember(m) ==
    /\ bmem[m].state # "down"
    /\ bleft.crashes > 0
    /\ bmem' = [bmem EXCEPT ![m] = [Blank EXCEPT !.state = "down"]]
    /\ bcall' = [bcall EXCEPT ![m].result = "none"]
    /\ bleft' = [bleft EXCEPT !.crashes = @ - 1]
    /\ UNCHANGED <<bdisk, bmsgs, bunsaved>>

(* StartImpl: the configuration is the checkpoint's; votes without one     *)
(* make it return false.                                                   *)
StartMember(m) ==
    /\ bmem[m].state = "down"
    /\ ~(bdisk[m].set = {} /\ bdisk[m].voted)
    /\ bmem' = [bmem EXCEPT ![m] = [Blank EXCEPT !.conf = bdisk[m].set]]
    /\ UNCHANGED <<bdisk, bcall, bmsgs, bunsaved, bleft>>

NextBootstrap ==
    \E m \in BMember :
       \/ \E S \in BSets : m \in BCallers /\ CallBootstrap(m, S)
       \/ SendBootstrap(m) \/ BootstrapReturns(m)
       \/ \E msg \in bmsgs : HandleBootstrapMessage(m, msg)
       \/ CheckBootstrap(m)
       \/ Elect(m) \/ \E p \in BMember : AcceptFirstVote(m, p)
       \/ CrashMember(m) \/ StartMember(m)

SpecBootstrap == InitBootstrap /\ [][NextBootstrap]_bvars

-----------------------------------------------------------------------------
(* The states and values the variables take.                               *)
BootstrapTypeOK ==
    /\ bmem \in [BMember -> [conf : BSets \cup {{}}, pending : BSets \cup {{}},
                             state : {"down", "PaxosInactive", "Initializing"}, primary : BOOLEAN]]
    /\ bdisk \in [BMember -> [set : BSets \cup {{}}, voted : BOOLEAN]]
    /\ bcall \in [BMember -> [set : BSets \cup {{}},
                              result : {"none", "sending", "RSLSuccess", "RSLBootstrapFailed",
                                        "RSLAlreadyBootstrapped"}]]
    /\ bmsgs \subseteq [to : BMember, set : BSets \cup {{}}]
    /\ bunsaved \subseteq BMember

(* All members that have a member set have the same one, although a call   *)
(* that failed or was cut short by a crash may be repeated with another:   *)
(* StartBootstrap compares, and nobody is invited before the caller's own  *)
(* checkpoint is written (CheckBootstrap).                                 *)
BootstrapAgreement ==
    \A m, r \in BMember :
        bdisk[m].set # {} /\ bdisk[r].set # {} => bdisk[m].set = bdisk[r].set

(* A member that accepted a vote can be started again, and when Bootstrap  *)
(* returns RSLSuccess a majority of the set has it on disk (rsl.h,         *)
(* Bootstrap: "a majority of its replicas have replica set information"),  *)
(* counting the members whose checkpoint could not be renamed.             *)
BootstrapDurable ==
    \A m \in BMember :
        /\ bdisk[m].voted => bdisk[m].set # {} \/ m \in bunsaved
        /\ bcall[m].result = "RSLSuccess" =>
              2 * Cardinality({r \in bcall[m].set : r \in bunsaved \/ bdisk[r].set = bcall[m].set})
                  > Cardinality(bcall[m].set)

(* A member set that Bootstrap was answered for is the one set of every    *)
(* member and survives a crash.  Left out: the caller's own checkpoint     *)
(* could not be renamed (CheckpointDone), and so it may forget its set.    *)
Bootstrapped == BCallers \cap bunsaved = {} => BootstrapAgreement /\ BootstrapDurable
=============================================================================
