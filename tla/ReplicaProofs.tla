---------------------------- MODULE ReplicaProofs ----------------------------
(***************************************************************************)
(* Proofs about what a replica's API promises its application.             *)
(*                                                                         *)
(* Bootstrap: who starts from which member set.                            *)
(*                                                                         *)
(* ClientRequests: what becomes of the cookies that ReplicateRequest       *)
(* takes, and what the heartbeat thread finds under m_hbLock.  ClientInv   *)
(* says where an unanswered cookie can be (a queued vote, the outstanding  *)
(* vote, the execution queue), how many callbacks it has had and has still *)
(* to come, and what each thread relies on at each of its waits.  There is *)
(* a lemma per action.                                                     *)
(***************************************************************************)
EXTENDS Bootstrap, ClientRequests, FiniteSetTheorems, TLAPS

\* The provers get more than their default time.
USE SMTT(40), ZenonT(40)

-----------------------------------------------------------------------------
(* The inductive invariant of Bootstrap. *)

\* What a member has in memory is what it has on disk, until it goes down; a
\* member whose checkpoint could not be renamed has nothing on disk.
MemoryIsDisk ==
    \A m \in BMember :
        /\ bmem[m].state = "down" => bmem[m].conf = {} /\ bmem[m].pending = {}
        /\ bmem[m].state # "down" =>
              \/ bmem[m].conf = bdisk[m].set
              \/ m \in bunsaved /\ bdisk[m].set = {}
        /\ bmem[m].state = "Initializing" => m \in bmem[m].conf
        /\ bmem[m].primary => bmem[m].state = "Initializing"

\* The caller invites with the set it has, and has not given a set to anyone
\* before it is on its own disk.
CallerFirst ==
    \A c \in BCallers :
        /\ c \notin bunsaved
        /\ bcall[c].result = "sending" =>
              /\ bmem[c].state # "down" /\ c \in bcall[c].set
              /\ bcall[c].set = IF bmem[c].conf # {} THEN bmem[c].conf
                                ELSE bmem[c].pending
        /\ \A m \in BMember \ {c} :
              /\ bcall[m].result # "sending"
              /\ bdisk[m].set \in {{}, bdisk[c].set}
              /\ bmem[m].conf \in {{}, bdisk[c].set}
              /\ bmem[m].pending \in {{}, bdisk[c].set}
        /\ \A x \in bmsgs : x.to # c /\ x.set = bdisk[c].set /\ x.set # {}

Majority(U, D, S) ==
    2 * Cardinality({r \in S : r \in U \/ D[r].set = S}) > Cardinality(S)

\* A primary was elected by a majority that has its set on disk, the members
\* whose checkpoint could not be renamed included.
MajorityKnows ==
    \A m \in BMember :
        /\ bmem[m].primary => Majority(bunsaved, bdisk, bmem[m].conf)
        /\ bdisk[m].voted =>
              \/ m \in bunsaved
              \/ bdisk[m].set # {} /\ Majority(bunsaved, bdisk, bdisk[m].set)
        /\ bcall[m].result = "RSLSuccess" => Majority(bunsaved, bdisk, bcall[m].set)

BootstrapInv == BootstrapTypeOK /\ MemoryIsDisk /\ CallerFirst /\ MajorityKnows

\* The caller's checkpoint has never failed to be renamed.
CallerSaved == BCallers \cap bunsaved = {}

BootstrapInvariant == BootstrapTypeOK /\ (CallerSaved => BootstrapInv)

-----------------------------------------------------------------------------
(* A member set on disk stays, and so does a majority that has it. *)

\* CheckBootstrap writes a member set only when the member has none.
DisksGrow ==
    /\ \A r \in BMember : bdisk[r].set # {} => bdisk'[r].set = bdisk[r].set
    /\ bunsaved \subseteq bunsaved'

\* A majority that has a set on disk keeps it through every step.
LEMMA MajorityKept ==
    ASSUME NEW S \in BSets \cup {{}}, DisksGrow, Majority(bunsaved, bdisk, S)
    PROVE  Majority(bunsaved', bdisk', S)
<1> DEFINE K == {r \in S : r \in bunsaved \/ bdisk[r].set = S}
           L == {r \in S : r \in bunsaved' \/ bdisk'[r].set = S}
<1>1. S \subseteq BMember /\ IsFiniteSet(S)
  BY Zenon, BootstrapAssumption, FS_Subset
<1>2. K \subseteq L
  <2>1. CASE S = {}
    BY Zenon, <2>1
  <2>2. CASE S # {}
    BY Zenon, <1>1, <2>2 DEF DisksGrow
  <2> QED
    BY Zenon, <2>1, <2>2
<1>3. IsFiniteSet(L)
  BY Zenon, <1>1, FS_Subset
<1>4. Cardinality(K) <= Cardinality(L)
  BY Zenon, <1>2, <1>3, FS_Subset
<1>5. /\ Cardinality(K) \in Nat /\ Cardinality(L) \in Nat
      /\ Cardinality(S) \in Nat
  BY Zenon, <1>1, <1>2, <1>3, FS_Subset, FS_CardinalityType
<1>6. 2 * Cardinality(K) > Cardinality(S)
  BY Zenon DEF Majority
<1>7. 2 * Cardinality(L) > Cardinality(S)
  BY <1>4, <1>5, <1>6
<1> QED
  BY Zenon, <1>7 DEF Majority

\* All members that have a set have the caller's.
LEMMA CallersSet ==
    ASSUME MemoryIsDisk, CallerFirst
    PROVE  \E S : \A m \in BMember :
              bmem[m].conf \in {{}, S} /\ bdisk[m].set \in {{}, S}
<1>1. PICK c \in BMember : BCallers = {c}
  BY Zenon, BootstrapAssumption
<1>2. \A q \in BMember \ {c} : bmem[q].conf \in {{}, bdisk[c].set}
                               /\ bdisk[q].set \in {{}, bdisk[c].set}
  BY Zenon, <1>1 DEF CallerFirst
<1>3. bmem[c].conf \in {{}, bdisk[c].set}
  BY Zenon, <1>1 DEF CallerFirst, MemoryIsDisk
<1>4. \A m \in BMember : bmem[m].conf \in {{}, bdisk[c].set}
                         /\ bdisk[m].set \in {{}, bdisk[c].set}
  BY Zenon, <1>2, <1>3
<1> QED
  BY Zenon, <1>4

-----------------------------------------------------------------------------
(* Initially, and step by step. *)

\* No member has a set before Bootstrap is called.
LEMMA BootstrapInitial ==
    InitBootstrap => BootstrapInvariant
<1> SUFFICES ASSUME InitBootstrap PROVE BootstrapInvariant
  BY Zenon
<1>1. BootstrapTypeOK
  BY Zenon DEF InitBootstrap, BootstrapTypeOK, Blank
<1>2. MemoryIsDisk
  BY Zenon DEF InitBootstrap, MemoryIsDisk, Blank
<1>3. CallerFirst
  BY Zenon, BootstrapAssumption DEF InitBootstrap, CallerFirst, Blank
<1>4. MajorityKnows
  BY Zenon DEF InitBootstrap, MajorityKnows, Blank
<1> QED
  BY Zenon, <1>1, <1>2, <1>3, <1>4 DEF BootstrapInv, BootstrapInvariant

\* What a member has in memory.
BCall == [set : BSets \cup {{}},
          result : {"none", "sending", "RSLSuccess", "RSLBootstrapFailed",
                    "RSLAlreadyBootstrapped"}]
BMem == [conf : BSets \cup {{}}, pending : BSets \cup {{}},
         state : {"down", "PaxosInactive", "Initializing"}, primary : BOOLEAN]

\* What StartBootstrap does to a member's memory, for CallBootstrap and
\* HandleBootstrapMessage: the pending set is the one asked for, if there was
\* no other, and the rest stays.
LEMMA StartedEffect ==
    ASSUME BootstrapTypeOK, NEW m \in BMember, NEW S \in BSets \cup {{}},
           bmem' = Started(m, S)
    PROVE  /\ \A r \in BMember \ {m} : bmem'[r] = bmem[r]
           /\ bmem'[m].conf = bmem[m].conf /\ bmem'[m].state = bmem[m].state
           /\ bmem'[m].primary = bmem[m].primary
           /\ bmem'[m].pending \in {bmem[m].pending, S}
           /\ StartBootstrap(m, S) = "RSLSuccess" =>
                 /\ bmem'[m].pending = S /\ m \in S
                 /\ bmem[m].conf \in {{}, S}
                 /\ bmem[m].conf = {} => bmem[m].pending \in {{}, S}
           /\ bmem' \in [BMember -> BMem]
<1>1. CASE StartBootstrap(m, S) = "RSLSuccess"
  <2>1. bmem' = [bmem EXCEPT ![m].pending = S]
    BY Zenon, <1>1 DEF Started
  <2>2. m \in S /\ bmem[m].conf \in {{}, S}
        /\ (bmem[m].conf = {} => bmem[m].pending \in {{}, S})
    BY Zenon, <1>1 DEF StartBootstrap, HasConfigurationCheckpointed
  <2>3. bmem \in [BMember -> BMem]
    BY Zenon DEF BootstrapTypeOK, BMem
  <2>4. bmem[m] \in BMem /\ \A r \in BMember \ {m} : bmem'[r] = bmem[r]
    BY Zenon, <2>1, <2>3
  <2>5. bmem'[m] = [bmem[m] EXCEPT !.pending = S]
    BY Zenon, <2>1, <2>3
  <2>6. bmem' = [bmem EXCEPT ![m] = bmem'[m]]
    BY Zenon, <2>1, <2>3, <2>5
  <2>7. /\ bmem'[m].conf = bmem[m].conf /\ bmem'[m].state = bmem[m].state
        /\ bmem'[m].primary = bmem[m].primary /\ bmem'[m].pending = S
        /\ bmem'[m] \in BMem
    BY Zenon, <2>4, <2>5 DEF BMem
  <2> QED
    BY Zenon, <2>2, <2>3, <2>4, <2>6, <2>7
<1>2. CASE StartBootstrap(m, S) # "RSLSuccess"
  BY Zenon, <1>2 DEF Started, BootstrapTypeOK, BMem
<1> QED
  BY Zenon, <1>1, <1>2

\* The types hold after every step.
LEMMA BootstrapTyped ==
    ASSUME BootstrapTypeOK, NextBootstrap
    PROVE  BootstrapTypeOK'
<1>0. /\ bmem \in [BMember -> BMem]
      /\ bdisk \in [BMember -> [set : BSets \cup {{}}, voted : BOOLEAN]]
      /\ bcall \in [BMember -> BCall]
      /\ bmsgs \subseteq [to : BMember, set : BSets \cup {{}}]
      /\ bunsaved \subseteq BMember
  BY Zenon DEF BootstrapTypeOK, BMem, BCall
<1>a. ASSUME bmem' \in [BMember -> BMem], bcall' \in [BMember -> BCall],
             bdisk' \in [BMember -> [set : BSets \cup {{}}, voted : BOOLEAN]],
             bmsgs' \subseteq [to : BMember, set : BSets \cup {{}}],
             bunsaved' \subseteq BMember
      PROVE  BootstrapTypeOK'
  BY Zenon, <1>a DEF BootstrapTypeOK, BMem, BCall
<1>1. ASSUME NEW m \in BMember, NEW S \in BSets, CallBootstrap(m, S)
      PROVE  BootstrapTypeOK'
  <2>1. bmem' \in [BMember -> BMem]
    BY Zenon, <1>1, StartedEffect DEF CallBootstrap
  <2>2. StartBootstrap(m, S) \in {"RSLSuccess", "RSLBootstrapFailed",
                                  "RSLAlreadyBootstrapped"}
    BY Zenon DEF StartBootstrap
  <2>3. bcall' \in [BMember -> BCall]
    BY Zenon, <1>0, <1>1, <2>2 DEF CallBootstrap, BCall
  <2> QED
    BY Zenon, <1>0, <1>1, <1>a, <2>1, <2>3 DEF CallBootstrap
<1>2. ASSUME NEW m \in BMember, SendBootstrap(m)
      PROVE  BootstrapTypeOK'
  <2>1. BootstrapReplicas(m) \subseteq BMember
    BY <1>0, BootstrapAssumption DEF BootstrapReplicas, BMem
  <2>2. bcall[m].set \in BSets \cup {{}}
    BY Zenon, <1>0 DEF BCall
  <2>3. bmsgs' \subseteq [to : BMember, set : BSets \cup {{}}]
    BY <1>0, <1>2, <2>1, <2>2 DEF SendBootstrap
  <2> QED
    BY Zenon, <1>0, <1>2, <1>a, <2>3 DEF SendBootstrap
<1>3. ASSUME NEW m \in BMember, BootstrapReturns(m)
      PROVE  BootstrapTypeOK'
  <2>1. bcall' \in [BMember -> BCall]
    <3>1. PICK x \in {"RSLSuccess", "RSLBootstrapFailed"} :
              bcall' = [bcall EXCEPT ![m].result = x]
      BY Zenon, <1>3 DEF BootstrapReturns
    <3>2. bcall[m] \in BCall
      BY Zenon, <1>0
    <3>3. [bcall[m] EXCEPT !.result = x] \in BCall
      BY Zenon, <3>2 DEF BCall
    <3> QED
      BY Zenon, <1>0, <3>1, <3>3
  <2> QED
    BY Zenon, <1>0, <1>3, <1>a, <2>1 DEF BootstrapReturns
<1>4. ASSUME NEW m \in BMember, NEW msg \in bmsgs,
             HandleBootstrapMessage(m, msg)
      PROVE  BootstrapTypeOK'
  <2>1. msg.set \in BSets \cup {{}}
    BY Zenon, <1>0
  <2>2. bmem' \in [BMember -> BMem]
    BY Zenon, <1>4, <2>1, StartedEffect DEF HandleBootstrapMessage
  <2> QED
    BY Zenon, <1>0, <1>4, <1>a, <2>2 DEF HandleBootstrapMessage
<1>5. ASSUME NEW m \in BMember, CheckBootstrap(m)
      PROVE  BootstrapTypeOK'
  <2>1. bmem[m].pending \in BSets \cup {{}} /\ bmem[m].conf \in BSets \cup {{}}
    BY Zenon, <1>0 DEF BMem
  <2>2. bdisk' \in [BMember -> [set : BSets \cup {{}}, voted : BOOLEAN]]
    BY ZenonT(40), <1>0, <1>5, <2>1 DEF CheckBootstrap, PersistMemberSet
  <2>3. bmem' \in [BMember -> BMem]
    BY <1>0, <1>5, <2>1 DEF CheckBootstrap, BMem
  <2>4. bunsaved' \subseteq BMember
    BY Zenon, <1>0, <1>5 DEF CheckBootstrap, PersistMemberSet
  <2> QED
    BY Zenon, <1>0, <1>5, <1>a, <2>2, <2>3, <2>4 DEF CheckBootstrap
<1>6. ASSUME NEW m \in BMember, Elect(m)
      PROVE  BootstrapTypeOK'
  <2>1. bmem' \in [BMember -> BMem]
    <3>1. bmem' = [bmem EXCEPT ![m].primary = TRUE] /\ bmem[m] \in BMem
      BY Zenon, <1>0, <1>6 DEF Elect
    <3>2. [bmem[m] EXCEPT !.primary = TRUE] \in BMem
      BY Zenon, <3>1 DEF BMem
    <3> QED
      BY Zenon, <1>0, <3>1, <3>2
  <2> QED
    BY Zenon, <1>0, <1>6, <1>a, <2>1 DEF Elect
<1>7. ASSUME NEW m \in BMember, NEW p \in BMember, AcceptFirstVote(m, p)
      PROVE  BootstrapTypeOK'
  <2>1. bdisk' \in [BMember -> [set : BSets \cup {{}}, voted : BOOLEAN]]
    BY ZenonT(40), <1>0, <1>7 DEF AcceptFirstVote
  <2> QED
    BY Zenon, <1>0, <1>7, <1>a, <2>1 DEF AcceptFirstVote
<1>8. ASSUME NEW m \in BMember, CrashMember(m)
      PROVE  BootstrapTypeOK'
  <2>1. bmem' \in [BMember -> BMem]
    BY Zenon, <1>0, <1>8 DEF CrashMember, BMem, Blank
  <2>2. bcall' \in [BMember -> BCall]
    BY Zenon, <1>0, <1>8 DEF CrashMember, BCall
  <2> QED
    BY Zenon, <1>0, <1>8, <1>a, <2>1, <2>2 DEF CrashMember
<1>9. ASSUME NEW m \in BMember, StartMember(m)
      PROVE  BootstrapTypeOK'
  <2>1. bmem' \in [BMember -> BMem]
    BY Zenon, <1>0, <1>9 DEF StartMember, BMem, Blank
  <2> QED
    BY Zenon, <1>0, <1>9, <1>a, <2>1 DEF StartMember
<1> QED
  BY Zenon, <1>1, <1>2, <1>3, <1>4, <1>5, <1>6, <1>7, <1>8, <1>9 DEF NextBootstrap

\* CheckBootstrap at one member: what it writes and what it has then.
LEMMA CheckEffect ==
    ASSUME BootstrapTypeOK, MemoryIsDisk, NEW m \in BMember, CheckBootstrap(m)
    PROVE  /\ \A r \in BMember \ {m} : bmem'[r] = bmem[r] /\ bdisk'[r] = bdisk[r]
           /\ bdisk'[m].voted = bdisk[m].voted
           /\ bmem'[m].primary = bmem[m].primary
           /\ bmem'[m].state # "down"
           /\ bmem'[m].state = "Initializing" => m \in bmem'[m].conf
           /\ \/ /\ bdisk[m].set = {} /\ bmem[m].conf = {} /\ bmem[m].pending # {}
                 /\ bmem'[m].conf = bmem[m].pending /\ bmem'[m].pending = {}
                 /\ \/ bdisk'[m].set = bmem[m].pending /\ bunsaved' = bunsaved
                    \/ bdisk'[m].set = {} /\ bunsaved' = bunsaved \cup {m}
              \/ /\ bmem[m].conf # {} /\ bmem'[m].conf = bmem[m].conf
                 /\ bmem'[m].pending = bmem[m].pending
                 /\ bdisk'[m].set = bdisk[m].set /\ bunsaved' = bunsaved
<1>1. /\ bmem \in [BMember -> BMem]
      /\ bdisk \in [BMember -> [set : BSets \cup {{}}, voted : BOOLEAN]]
  BY Zenon DEF BootstrapTypeOK, BMem
<1>2. /\ bmem[m].state = "PaxosInactive"
      /\ bmem[m].conf = {} => bdisk[m].set = {}
  BY Zenon DEF CheckBootstrap, MemoryIsDisk
<1>3. CASE ~HasConfigurationCheckpointed(m) /\ bmem[m].pending # {}
  <2>1. \/ /\ bdisk' = [bdisk EXCEPT ![m].set = bmem[m].pending]
           /\ bunsaved' = bunsaved
        \/ bdisk' = bdisk /\ bunsaved' = bunsaved \cup {m}
    BY Zenon, <1>3 DEF CheckBootstrap, PersistMemberSet
  <2>0. bdisk[m].set = {}
    BY Zenon, <1>2, <1>3 DEF HasConfigurationCheckpointed
  <2>2. bmem' = [bmem EXCEPT ![m] =
                   [conf |-> bmem[m].pending, primary |-> bmem[m].primary,
                    pending |-> {},
                    state |-> IF m \in bmem[m].pending
                              THEN "Initializing" ELSE bmem[m].state]]
    BY Zenon, <1>3 DEF CheckBootstrap
  <2>3. \A r \in BMember \ {m} : bmem'[r] = bmem[r] /\ bdisk'[r] = bdisk[r]
    BY Zenon, <1>1, <2>1, <2>2
  <2>4. /\ bdisk'[m].voted = bdisk[m].voted
        /\ \/ bdisk'[m].set = bmem[m].pending /\ bunsaved' = bunsaved
           \/ bdisk'[m].set = {} /\ bunsaved' = bunsaved \cup {m}
    BY Zenon, <1>1, <2>0, <2>1
  <2>5. /\ bmem'[m].conf = bmem[m].pending /\ bmem'[m].pending = {}
        /\ bmem'[m].primary = bmem[m].primary
        /\ bmem'[m].state = IF m \in bmem[m].pending
                            THEN "Initializing" ELSE bmem[m].state
    BY Zenon, <1>1, <2>2 DEF BMem
  <2> QED
    BY Zenon, <1>2, <1>3, <2>0, <2>3, <2>4, <2>5 DEF HasConfigurationCheckpointed
<1>4. CASE ~(~HasConfigurationCheckpointed(m) /\ bmem[m].pending # {})
  <2>1. bdisk' = bdisk /\ bunsaved' = bunsaved /\ m \in bmem[m].conf
    BY Zenon, <1>4 DEF CheckBootstrap
  <2>2. bmem' = [bmem EXCEPT ![m] =
                   [conf |-> bmem[m].conf, primary |-> bmem[m].primary,
                    pending |-> bmem[m].pending, state |-> "Initializing"]]
    BY Zenon, <1>4, <2>1 DEF CheckBootstrap
  <2>3. \A r \in BMember \ {m} : bmem'[r] = bmem[r]
    BY Zenon, <1>1, <2>2
  <2>4. /\ bmem'[m].conf = bmem[m].conf /\ bmem'[m].pending = bmem[m].pending
        /\ bmem'[m].primary = bmem[m].primary
        /\ bmem'[m].state = "Initializing"
    BY Zenon, <1>1, <2>2 DEF BMem
  <2> QED
    BY Zenon, <1>2, <1>4, <2>1, <2>3, <2>4 DEF HasConfigurationCheckpointed
<1> QED
  BY Zenon, <1>3, <1>4

\* What stays of the majorities in a step that elects nobody, accepts no vote
\* and returns no RSLSuccess.
LEMMA MajorityStays ==
    ASSUME BootstrapInv, DisksGrow,
           \A r \in BMember :
               /\ bmem'[r].primary => bmem[r].primary /\ bmem'[r].conf = bmem[r].conf
               /\ bdisk'[r].voted => bdisk[r].voted
               /\ bcall'[r].result = "RSLSuccess" =>
                      bcall[r].result = "RSLSuccess" /\ bcall'[r].set = bcall[r].set
    PROVE  MajorityKnows'
<1> SUFFICES ASSUME NEW r \in BMember
             PROVE  /\ bmem'[r].primary => Majority(bunsaved', bdisk', bmem'[r].conf)
                    /\ bdisk'[r].voted =>
                          \/ r \in bunsaved'
                          \/ /\ bdisk'[r].set # {}
                             /\ Majority(bunsaved', bdisk', bdisk'[r].set)
                    /\ bcall'[r].result = "RSLSuccess" =>
                           Majority(bunsaved', bdisk', bcall'[r].set)
  BY Zenon DEF MajorityKnows
<1>0. /\ bmem[r].conf \in BSets \cup {{}} /\ bdisk[r].set \in BSets \cup {{}}
      /\ bcall[r].set \in BSets \cup {{}}
  BY Zenon DEF BootstrapInv, BootstrapTypeOK
<1>1. ASSUME bmem'[r].primary PROVE Majority(bunsaved', bdisk', bmem'[r].conf)
  <2>1. bmem'[r].conf = bmem[r].conf /\ Majority(bunsaved, bdisk, bmem[r].conf)
    BY Zenon, <1>1 DEF BootstrapInv, MajorityKnows
  <2> QED
    BY Zenon, <1>0, <2>1, MajorityKept
<1>2. ASSUME bdisk'[r].voted
      PROVE  \/ r \in bunsaved'
             \/ bdisk'[r].set # {} /\ Majority(bunsaved', bdisk', bdisk'[r].set)
  <2>1. CASE r \in bunsaved
    BY Zenon, <2>1 DEF DisksGrow
  <2>2. CASE r \notin bunsaved
    <3>1. bdisk[r].set # {} /\ Majority(bunsaved, bdisk, bdisk[r].set)
      BY Zenon, <1>2, <2>2 DEF BootstrapInv, MajorityKnows
    <3>2. bdisk'[r].set = bdisk[r].set
      BY Zenon, <3>1 DEF DisksGrow
    <3> QED
      BY Zenon, <1>0, <3>1, <3>2, MajorityKept
  <2> QED
    BY Zenon, <2>1, <2>2
<1>3. ASSUME bcall'[r].result = "RSLSuccess"
      PROVE  Majority(bunsaved', bdisk', bcall'[r].set)
  <2>1. bcall'[r].set = bcall[r].set /\ Majority(bunsaved, bdisk, bcall[r].set)
    BY Zenon, <1>3 DEF BootstrapInv, MajorityKnows
  <2> QED
    BY Zenon, <1>0, <2>1, MajorityKept
<1> QED
  BY Zenon, <1>1, <1>2, <1>3

\* The invariant after a step of member m that leaves the other members alone
\* and the disks as they were, when m's own share of the invariant holds.
OthersStay(m) ==
    \A r \in BMember \ {m} : bmem'[r] = bmem[r] /\ bcall'[r] = bcall[r]

OwnMemory(m) ==
    /\ bmem'[m].state = "down" => bmem'[m].conf = {} /\ bmem'[m].pending = {}
    /\ bmem'[m].state # "down" =>
          \/ bmem'[m].conf = bdisk'[m].set
          \/ m \in bunsaved' /\ bdisk'[m].set = {}
    /\ bmem'[m].state = "Initializing" => m \in bmem'[m].conf
    /\ bmem'[m].primary => bmem'[m].state = "Initializing"

OwnCall(m) ==
    /\ m \notin BCallers =>
          /\ bcall'[m].result # "sending"
          /\ \A c \in BCallers : /\ bmem'[m].conf \in {{}, bdisk[c].set}
                                /\ bmem'[m].pending \in {{}, bdisk[c].set}
    /\ m \in BCallers /\ bcall'[m].result = "sending" =>
          /\ bmem'[m].state # "down" /\ m \in bcall'[m].set
          /\ bcall'[m].set = IF bmem'[m].conf # {} THEN bmem'[m].conf
                             ELSE bmem'[m].pending

\* What one member does to its memory and its call concerns its own part of the
\* invariant only.
LEMMA OwnStep ==
    ASSUME MemoryIsDisk, CallerFirst, NEW m \in BMember, OthersStay(m),
           \A r \in BMember : bdisk'[r].set = bdisk[r].set,
           bunsaved' = bunsaved, bmsgs' = bmsgs, OwnMemory(m), OwnCall(m)
    PROVE  MemoryIsDisk' /\ CallerFirst' /\ DisksGrow
<1>1. MemoryIsDisk'
  <2> SUFFICES ASSUME NEW r \in BMember
               PROVE  /\ bmem'[r].state = "down" =>
                            bmem'[r].conf = {} /\ bmem'[r].pending = {}
                      /\ bmem'[r].state # "down" =>
                            \/ bmem'[r].conf = bdisk'[r].set
                            \/ r \in bunsaved' /\ bdisk'[r].set = {}
                      /\ bmem'[r].state = "Initializing" => r \in bmem'[r].conf
                      /\ bmem'[r].primary => bmem'[r].state = "Initializing"
    BY Zenon DEF MemoryIsDisk
  <2>1. CASE r = m
    BY Zenon, <2>1 DEF OwnMemory
  <2>2. CASE r # m
    BY ZenonT(40), <2>2 DEF OthersStay, MemoryIsDisk
  <2> QED
    BY Zenon, <2>1, <2>2
<1>2. CallerFirst'
  <2>1. PICK c \in BMember : BCallers = {c}
    BY Zenon, BootstrapAssumption
  <2>2. bcall'[c].result = "sending" =>
           /\ bmem'[c].state # "down" /\ c \in bcall'[c].set
           /\ bcall'[c].set = IF bmem'[c].conf # {} THEN bmem'[c].conf
                              ELSE bmem'[c].pending
    <3>1. CASE c = m
      BY Zenon, <2>1, <3>1 DEF OwnCall
    <3>2. CASE c # m
      BY <2>1, <3>2 DEF OthersStay, CallerFirst
    <3> QED
      BY Zenon, <3>1, <3>2
  <2>3. ASSUME NEW r \in BMember \ {c}
        PROVE  /\ bcall'[r].result # "sending"
               /\ bdisk'[r].set \in {{}, bdisk'[c].set}
               /\ bmem'[r].conf \in {{}, bdisk'[c].set}
               /\ bmem'[r].pending \in {{}, bdisk'[c].set}
    <3>1. CASE r = m
      BY Zenon, <2>1, <2>3, <3>1 DEF OwnCall, CallerFirst
    <3>2. CASE r # m
      BY <2>1, <2>3, <3>2 DEF OthersStay, CallerFirst
    <3> QED
      BY Zenon, <3>1, <3>2
  <2>4. \A x \in bmsgs' : x.to # c /\ x.set = bdisk'[c].set /\ x.set # {}
    BY <2>1 DEF CallerFirst
  <2>5. c \notin bunsaved'
    BY Zenon, <2>1 DEF CallerFirst
  <2> QED
    BY <2>1, <2>2, <2>3, <2>4, <2>5 DEF CallerFirst
<1>3. DisksGrow
  BY Zenon DEF DisksGrow
<1> QED
  BY Zenon, <1>1, <1>2, <1>3

\* CallBootstrap: a call that is refused sends nothing, one that is not has the
\* pending set.
LEMMA CallKeeps ==
    ASSUME BootstrapInv, NEW m \in BCallers, NEW S \in BSets, CallBootstrap(m, S)
    PROVE  MemoryIsDisk' /\ CallerFirst' /\ MajorityKnows'
<1>0. m \in BMember /\ BCallers = {m}
  BY Zenon, BootstrapAssumption
<1>1. /\ OthersStay(m)
      /\ bmem'[m].conf = bmem[m].conf /\ bmem'[m].state = bmem[m].state
      /\ bmem'[m].primary = bmem[m].primary
      /\ StartBootstrap(m, S) = "RSLSuccess" =>
            /\ bmem'[m].pending = S /\ m \in S /\ bmem[m].conf \in {{}, S}
  BY <1>0, StartedEffect
     DEF CallBootstrap, OthersStay, BootstrapInv, BootstrapTypeOK
<1>2. /\ bcall'[m].set = S
      /\ bcall'[m].result = IF StartBootstrap(m, S) = "RSLSuccess" THEN "sending"
                            ELSE StartBootstrap(m, S)
  BY Zenon, <1>0 DEF CallBootstrap, BootstrapInv, BootstrapTypeOK
<1>3. /\ bmem[m].state # "down" /\ bdisk' = bdisk /\ bmsgs' = bmsgs
      /\ bunsaved' = bunsaved
  BY Zenon DEF CallBootstrap
<1>4. StartBootstrap(m, S) \in {"RSLSuccess", "RSLBootstrapFailed",
                                "RSLAlreadyBootstrapped"}
  BY Zenon DEF StartBootstrap
<1>5. OwnMemory(m)
  BY Zenon, <1>0, <1>1, <1>3 DEF OwnMemory, BootstrapInv, MemoryIsDisk
<1>6. OwnCall(m)
  BY Zenon, <1>0, <1>1, <1>2, <1>3, <1>4 DEF OwnCall
<1>7. MemoryIsDisk' /\ CallerFirst' /\ DisksGrow
  BY Zenon, <1>0, <1>1, <1>3, <1>5, <1>6, OwnStep DEF BootstrapInv
<1>8. MajorityKnows'
  BY Zenon, <1>0, <1>1, <1>2, <1>3, <1>4, <1>7, MajorityStays DEF OthersStay
<1> QED
  BY Zenon, <1>7, <1>8

\* SendBootstrap: the caller has its set on disk when it has replicas to send to.
LEMMA SendKeeps ==
    ASSUME BootstrapInv, NEW m \in BMember, SendBootstrap(m)
    PROVE  MemoryIsDisk' /\ CallerFirst' /\ MajorityKnows'
<1>1. PICK c \in BMember : BCallers = {c}
  BY Zenon, BootstrapAssumption
<1>2. m = c
  BY Zenon, <1>1 DEF SendBootstrap, BootstrapInv, CallerFirst
<1>3. bmem' = bmem /\ bdisk' = bdisk /\ bcall' = bcall /\ bunsaved' = bunsaved
  BY Zenon DEF SendBootstrap
<1>4. ASSUME NEW x \in bmsgs'
      PROVE  x.to # c /\ x.set = bdisk[c].set /\ x.set # {}
  <2>1. CASE x \in bmsgs
    BY Zenon, <1>1, <2>1 DEF BootstrapInv, CallerFirst
  <2>2. CASE x \notin bmsgs
    <3>1. PICK r \in BootstrapReplicas(m) : x = [to |-> r, set |-> bcall[m].set]
      BY Zenon, <1>4, <2>2 DEF SendBootstrap
    <3>2. bmem[m].state = "Initializing" /\ r \in bmem[m].conf \ {m}
      BY Zenon, <3>1 DEF BootstrapReplicas
    <3>3. bcall[m].set = bmem[m].conf
      BY Zenon, <1>1, <1>2, <3>2 DEF SendBootstrap, BootstrapInv, CallerFirst
    <3>4. bmem[m].conf = bdisk[m].set
      BY Zenon, <1>1, <1>2, <3>2 DEF BootstrapInv, MemoryIsDisk, CallerFirst
    <3> QED
      BY Zenon, <1>2, <3>1, <3>2, <3>3, <3>4
  <2> QED
    BY Zenon, <2>1, <2>2
<1>5. CallerFirst'
  BY <1>1, <1>3, <1>4 DEF BootstrapInv, CallerFirst
<1>6. MemoryIsDisk'
  BY Zenon, <1>3 DEF BootstrapInv, MemoryIsDisk
<1>7. MajorityKnows'
  BY Zenon, <1>3 DEF BootstrapInv, MajorityKnows
<1> QED
  BY Zenon, <1>5, <1>6, <1>7

\* BootstrapReturns: a caller that sees a vote in its log has the majority that
\* elected its primary.
LEMMA ReturnKeeps ==
    ASSUME BootstrapInv, NEW m \in BMember, BootstrapReturns(m)
    PROVE  MemoryIsDisk' /\ CallerFirst' /\ MajorityKnows'
<1>1. PICK c \in BMember : BCallers = {c}
  BY Zenon, BootstrapAssumption
<1>2. m = c /\ bcall[m].result = "sending"
  BY Zenon, <1>1 DEF BootstrapReturns, BootstrapInv, CallerFirst
<1>3. bmem' = bmem /\ bdisk' = bdisk /\ bmsgs' = bmsgs /\ bunsaved' = bunsaved
  BY Zenon DEF BootstrapReturns
<1>4. /\ \A r \in BMember \ {m} : bcall'[r] = bcall[r]
      /\ bcall'[m].set = bcall[m].set
      /\ bcall'[m].result \in {"RSLSuccess", "RSLBootstrapFailed"}
      /\ bcall'[m].result = "RSLSuccess" => bdisk[m].voted
  BY DEF BootstrapReturns, BootstrapInv, BootstrapTypeOK, IsBootstrapped
<1>5. OthersStay(m) /\ OwnMemory(m) /\ OwnCall(m)
  BY Zenon, <1>1, <1>2, <1>3, <1>4
     DEF OthersStay, OwnMemory, OwnCall, BootstrapInv, MemoryIsDisk
<1>6. MemoryIsDisk' /\ CallerFirst'
  BY Zenon, <1>3, <1>5, OwnStep DEF BootstrapInv
<1>7. bdisk[m].voted => Majority(bunsaved, bdisk, bcall[m].set)
  <2>1. bmem[m].state # "down" /\ bmem[m].conf = bdisk[m].set
    BY Zenon, <1>1, <1>2
       DEF BootstrapReturns, BootstrapInv, MemoryIsDisk, CallerFirst
  <2>2. bdisk[m].voted =>
            bdisk[m].set # {} /\ Majority(bunsaved, bdisk, bdisk[m].set)
    BY Zenon, <1>1, <1>2 DEF BootstrapInv, MajorityKnows, CallerFirst
  <2>3. bmem[m].conf # {} => bcall[m].set = bmem[m].conf
    BY Zenon, <1>1, <1>2 DEF BootstrapInv, CallerFirst
  <2> QED
    BY Zenon, <2>1, <2>2, <2>3
<1>8. MajorityKnows'
  <2>1. \A r \in BMember : bcall'[r].result = "RSLSuccess" =>
                               Majority(bunsaved, bdisk, bcall'[r].set)
    <3> SUFFICES ASSUME NEW r \in BMember, bcall'[r].result = "RSLSuccess"
                 PROVE  Majority(bunsaved, bdisk, bcall'[r].set)
      BY Zenon
    <3>1. CASE r = m
      BY Zenon, <1>4, <1>7, <3>1
    <3>2. CASE r # m
      BY Zenon, <1>4, <3>2 DEF BootstrapInv, MajorityKnows
    <3> QED
      BY Zenon, <3>1, <3>2
  <2> QED
    BY Zenon, <1>3, <2>1 DEF BootstrapInv, MajorityKnows
<1> QED
  BY Zenon, <1>6, <1>8

\* HandleBootstrapMessage: only others than the caller are invited, with the
\* caller's set.
LEMMA HandleKeeps ==
    ASSUME BootstrapInv, NEW m \in BMember, NEW msg \in bmsgs,
           HandleBootstrapMessage(m, msg)
    PROVE  MemoryIsDisk' /\ CallerFirst' /\ MajorityKnows'
<1>1. PICK c \in BMember : BCallers = {c}
  BY Zenon, BootstrapAssumption
<1>2. m # c /\ msg.set = bdisk[c].set /\ msg.set \in BSets \cup {{}}
  BY ZenonT(40), <1>1 DEF HandleBootstrapMessage, BootstrapInv, CallerFirst,
     BootstrapTypeOK
<1>3. /\ bdisk' = bdisk /\ bmsgs' = bmsgs /\ bcall' = bcall
      /\ bunsaved' = bunsaved /\ bmem[m].state # "down"
  BY Zenon DEF HandleBootstrapMessage
<1>4. /\ OthersStay(m)
      /\ bmem'[m].conf = bmem[m].conf /\ bmem'[m].state = bmem[m].state
      /\ bmem'[m].primary = bmem[m].primary
      /\ bmem'[m].pending \in {bmem[m].pending, msg.set}
  BY <1>2, <1>3, StartedEffect DEF HandleBootstrapMessage, OthersStay, BootstrapInv
<1>5. OwnMemory(m)
  BY Zenon, <1>3, <1>4 DEF OwnMemory, BootstrapInv, MemoryIsDisk
<1>6. OwnCall(m)
  <2>1. /\ bcall[m].result # "sending" /\ bmem[m].pending \in {{}, bdisk[c].set}
        /\ bmem[m].conf \in {{}, bdisk[c].set}
    BY Zenon, <1>1, <1>2 DEF BootstrapInv, CallerFirst
  <2> QED
    BY Zenon, <1>1, <1>2, <1>3, <1>4, <2>1 DEF OwnCall
<1>7. MemoryIsDisk' /\ CallerFirst' /\ DisksGrow
  BY Zenon, <1>3, <1>4, <1>5, <1>6, OwnStep DEF BootstrapInv
<1>8. MajorityKnows'
  BY Zenon, <1>3, <1>4, <1>7, MajorityStays DEF OthersStay
<1> QED
  BY Zenon, <1>7, <1>8

\* CheckBootstrap: the first to have a set on disk is the caller.
LEMMA CheckKeeps ==
    ASSUME BootstrapInv, NEW m \in BMember, CheckBootstrap(m), CallerSaved'
    PROVE  MemoryIsDisk' /\ CallerFirst' /\ MajorityKnows'
<1>1. PICK c \in BMember : BCallers = {c}
  BY Zenon, BootstrapAssumption
<1>2. bcall' = bcall /\ bmsgs' = bmsgs /\ bmem[m].state = "PaxosInactive"
  BY Zenon DEF CheckBootstrap
<1>3. /\ \A r \in BMember \ {m} : bmem'[r] = bmem[r] /\ bdisk'[r] = bdisk[r]
      /\ bdisk'[m].voted = bdisk[m].voted /\ bmem'[m].primary = bmem[m].primary
      /\ bmem'[m].state # "down"
      /\ bmem'[m].state = "Initializing" => m \in bmem'[m].conf
      /\ \/ /\ bdisk[m].set = {} /\ bmem[m].conf = {} /\ bmem[m].pending # {}
            /\ bmem'[m].conf = bmem[m].pending /\ bmem'[m].pending = {}
            /\ \/ bdisk'[m].set = bmem[m].pending /\ bunsaved' = bunsaved
               \/ bdisk'[m].set = {} /\ bunsaved' = bunsaved \cup {m}
         \/ /\ bmem[m].conf # {} /\ bmem'[m].conf = bmem[m].conf
            /\ bmem'[m].pending = bmem[m].pending
            /\ bdisk'[m].set = bdisk[m].set /\ bunsaved' = bunsaved
  BY Zenon, CheckEffect DEF BootstrapInv
<1>4. /\ ~bmem[m].primary
      /\ bmem[m].conf = bdisk[m].set \/ (m \in bunsaved /\ bdisk[m].set = {})
      /\ c \notin bunsaved'
  BY Zenon, <1>1, <1>2 DEF BootstrapInv, MemoryIsDisk, CallerSaved
<1>5. DisksGrow
  BY Zenon, <1>3 DEF DisksGrow
<1>6. MemoryIsDisk'
  <2>1. /\ bmem'[m].state # "down"
        /\ \/ bmem'[m].conf = bdisk'[m].set
           \/ m \in bunsaved' /\ bdisk'[m].set = {}
        /\ bmem'[m].state = "Initializing" => m \in bmem'[m].conf
        /\ ~bmem'[m].primary
    BY Zenon, <1>3, <1>4
  <2>2. ASSUME NEW r \in BMember, r # m
        PROVE  bmem'[r] = bmem[r] /\ bdisk'[r] = bdisk[r]
    BY Zenon, <1>3, <2>2
  <2>3. ASSUME NEW r \in BMember
        PROVE  /\ bmem'[r].state = "down" =>
                     bmem'[r].conf = {} /\ bmem'[r].pending = {}
               /\ bmem'[r].state # "down" =>
                     \/ bmem'[r].conf = bdisk'[r].set
                     \/ r \in bunsaved' /\ bdisk'[r].set = {}
               /\ bmem'[r].state = "Initializing" => r \in bmem'[r].conf
               /\ bmem'[r].primary => bmem'[r].state = "Initializing"
    <3>1. CASE r = m
      BY Zenon, <2>1, <3>1
    <3>2. CASE r # m
      BY ZenonT(40), <1>5, <2>2, <3>2 DEF BootstrapInv, MemoryIsDisk, DisksGrow
    <3> QED
      BY Zenon, <3>1, <3>2
  <2> QED
    BY Zenon, <2>3 DEF MemoryIsDisk
<1>7. bcall[c].result = "sending" =>
         /\ bmem'[c].state # "down" /\ c \in bcall[c].set
         /\ bcall[c].set = IF bmem'[c].conf # {} THEN bmem'[c].conf
                           ELSE bmem'[c].pending
  <2>1. bcall[c].result = "sending" =>
           /\ bmem[c].state # "down" /\ c \in bcall[c].set
           /\ bcall[c].set = IF bmem[c].conf # {} THEN bmem[c].conf
                             ELSE bmem[c].pending
    BY Zenon, <1>1 DEF BootstrapInv, CallerFirst
  <2>2. CASE m = c
    BY ZenonT(40), <1>3, <1>4, <2>1, <2>2
  <2>3. CASE m # c
    BY Zenon, <1>3, <2>1, <2>3
  <2> QED
    BY Zenon, <2>2, <2>3
<1>8. ASSUME NEW r \in BMember \ {c}
      PROVE  /\ bcall[r].result # "sending"
             /\ bdisk'[r].set \in {{}, bdisk'[c].set}
             /\ bmem'[r].conf \in {{}, bdisk'[c].set}
             /\ bmem'[r].pending \in {{}, bdisk'[c].set}
  <2>1. /\ bcall[r].result # "sending"
        /\ bdisk[r].set \in {{}, bdisk[c].set}
        /\ bmem[r].conf \in {{}, bdisk[c].set}
        /\ bmem[r].pending \in {{}, bdisk[c].set}
    BY Zenon, <1>1 DEF BootstrapInv, CallerFirst
  <2>2. CASE m = c
    <3>1. /\ bmem'[r] = bmem[r] /\ bdisk'[r] = bdisk[r]
          /\ bdisk[c].set # {} => bdisk'[c].set = bdisk[c].set
      BY Zenon, <1>3, <1>5, <2>2 DEF DisksGrow
    <3> QED
      BY Zenon, <2>1, <3>1
  <2>3. CASE m # c
    <3>1. CASE r = m
      BY Zenon, <1>3, <2>1, <2>3, <3>1
    <3>2. CASE r # m
      BY Zenon, <1>3, <2>1, <2>3, <3>2
    <3> QED
      BY Zenon, <3>1, <3>2
  <2> QED
    BY Zenon, <2>2, <2>3
<1>9. \A x \in bmsgs : x.to # c /\ x.set = bdisk'[c].set /\ x.set # {}
  <2> SUFFICES ASSUME NEW x \in bmsgs
               PROVE  x.to # c /\ x.set = bdisk'[c].set /\ x.set # {}
    BY Zenon
  <2>1. x.to # c /\ x.set = bdisk[c].set /\ x.set # {}
    BY Zenon, <1>1 DEF BootstrapInv, CallerFirst
  <2> QED
    BY Zenon, <2>1, <1>5 DEF DisksGrow
<1>10. CallerFirst'
  BY Zenon, <1>1, <1>2, <1>4, <1>7, <1>8, <1>9 DEF CallerFirst
<1>11. MajorityKnows'
  BY Zenon, <1>2, <1>3, <1>4, <1>5, MajorityStays
<1> QED
  BY Zenon, <1>6, <1>10, <1>11

\* Elect: the members that answer have the candidate's set, on disk unless
\* their checkpoint could not be renamed.
LEMMA ElectKeeps ==
    ASSUME BootstrapInv, NEW m \in BMember, Elect(m)
    PROVE  MemoryIsDisk' /\ CallerFirst' /\ MajorityKnows'
<1> DEFINE S == bmem[m].conf
           electors == {r \in S : Hears(r, m) /\ Hears(m, r)}
           K == {r \in S : r \in bunsaved \/ bdisk[r].set = S}
<1>0. S \in BSets \cup {{}} /\ S \subseteq BMember /\ IsFiniteSet(S)
  BY BootstrapAssumption, FS_Subset DEF BootstrapInv, BootstrapTypeOK
<1>1. bdisk' = bdisk /\ bmsgs' = bmsgs /\ bcall' = bcall /\ bunsaved' = bunsaved
  BY Zenon DEF Elect
<1>2. /\ OthersStay(m)
      /\ bmem'[m].conf = S /\ bmem'[m].state = bmem[m].state
      /\ bmem'[m].pending = bmem[m].pending
  BY DEF Elect, OthersStay, BootstrapInv, BootstrapTypeOK
<1>3. /\ bmem[m].state = "Initializing" /\ m \in S
      /\ S = bdisk[m].set \/ (m \in bunsaved /\ bdisk[m].set = {})
  BY Zenon DEF Elect, BootstrapInv, MemoryIsDisk
<1>4. OwnMemory(m) /\ OwnCall(m)
  <2>1. OwnMemory(m)
    BY Zenon, <1>1, <1>2, <1>3 DEF OwnMemory
  <2>2. m \notin BCallers =>
           /\ bcall[m].result # "sending"
           /\ \A c \in BCallers : /\ bmem[m].conf \in {{}, bdisk[c].set}
                                 /\ bmem[m].pending \in {{}, bdisk[c].set}
    BY ZenonT(40), BootstrapAssumption DEF BootstrapInv, CallerFirst
  <2>3. m \in BCallers /\ bcall[m].result = "sending" =>
           m \in bcall[m].set /\ bcall[m].set = S
    BY Zenon, <1>3 DEF BootstrapInv, CallerFirst
  <2> QED
    BY Zenon, <1>1, <1>2, <1>3, <2>1, <2>2, <2>3 DEF OwnCall
<1>5. MemoryIsDisk' /\ CallerFirst'
  BY Zenon, <1>1, <1>2, <1>4, OwnStep DEF BootstrapInv
<1>6. electors \subseteq K
  <2> SUFFICES ASSUME NEW r \in S, Hears(r, m), r \notin bunsaved
               PROVE  bdisk[r].set = S
    BY Zenon
  <2>1. r \in BMember /\ bmem[r].conf # {} /\ bmem[r].conf = bdisk[r].set
    BY Zenon, <1>0 DEF Hears, BootstrapInv, MemoryIsDisk
  <2> QED
    BY Zenon, <1>3, <2>1, CallersSet DEF BootstrapInv
<1>7. Majority(bunsaved, bdisk, S)
  <2>1. 2 * Cardinality(electors) > Cardinality(S)
    BY Zenon DEF Elect
  <2>2. IsFiniteSet(K) /\ IsFiniteSet(electors)
    BY Zenon, <1>0, FS_Subset
  <2>3. Cardinality(electors) <= Cardinality(K)
    BY Zenon, <1>6, <2>2, FS_Subset
  <2>4. /\ Cardinality(electors) \in Nat /\ Cardinality(K) \in Nat
        /\ Cardinality(S) \in Nat
    BY Zenon, <1>0, <2>2, FS_CardinalityType
  <2>5. 2 * Cardinality(K) > Cardinality(S)
    BY <2>1, <2>3, <2>4
  <2> QED
    BY Zenon, <2>5 DEF Majority
<1>8. \A r \in BMember : bmem'[r].primary => Majority(bunsaved, bdisk, bmem'[r].conf)
  <2> SUFFICES ASSUME NEW r \in BMember, bmem'[r].primary
               PROVE  Majority(bunsaved, bdisk, bmem'[r].conf)
    BY Zenon
  <2>1. CASE r = m
    BY Zenon, <1>2, <1>7, <2>1
  <2>2. CASE r # m
    BY Zenon, <1>2, <2>2 DEF OthersStay, BootstrapInv, MajorityKnows
  <2> QED
    BY Zenon, <2>1, <2>2
<1>9. MajorityKnows'
  BY Zenon, <1>1, <1>8 DEF BootstrapInv, MajorityKnows
<1> QED
  BY Zenon, <1>5, <1>9

\* AcceptFirstVote: the primary's set is the member's own.
LEMMA VoteKeeps ==
    ASSUME BootstrapInv, NEW m \in BMember, NEW p \in BMember,
           AcceptFirstVote(m, p)
    PROVE  MemoryIsDisk' /\ CallerFirst' /\ MajorityKnows'
<1>1. bmem' = bmem /\ bmsgs' = bmsgs /\ bcall' = bcall /\ bunsaved' = bunsaved
  BY Zenon DEF AcceptFirstVote
<1>2. /\ \A r \in BMember : bdisk'[r].set = bdisk[r].set
      /\ \A r \in BMember \ {m} : bdisk'[r].voted = bdisk[r].voted
  BY ZenonT(40) DEF AcceptFirstVote, BootstrapInv, BootstrapTypeOK
<1>3. MemoryIsDisk'
  BY Zenon, <1>1, <1>2 DEF BootstrapInv, MemoryIsDisk
<1>4. CallerFirst'
  <2>1. PICK c \in BMember : BCallers = {c}
    BY Zenon, BootstrapAssumption
  <2> QED
    BY <1>1, <1>2, <2>1 DEF BootstrapInv, CallerFirst
<1>5. DisksGrow
  BY Zenon, <1>1, <1>2 DEF DisksGrow
<1>6. \/ m \in bunsaved
      \/ bdisk[m].set # {} /\ Majority(bunsaved, bdisk, bdisk[m].set)
  <2>1. bmem[m].state = "Initializing" /\ bmem[m].conf # {}
    BY Zenon DEF AcceptFirstVote, Hears
  <2>2. m \in bunsaved \/ bmem[m].conf = bdisk[m].set
    BY Zenon, <2>1 DEF BootstrapInv, MemoryIsDisk
  <2>3. bmem[p].conf # {} /\ Majority(bunsaved, bdisk, bmem[p].conf)
    BY Zenon DEF AcceptFirstVote, BootstrapInv, MajorityKnows
  <2>4. bmem[m].conf = bmem[p].conf
    BY Zenon, <2>1, <2>3, CallersSet DEF BootstrapInv
  <2> QED
    BY Zenon, <2>1, <2>2, <2>3, <2>4
<1>7. MajorityKnows'
  <2> SUFFICES ASSUME NEW r \in BMember
               PROVE  /\ bmem[r].primary => Majority(bunsaved', bdisk', bmem[r].conf)
                      /\ bdisk'[r].voted =>
                            \/ r \in bunsaved
                            \/ /\ bdisk[r].set # {}
                               /\ Majority(bunsaved', bdisk', bdisk[r].set)
                      /\ bcall[r].result = "RSLSuccess" =>
                             Majority(bunsaved', bdisk', bcall[r].set)
    BY Zenon, <1>1, <1>2 DEF MajorityKnows
  <2>0. /\ bmem[r].conf \in BSets \cup {{}} /\ bdisk[r].set \in BSets \cup {{}}
        /\ bcall[r].set \in BSets \cup {{}}
    BY Zenon DEF BootstrapInv, BootstrapTypeOK
  <2>1. bmem[r].primary => Majority(bunsaved, bdisk, bmem[r].conf)
    BY Zenon DEF BootstrapInv, MajorityKnows
  <2>2. bcall[r].result = "RSLSuccess" => Majority(bunsaved, bdisk, bcall[r].set)
    BY Zenon DEF BootstrapInv, MajorityKnows
  <2>3. bdisk'[r].voted =>
            \/ r \in bunsaved
            \/ bdisk[r].set # {} /\ Majority(bunsaved, bdisk, bdisk[r].set)
    <3>1. CASE r = m
      BY Zenon, <1>6, <3>1
    <3>2. CASE r # m
      BY Zenon, <1>2, <3>2 DEF BootstrapInv, MajorityKnows
    <3> QED
      BY Zenon, <3>1, <3>2
  <2> QED
    BY Zenon, <1>5, <2>0, <2>1, <2>2, <2>3, MajorityKept
<1> QED
  BY Zenon, <1>3, <1>4, <1>7

\* CrashMember and StartMember: the disk outlives the call and the pending set.
LEMMA RestartKeeps ==
    ASSUME BootstrapInv, NEW m \in BMember, CrashMember(m) \/ StartMember(m)
    PROVE  MemoryIsDisk' /\ CallerFirst' /\ MajorityKnows'
<1>1. bdisk' = bdisk /\ bmsgs' = bmsgs /\ bunsaved' = bunsaved
  BY Zenon DEF CrashMember, StartMember
<1>2. /\ OthersStay(m) /\ bmem'[m].pending = {} /\ ~bmem'[m].primary
      /\ \/ bmem'[m].state = "down" /\ bmem'[m].conf = {}
         \/ bmem'[m].state = "PaxosInactive" /\ bmem'[m].conf = bdisk[m].set
  <2>0. m \in DOMAIN bmem
    BY Zenon DEF BootstrapInv, BootstrapTypeOK
  <2>1. CASE CrashMember(m)
    BY <2>0, <2>1 DEF CrashMember, Blank, OthersStay
  <2>2. CASE StartMember(m)
    BY <2>0, <2>2 DEF StartMember, Blank, OthersStay
  <2> QED
    BY Zenon, <2>1, <2>2
<1>3. bcall'[m].result # "sending"
  <2>1. CASE CrashMember(m)
    BY Zenon, <2>1 DEF CrashMember, BootstrapInv, BootstrapTypeOK
  <2>2. CASE StartMember(m)
    <3>1. PICK c \in BMember : BCallers = {c}
      BY Zenon, BootstrapAssumption
    <3>2. bcall[m].result = "sending" => m = c /\ bmem[m].state # "down"
      BY Zenon, <3>1 DEF BootstrapInv, CallerFirst
    <3> QED
      BY Zenon, <2>2, <3>2 DEF StartMember
  <2> QED
    BY Zenon, <2>1, <2>2
<1>4. bcall'[m].result = "RSLSuccess" =>
         bcall[m].result = "RSLSuccess" /\ bcall'[m].set = bcall[m].set
  BY DEF CrashMember, StartMember, BootstrapInv, BootstrapTypeOK
<1>5. OwnMemory(m) /\ OwnCall(m)
  <2>1. m \notin BCallers => \A c \in BCallers : bdisk[m].set \in {{}, bdisk[c].set}
    BY Zenon, BootstrapAssumption DEF BootstrapInv, CallerFirst
  <2> QED
    BY Zenon, <1>1, <1>2, <1>3, <2>1 DEF OwnMemory, OwnCall
<1>6. MemoryIsDisk' /\ CallerFirst' /\ DisksGrow
  BY Zenon, <1>1, <1>2, <1>5, OwnStep DEF BootstrapInv
<1>7. MajorityKnows'
  BY Zenon, <1>1, <1>2, <1>4, <1>6, MajorityStays DEF OthersStay
<1> QED
  BY Zenon, <1>6, <1>7

-----------------------------------------------------------------------------
(* The theorem. *)

\* A member whose checkpoint could not be renamed is remembered.
LEMMA UnsavedStays ==
    ASSUME [NextBootstrap]_bvars
    PROVE  bunsaved \subseteq bunsaved'
BY Zenon DEF NextBootstrap, bvars, CallBootstrap, SendBootstrap, BootstrapReturns,
   HandleBootstrapMessage, CheckBootstrap, PersistMemberSet, Elect,
   AcceptFirstVote, CrashMember, StartMember

\* Every step keeps the invariant.
LEMMA BootstrapStep ==
    BootstrapInvariant /\ [NextBootstrap]_bvars => BootstrapInvariant'
<1> SUFFICES ASSUME BootstrapInvariant, [NextBootstrap]_bvars
             PROVE  BootstrapInvariant'
  BY Zenon
<1>1. BootstrapTypeOK'
  <2>1. CASE NextBootstrap
    BY Zenon, <2>1, BootstrapTyped DEF BootstrapInvariant
  <2>2. CASE UNCHANGED bvars
    BY Zenon, <2>2 DEF bvars, BootstrapInvariant, BootstrapTypeOK
  <2> QED
    BY Zenon, <2>1, <2>2
<1>2. ASSUME CallerSaved'
      PROVE  MemoryIsDisk' /\ CallerFirst' /\ MajorityKnows'
  <2>0. BootstrapInv
    BY Zenon, <1>2, UnsavedStays DEF CallerSaved, BootstrapInvariant
  <2>1. CASE NextBootstrap
    BY ZenonT(40), <1>2, <2>0, <2>1, CallKeeps, SendKeeps, ReturnKeeps, HandleKeeps,
       CheckKeeps, ElectKeeps, VoteKeeps, RestartKeeps DEF NextBootstrap
  <2>2. CASE UNCHANGED bvars
    <3>1. MemoryIsDisk' /\ CallerFirst'
      BY <2>0, <2>2 DEF bvars, BootstrapInv, MemoryIsDisk, CallerFirst
    <3>2. MajorityKnows'
      BY Zenon, <2>0, <2>2 DEF bvars, BootstrapInv, MajorityKnows
    <3> QED
      BY Zenon, <3>1, <3>2
  <2> QED
    BY Zenon, <2>1, <2>2
<1> QED
  BY Zenon, <1>1, <1>2 DEF BootstrapInvariant, BootstrapInv

\* Whatever crashes, is lost, repeated or called again with another set, all
\* members that have a member set have the same one; a member that accepted a
\* vote has it on disk, and when Bootstrap has returned RSLSuccess a majority of
\* the set has it.  A checkpoint may keep its temporary name (PersistMemberSet):
\* such members count as having it, and nothing is said once the caller's has
\* (Legislator::Bootstrap, StartBootstrap, CheckBootstrap).
THEOREM BootstrapSafe ==
    SpecBootstrap => []Bootstrapped
<1>1. BootstrapInvariant => Bootstrapped
  <2> SUFFICES ASSUME BootstrapInv
               PROVE  BootstrapAgreement /\ BootstrapDurable
    BY Zenon DEF BootstrapInvariant, CallerSaved, Bootstrapped
  <2>1. BootstrapAgreement
    BY Zenon, CallersSet DEF BootstrapInv, BootstrapAgreement
  <2>2. BootstrapDurable
    BY Zenon DEF BootstrapInv, MajorityKnows, Majority, BootstrapDurable
  <2> QED
    BY Zenon, <2>1, <2>2
<1> QED
  BY BootstrapInitial, BootstrapStep, <1>1, PTL DEF SpecBootstrap

-----------------------------------------------------------------------------
(* The inductive invariant of ClientRequests. *)

\* c is in one of the votes of q.
Held(q, c) == \E i \in DOMAIN q : c \in Range(q[i])

\* No two votes of q have a cookie in common.
Apart(q) ==
    \A i, j \in DOMAIN q : \A c \in Cookie :
        c \in Range(q[i]) /\ c \in Range(q[j]) => i = j

Executed(s) == \E i \in DOMAIN s : s[i] = "Execute"
ExecutedOnce(s) ==
    \A i, j \in DOMAIN s : s[i] = "Execute" /\ s[j] = "Execute" => i = j

Calls(s) == Len(s)

AllAnswered == \A c \in taken : answers[c] # <<>>

ThreadTypes ==
    /\ independent \in BOOLEAN /\ isShutting \in BOOLEAN
    /\ mpc \in {"top", "msgs", "accept", "notify", "send", "drain", "abort",
                "ended"}
    /\ resume \in {"top", "accept"}
    /\ hbLock \in {"free", "main", "hb"}
    /\ hpc \in {"idle", "lock", "send", "assert", "ended"}
    /\ xpc \in {"top", "exec"}
    /\ spc \in {"run", "drain", "abort", "lock", "done"}

RoleTypes ==
    /\ st \in {"Secondary", "Preparing", "Primary"}
    /\ ballotMine \in BOOLEAN /\ isPrimary \in BOOLEAN /\ inTransit \in BOOLEAN
    /\ appPrimary \in BOOLEAN
    /\ spent \in [terms : Nat, others : Nat, beats : Nat]

VoteTypes ==
    /\ toSend \in Seq(Seq(Cookie)) /\ outVote \in Seq(Seq(Cookie))
    /\ execQ \in Seq(Seq(Cookie)) /\ accVote \in Seq(Cookie)
    /\ accMine \in BOOLEAN /\ accPassed \in BOOLEAN
    /\ taken \subseteq Cookie
    /\ answers \in [Cookie -> Seq({"Execute", "Abort"})]

\* m_hbLock is held by the thread that is about to send, which finds no vote
\* outstanding; the role changes meanwhile only when a vote is inverted with
\* the prepare of its ballot; a replica that is to abort its requests is not
\* the primary.
Threads ==
    /\ hbLock = "hb" <=> hpc \in {"send", "assert"}
    /\ hbLock = "main" <=> mpc \in {"notify", "send"}
    /\ mpc \in {"notify", "send"} =>
          st = "Primary" /\ outVote = <<>> /\ isPrimary
    /\ independent /\ hpc = "send" => outVote = <<>> /\ st # "Preparing"
    /\ independent /\ hpc = "send" /\ ~inverted => st = "Primary" /\ ballotMine
    /\ mpc \in {"drain", "abort", "accept"} => st = "Secondary" \/ st = "Preparing"
    /\ mpc \in {"drain", "abort", "accept"} => ~isPrimary
    /\ mpc \in {"drain", "abort"} => appPrimary
    /\ isPrimary /\ mpc # "notify" => appPrimary
    /\ SpawnThread /\ spc # "run" => mpc = "ended" /\ hpc = "ended" /\ isShutting
    /\ mpc = "abort" => execQ = <<>>
    /\ SpawnThread /\ spc = "abort" => execQ = <<>>
    /\ xpc = "exec" => execQ # <<>>

\* The terms in which a cookie may have been called back: a replica that
\* prepares has not yet proposed its accepted vote again.
Served == IF st = "Preparing" THEN spent.terms - 1 ELSE spent.terms

Terms ==
    /\ isPrimary => Served >= 1
    /\ st \in {"Preparing", "Primary"} => spent.terms >= 1

VotesApart ==
    /\ Apart(toSend) /\ Apart(execQ)
    /\ st = "Primary" /\ outVote # <<>> => outVote = <<accVote>>
    /\ ~accMine => accVote = <<>>

\* Where a cookie is.  It is queued before anything else happens to it.  The
\* accepted vote keeps it, and once that vote has passed it is in the
\* execution queue or has been answered.
Placed(c) ==
    /\ Held(toSend, c) => /\ Calls(answers[c]) = 0
                          /\ c \notin Range(accVote)
                          /\ ~Held(outVote, c) /\ ~Held(execQ, c)
    /\ c \in Range(accVote) /\ ~accPassed =>
          ~Held(execQ, c) /\ ~Executed(answers[c])
    /\ c \in Range(accVote) /\ accPassed =>
          Held(execQ, c) \/ Calls(answers[c]) # 0
    /\ Held(execQ, c) => ~Executed(answers[c])
    /\ c \notin taken => /\ Calls(answers[c]) = 0
                         /\ ~Held(toSend, c) /\ ~Held(outVote, c)
                         /\ ~Held(execQ, c) /\ c \notin Range(accVote)
    /\ c \in taken /\ Calls(answers[c]) = 0 =>
          Held(toSend, c) \/ Held(outVote, c) \/ Held(execQ, c)

\* How often it has been called back, with the callbacks that are still to come.
Counted(c) ==
    /\ ExecutedOnce(answers[c])
    /\ Calls(answers[c]) <= Served
    /\ Held(toSend, c) \/ Held(outVote, c) \/ Held(execQ, c) =>
          Calls(answers[c]) + 1 <= Served
    /\ Held(outVote, c) /\ Held(execQ, c) => Calls(answers[c]) + 2 <= Served

CookieInv(c) == Placed(c) /\ Counted(c)

\* NotifyStatus and ShutDown come when nothing is left to answer.
Settled ==
    /\ ~isPrimary /\ mpc \notin {"drain", "abort"} => AllAnswered
    /\ SpawnThread /\ spc \in {"lock", "done"} => AllAnswered

ClientInv ==
    /\ ThreadTypes /\ RoleTypes /\ VoteTypes
    /\ Threads /\ Terms /\ VotesApart /\ Settled
    /\ \A c \in Cookie : CookieInv(c)

-----------------------------------------------------------------------------
(* Queues of votes. *)

\* Nothing is in an empty queue.
LEMMA HeldEmpty ==
    ASSUME NEW c PROVE ~Held(<<>>, c) /\ Apart(<<>>)
BY DEF Held, Apart

\* A queue of one vote holds what the vote holds.
LEMMA HeldOne ==
    ASSUME NEW v, NEW c PROVE Held(<<v>>, c) <=> c \in Range(v)
BY DEF Held

\* A vote without requests has no cookie.
LEMMA RangeEmpty ==
    ASSUME NEW c PROVE c \notin Range(<<>>)
BY DEF Range

\* A vote joins the queue.
LEMMA HeldAppend ==
    ASSUME NEW q \in Seq(Seq(Cookie)), NEW v \in Seq(Cookie)
    PROVE  /\ Append(q, v) \in Seq(Seq(Cookie))
           /\ \A c : Held(Append(q, v), c) <=> Held(q, c) \/ c \in Range(v)
           /\ Apart(q) /\ (\A c \in Cookie : c \in Range(v) => ~Held(q, c)) =>
                 Apart(Append(q, v))
<1> DEFINE p == Append(q, v)
<1>1. /\ p \in Seq(Seq(Cookie)) /\ DOMAIN p = 1 .. Len(q) + 1
      /\ DOMAIN q = 1 .. Len(q) /\ Len(q) \in Nat
      /\ p[Len(q) + 1] = v /\ \A i \in 1 .. Len(q) : p[i] = q[i]
  OBVIOUS
<1> HIDE DEF p
<1>2. ASSUME NEW c PROVE Held(p, c) <=> Held(q, c) \/ c \in Range(v)
  <2>1. ASSUME Held(p, c) PROVE Held(q, c) \/ c \in Range(v)
    <3>1. PICK i \in DOMAIN p : c \in Range(p[i])
      BY Zenon, <2>1 DEF Held
    <3>2. i = Len(q) + 1 \/ i \in DOMAIN q
      BY <1>1, <3>1
    <3> QED
      BY Zenon, <1>1, <3>1, <3>2 DEF Held
  <2>2. ASSUME Held(q, c) PROVE Held(p, c)
    <3>1. PICK i \in DOMAIN q : c \in Range(q[i])
      BY Zenon, <2>2 DEF Held
    <3>2. i \in DOMAIN p /\ p[i] = q[i]
      BY <1>1, <3>1
    <3> QED
      BY Zenon, <3>1, <3>2 DEF Held
  <2>3. ASSUME c \in Range(v) PROVE Held(p, c)
    <3>1. Len(q) + 1 \in DOMAIN p
      BY <1>1
    <3> QED
      BY ZenonT(40), <1>1, <2>3, <3>1 DEF Held
  <2> QED
    BY Zenon, <2>1, <2>2, <2>3
<1>3. ASSUME Apart(q), \A c \in Cookie : c \in Range(v) => ~Held(q, c)
      PROVE  Apart(p)
  <2> SUFFICES ASSUME NEW i \in DOMAIN p, NEW j \in DOMAIN p, NEW c \in Cookie,
                      c \in Range(p[i]), c \in Range(p[j])
               PROVE  i = j
    BY Zenon DEF Apart
  <2>1. ASSUME NEW k \in DOMAIN p
        PROVE  (k = Len(q) + 1 /\ p[k] = v) \/ (k \in DOMAIN q /\ p[k] = q[k])
    BY <1>1
  <2>2. CASE i \in DOMAIN q /\ p[i] = q[i] /\ j \in DOMAIN q /\ p[j] = q[j]
    BY Zenon, <1>3, <2>2 DEF Apart
  <2> QED
    BY ZenonT(40), <1>3, <2>1, <2>2 DEF Held
<1> QED
  BY Zenon, <1>1, <1>2, <1>3 DEF p

\* The first vote leaves the queue.
LEMMA HeldHead ==
    ASSUME NEW q \in Seq(Seq(Cookie)), q # <<>>
    PROVE  /\ Tail(q) \in Seq(Seq(Cookie)) /\ Head(q) \in Seq(Cookie)
           /\ \A c : Held(q, c) <=> c \in Range(Head(q)) \/ Held(Tail(q), c)
           /\ Apart(q) => /\ Apart(Tail(q))
                          /\ \A c \in Cookie :
                                c \in Range(Head(q)) => ~Held(Tail(q), c)
<1> DEFINE t == Tail(q)
<1>1. /\ t \in Seq(Seq(Cookie)) /\ Head(q) = q[1] /\ q[1] \in Seq(Cookie)
      /\ DOMAIN q = 1 .. Len(q) /\ Len(q) \in Nat /\ Len(q) >= 1
      /\ DOMAIN t = 1 .. Len(q) - 1
      /\ \A i \in 1 .. Len(q) - 1 : t[i] = q[i + 1]
  OBVIOUS
<1> HIDE DEF t
<1>2. ASSUME NEW k \in DOMAIN t
      PROVE  k \in Int /\ k + 1 \in DOMAIN q /\ t[k] = q[k + 1] /\ k + 1 # 1
  <2>1. k \in 1 .. Len(q) - 1
    BY Zenon, <1>1
  <2>2. k \in Int /\ k + 1 \in 1 .. Len(q) /\ k + 1 # 1
    BY <1>1, <2>1
  <2> QED
    BY ZenonT(40), <1>1, <2>1, <2>2
<1>3. ASSUME NEW c PROVE Held(q, c) <=> c \in Range(q[1]) \/ Held(t, c)
  <2>1. ASSUME Held(q, c), c \notin Range(q[1]) PROVE Held(t, c)
    <3>1. PICK i \in DOMAIN q : c \in Range(q[i])
      BY Zenon, <2>1 DEF Held
    <3>2. i - 1 \in DOMAIN t /\ t[i - 1] = q[i]
      BY <1>1, <2>1, <3>1
    <3> QED
      BY Zenon, <3>1, <3>2 DEF Held
  <2>2. ASSUME Held(t, c) PROVE Held(q, c)
    <3>1. PICK i \in DOMAIN t : c \in Range(t[i])
      BY Zenon, <2>2 DEF Held
    <3>2. i + 1 \in DOMAIN q /\ t[i] = q[i + 1]
      BY Zenon, <1>2, <3>1
    <3> QED
      BY Zenon, <3>1, <3>2 DEF Held
  <2>3. ASSUME c \in Range(q[1]) PROVE Held(q, c)
    <3>1. 1 \in DOMAIN q
      BY <1>1
    <3> QED
      BY Zenon, <2>3, <3>1 DEF Held
  <2> QED
    BY Zenon, <2>1, <2>2, <2>3
<1>4. ASSUME Apart(q) PROVE Apart(t)
  <2> SUFFICES ASSUME NEW i \in DOMAIN t, NEW j \in DOMAIN t, NEW c \in Cookie,
                      c \in Range(t[i]), c \in Range(t[j])
               PROVE  i = j
    BY Zenon DEF Apart
  <2>1. i + 1 = j + 1
    BY Zenon, <1>4, <1>2 DEF Apart
  <2> QED
    BY <1>2, <2>1
<1>5. ASSUME Apart(q), NEW c \in Cookie, c \in Range(q[1]), Held(t, c) PROVE FALSE
  <2>1. PICK i \in DOMAIN t : c \in Range(t[i])
    BY Zenon, <1>5 DEF Held
  <2>2. /\ i + 1 \in DOMAIN q /\ t[i] = q[i + 1] /\ i + 1 # 1
        /\ 1 \in DOMAIN q
    BY <1>1, <1>2, <2>1
  <2> QED
    BY Zenon, <1>5, <2>1, <2>2 DEF Apart
<1> QED
  BY Zenon, <1>1, <1>3, <1>4, <1>5 DEF t

\* A request joins the last vote of the queue.
LEMMA HeldJoin ==
    ASSUME NEW q \in Seq(Seq(Cookie)), q # <<>>, NEW d \in Cookie
    PROVE  LET p == [q EXCEPT ![Len(q)] = Append(@, d)]
           IN  /\ p \in Seq(Seq(Cookie))
               /\ \A c : Held(p, c) <=> Held(q, c) \/ c = d
               /\ Apart(q) /\ ~Held(q, d) => Apart(p)
<1> DEFINE v == Append(q[Len(q)], d)
           p == [q EXCEPT ![Len(q)] = v]
<1>1. /\ DOMAIN q = 1 .. Len(q) /\ Len(q) \in Nat /\ Len(q) \in DOMAIN q
      /\ q[Len(q)] \in Seq(Cookie)
  OBVIOUS
<1>2. /\ v \in Seq(Cookie)
      /\ \A c : c \in Range(v) <=> c \in Range(q[Len(q)]) \/ c = d
  <2> DEFINE w == q[Len(q)]
  <2>1. /\ Append(w, d) \in Seq(Cookie) /\ DOMAIN Append(w, d) = 1 .. Len(w) + 1
        /\ DOMAIN w = 1 .. Len(w) /\ Len(w) \in Nat
        /\ Append(w, d)[Len(w) + 1] = d
        /\ \A i \in 1 .. Len(w) : Append(w, d)[i] = w[i]
    BY <1>1
  <2> HIDE DEF w
  <2> SUFFICES ASSUME NEW c
               PROVE  c \in Range(Append(w, d)) <=> c \in Range(w) \/ c = d
    BY Zenon, <2>1 DEF w
  <2>2. ASSUME c \in Range(w) PROVE c \in Range(Append(w, d))
    <3>1. PICK i \in DOMAIN w : c = w[i]
      BY Zenon, <2>2 DEF Range
    <3>2. i \in DOMAIN Append(w, d) /\ Append(w, d)[i] = c
      BY <2>1, <3>1
    <3> QED
      BY Zenon, <3>2 DEF Range
  <2>3. d \in Range(Append(w, d))
    <3>1. Len(w) + 1 \in DOMAIN Append(w, d)
      BY <2>1
    <3> QED
      BY Zenon, <2>1, <3>1 DEF Range
  <2>4. ASSUME c \in Range(Append(w, d)) PROVE c \in Range(w) \/ c = d
    <3>1. PICK i \in DOMAIN Append(w, d) : c = Append(w, d)[i]
      BY ZenonT(40), <2>4 DEF Range
    <3>2. i = Len(w) + 1 \/ i \in DOMAIN w
      BY <2>1, <3>1
    <3> QED
      BY ZenonT(40), <2>1, <3>1, <3>2 DEF Range
  <2> QED
    BY ZenonT(40), <2>2, <2>3, <2>4
<1> HIDE DEF v
<1>3. /\ p \in Seq(Seq(Cookie)) /\ DOMAIN p = DOMAIN q /\ p[Len(q)] = v
      /\ \A i \in DOMAIN q : i # Len(q) => p[i] = q[i]
  BY <1>1, <1>2
<1> HIDE DEF p
<1>4. ASSUME NEW c PROVE Held(p, c) <=> Held(q, c) \/ c = d
  <2>1. Held(p, c) => Held(q, c) \/ c = d
    BY Zenon, <1>1, <1>2, <1>3 DEF Held
  <2>2. Held(q, c) => Held(p, c)
    BY Zenon, <1>1, <1>2, <1>3 DEF Held
  <2>3. c = d => Held(p, c)
    BY ZenonT(40), <1>1, <1>2, <1>3 DEF Held
  <2> QED
    BY Zenon, <2>1, <2>2, <2>3
<1>5. ASSUME Apart(q), ~Held(q, d) PROVE Apart(p)
  <2> SUFFICES ASSUME NEW i \in DOMAIN p, NEW j \in DOMAIN p, NEW c \in Cookie,
                      c \in Range(p[i]), c \in Range(p[j])
               PROVE  i = j
    BY Zenon DEF Apart
  <2>1. CASE c = d
    BY ZenonT(40), <1>1, <1>2, <1>3, <1>5, <2>1 DEF Held
  <2>2. CASE c # d
    <3>1. c \in Range(q[i]) /\ c \in Range(q[j])
      BY ZenonT(40), <1>1, <1>2, <1>3, <2>2
    <3> QED
      BY ZenonT(40), <1>3, <1>5, <3>1 DEF Apart
  <2> QED
    BY Zenon, <2>1, <2>2
<1> QED
  BY ZenonT(40), <1>3, <1>4, <1>5 DEF p, v

\* Which cookies AbortReplicateRequests answers.
LEMMA HeldConcat ==
    ASSUME NEW p \in Seq(Seq(Cookie)), NEW q \in Seq(Seq(Cookie)), NEW c
    PROVE  (\E v \in Range(p \o q) : c \in Range(v)) <=> Held(p, c) \/ Held(q, c)
<1> DEFINE w == p \o q
<1>1. /\ DOMAIN w = 1 .. Len(p) + Len(q) /\ DOMAIN p = 1 .. Len(p)
      /\ DOMAIN q = 1 .. Len(q) /\ Len(p) \in Nat /\ Len(q) \in Nat
      /\ \A i \in 1 .. Len(p) : w[i] = p[i]
      /\ \A i \in 1 .. Len(q) : w[Len(p) + i] = q[i]
  OBVIOUS
<1> HIDE DEF w
<1>2. (\E v \in Range(w) : c \in Range(v)) <=> Held(w, c)
  BY ZenonT(40) DEF Held, Range
<1>3. Held(p, c) => Held(w, c)
  BY <1>1 DEF Held
<1>4. ASSUME Held(q, c) PROVE Held(w, c)
  <2>1. PICK i \in DOMAIN q : c \in Range(q[i])
    BY ZenonT(40), <1>4 DEF Held
  <2>2. Len(p) + i \in DOMAIN w /\ w[Len(p) + i] = q[i]
    BY <1>1, <2>1
  <2> QED
    BY ZenonT(40), <2>1, <2>2 DEF Held
<1>5. ASSUME Held(w, c), ~Held(p, c) PROVE Held(q, c)
  <2>1. PICK i \in DOMAIN w : c \in Range(w[i])
    BY Zenon, <1>5 DEF Held
  <2>2. i \notin 1 .. Len(p)
    BY ZenonT(40), <1>1, <1>5, <2>1 DEF Held
  <2>3. i - Len(p) \in DOMAIN q /\ w[i] = q[i - Len(p)]
    BY <1>1, <2>1, <2>2
  <2> QED
    BY Zenon, <2>1, <2>3 DEF Held
<1> QED
  BY ZenonT(40), <1>2, <1>3, <1>4, <1>5 DEF w

\* One more callback.
LEMMA AnswerAppend ==
    ASSUME NEW s \in Seq({"Execute", "Abort"}), NEW a \in {"Execute", "Abort"}
    PROVE  /\ Append(s, a) \in Seq({"Execute", "Abort"}) /\ Append(s, a) # <<>>
           /\ Calls(Append(s, a)) = Calls(s) + 1
           /\ a = "Abort" => (Executed(Append(s, a)) <=> Executed(s))
           /\ ExecutedOnce(s) /\ (a = "Abort" \/ ~Executed(s)) =>
                 ExecutedOnce(Append(s, a))
<1> DEFINE t == Append(s, a)
<1>1. /\ t \in Seq({"Execute", "Abort"}) /\ t # <<>> /\ Len(t) = Len(s) + 1
      /\ Len(s) \in Nat /\ (s = <<>> <=> Len(s) = 0)
      /\ DOMAIN t = 1 .. Len(s) + 1 /\ DOMAIN s = 1 .. Len(s)
      /\ t[Len(s) + 1] = a /\ \A i \in 1 .. Len(s) : t[i] = s[i]
  OBVIOUS
<1> HIDE DEF t
<1>2. a = "Abort" => (Executed(t) <=> Executed(s))
  BY <1>1 DEF Executed
<1>3. ASSUME ExecutedOnce(s), a = "Abort" \/ ~Executed(s) PROVE ExecutedOnce(t)
  BY <1>1, <1>3 DEF Executed, ExecutedOnce
<1> QED
  BY ZenonT(40), <1>1, <1>2, <1>3 DEF t, Calls

\* A count of zero is an empty sequence of callbacks.
LEMMA NoCalls ==
    ASSUME NEW s \in Seq({"Execute", "Abort"})
    PROVE  Calls(s) \in Nat /\ (s = <<>> <=> Calls(s) = 0)
BY DEF Calls

-----------------------------------------------------------------------------
(* Steps that touch no vote, queue or answer. *)

\* A budget that is spent stays a record of numbers.
LEMMA SpendTypes ==
    ASSUME RoleTypes, NEW max
    PROVE  /\ spent.terms \in Nat
           /\ Spend("terms", max) =>
                 /\ spent' \in [terms : Nat, others : Nat, beats : Nat]
                 /\ spent'.terms = spent.terms + 1
           /\ Spend("others", max) \/ Spend("beats", max) =>
                 /\ spent' \in [terms : Nat, others : Nat, beats : Nat]
                 /\ spent'.terms = spent.terms
<1>1. /\ spent.terms \in Nat /\ spent.others \in Nat /\ spent.beats \in Nat
      /\ spent = [terms |-> spent.terms, others |-> spent.others,
                  beats |-> spent.beats]
  BY Zenon DEF RoleTypes
<1>2. ASSUME Spend("terms", max)
      PROVE  spent' = [terms |-> spent.terms + 1, others |-> spent.others,
                       beats |-> spent.beats]
  BY ZenonT(40), <1>1, <1>2 DEF Spend, RoleTypes
<1>3. ASSUME Spend("others", max)
      PROVE  spent' = [terms |-> spent.terms, others |-> spent.others + 1,
                       beats |-> spent.beats]
  BY Zenon, <1>1, <1>3 DEF Spend, RoleTypes
<1>4. ASSUME Spend("beats", max)
      PROVE  spent' = [terms |-> spent.terms, others |-> spent.others,
                       beats |-> spent.beats + 1]
  BY ZenonT(40), <1>1, <1>4 DEF Spend, RoleTypes
<1> QED
  BY <1>1, <1>2, <1>3, <1>4

\* The terms that were served stay as they are with the role and the count.
LEMMA ServedStays ==
    ASSUME ClientInv, UNCHANGED <<st, spent>>
    PROVE  Served <= Served'
<1>1. spent.terms \in Nat
  BY Zenon DEF ClientInv, RoleTypes
<1>2. Served \in Int
  BY <1>1 DEF Served
<1>3. Served' = Served
  BY Zenon DEF Served
<1> QED
  BY <1>2, <1>3

\* A step that moves no vote and calls nobody back, and serves no fewer terms,
\* keeps what is said of every cookie.
LEMMA QuietStep ==
    ASSUME ClientInv, UNCHANGED <<voteVars, taken, answers>>,
           RoleTypes', Served <= Served', st' = "Primary" => st = "Primary"
    PROVE  VoteTypes' /\ VotesApart' /\ \A c \in Cookie : CookieInv(c)'
<1>1. VotesApart' /\ VoteTypes'
  BY Zenon DEF ClientInv, VotesApart, VoteTypes, voteVars
<1>2. ASSUME NEW c \in Cookie PROVE CookieInv(c)'
  <2>1. CookieInv(c) /\ Calls(answers[c]) \in Nat
    BY Zenon, NoCalls DEF ClientInv, VoteTypes
  <2>2. Served \in Int /\ Served' \in Int
    BY DEF ClientInv, RoleTypes, Served
  <2>8. Placed(c)'
    BY ZenonT(40), <2>1, <2>2 DEF CookieInv, Placed, voteVars
  <2>9. Counted(c)'
    BY <2>1, <2>2 DEF CookieInv, Counted, voteVars
  <2> QED
    BY Zenon, <2>8, <2>9 DEF CookieInv
<1> QED
  BY Zenon, <1>1, <1>2

\* MainLoop begins an iteration.
LEMMA MainTopStep ==
    ASSUME ClientInv, MainTop
    PROVE  ClientInv'
<1>1. ThreadTypes' /\ RoleTypes'
  BY DEF ClientInv, ThreadTypes, RoleTypes, MainTop, roleVars, voteVars,
     threadVars, appVars
<1>2. Threads'
  BY ZenonT(40) DEF ClientInv, ThreadTypes, RoleTypes, Threads, MainTop, roleVars,
     voteVars, threadVars, appVars
<1>6. Terms'
  BY Zenon DEF ClientInv, RoleTypes, Terms, Served, MainTop, roleVars, voteVars,
     threadVars, appVars
<1>3. Settled'
  BY Zenon DEF ClientInv, ThreadTypes, RoleTypes, Threads, Settled, AllAnswered,
         MainTop, roleVars, voteVars, threadVars, appVars
<1>4. /\ UNCHANGED <<voteVars, taken, answers>>
      /\ Served <= Served' /\ (st' = "Primary" => st = "Primary")
  BY ZenonT(40), ServedStays DEF ClientInv, MainTop, roleVars, voteVars,
     threadVars, appVars
<1> QED
  BY ZenonT(40), <1>1, <1>2, <1>3, <1>4, <1>6, QuietStep DEF ClientInv

\* MainLoop with a vote outstanding.
LEMMA MainWaitStep ==
    ASSUME ClientInv, MainWait
    PROVE  ClientInv'
<1>1. ThreadTypes' /\ RoleTypes'
  BY DEF ClientInv, ThreadTypes, RoleTypes, MainWait, roleVars, voteVars,
     threadVars, appVars
<1>2. Threads'
  BY Zenon DEF ClientInv, ThreadTypes, RoleTypes, Threads, MainWait, roleVars,
     voteVars, threadVars, appVars
<1>6. Terms'
  BY Zenon DEF ClientInv, RoleTypes, Terms, Served, MainWait, roleVars, voteVars,
     threadVars, appVars
<1>3. Settled'
  BY Zenon DEF ClientInv, ThreadTypes, RoleTypes, Threads, Settled, AllAnswered,
         MainWait, roleVars, voteVars, threadVars, appVars
<1>4. /\ UNCHANGED <<voteVars, taken, answers>>
      /\ Served <= Served' /\ (st' = "Primary" => st = "Primary")
  BY ZenonT(40), ServedStays DEF ClientInv, MainWait, roleVars, voteVars,
     threadVars, appVars
<1> QED
  BY Zenon, <1>1, <1>2, <1>3, <1>4, <1>6, QuietStep DEF ClientInv

\* MainLoop takes m_hbLock, checks again and becomes the application's primary.
LEMMA MainLockHbStep ==
    ASSUME ClientInv, MainLockHb
    PROVE  ClientInv'
<1>5. /\ inTransit' \in BOOLEAN /\ isPrimary' \in BOOLEAN
      /\ ballotMine' \in BOOLEAN /\ appPrimary' \in BOOLEAN
  BY Zenon DEF ClientInv, RoleTypes, MainLockHb, roleVars, appVars
<1>1. ThreadTypes' /\ RoleTypes'
  BY <1>5 DEF ClientInv, ThreadTypes, RoleTypes, MainLockHb, roleVars,
     voteVars, threadVars, appVars
<1>2. Threads'
  BY Zenon DEF ClientInv, ThreadTypes, RoleTypes, Threads, MainLockHb,
     roleVars, voteVars, threadVars, appVars
<1>6. Terms'
  BY Zenon DEF ClientInv, RoleTypes, Terms, Served, MainLockHb, roleVars, voteVars,
     threadVars, appVars
<1>3. Settled'
  BY Zenon DEF ClientInv, ThreadTypes, RoleTypes, Threads, Settled, AllAnswered,
         MainLockHb, roleVars, voteVars, threadVars, appVars
<1>4. /\ UNCHANGED <<voteVars, taken, answers>>
      /\ Served <= Served' /\ (st' = "Primary" => st = "Primary")
  BY ZenonT(40), ServedStays DEF ClientInv, MainLockHb, roleVars, voteVars,
     threadVars, appVars
<1> QED
  BY Zenon, <1>1, <1>2, <1>3, <1>4, <1>6, QuietStep DEF ClientInv

\* CheckNotifyStatus(true) calls NotifyStatus.
LEMMA MainNotifyStep ==
    ASSUME ClientInv, MainNotify
    PROVE  ClientInv'
<1>5. /\ inTransit' \in BOOLEAN /\ isPrimary' \in BOOLEAN
      /\ ballotMine' \in BOOLEAN /\ appPrimary' \in BOOLEAN
  BY ZenonT(40) DEF ClientInv, RoleTypes, MainNotify, roleVars, appVars
<1>1. ThreadTypes' /\ RoleTypes'
  BY <1>5 DEF ClientInv, ThreadTypes, RoleTypes, MainNotify, roleVars,
     voteVars, threadVars, appVars
<1>2. Threads'
  BY Zenon DEF ClientInv, ThreadTypes, RoleTypes, Threads, MainNotify,
     roleVars, voteVars, threadVars, appVars
<1>6. Terms'
  BY Zenon DEF ClientInv, RoleTypes, Terms, Served, MainNotify, roleVars, voteVars,
     threadVars, appVars
<1>3. Settled'
  BY Zenon DEF ClientInv, ThreadTypes, RoleTypes, Threads, Settled, AllAnswered,
         MainNotify, roleVars, voteVars, threadVars, appVars
<1>4. /\ UNCHANGED <<voteVars, taken, answers>>
      /\ Served <= Served' /\ (st' = "Primary" => st = "Primary")
  BY ZenonT(40), ServedStays DEF ClientInv, MainNotify, roleVars, voteVars,
     threadVars, appVars
<1> QED
  BY Zenon, <1>1, <1>2, <1>3, <1>4, <1>6, QuietStep DEF ClientInv

\* CheckNotifyStatus(false) is the only way out of being the primary.
LEMMA MainNotPrimaryStep ==
    ASSUME ClientInv, MainNotPrimary
    PROVE  ClientInv'
<1>5. /\ inTransit' \in BOOLEAN /\ isPrimary' \in BOOLEAN
      /\ ballotMine' \in BOOLEAN /\ appPrimary' \in BOOLEAN
  BY ZenonT(40) DEF ClientInv, RoleTypes, MainNotPrimary, roleVars, appVars
<1>1. ThreadTypes' /\ RoleTypes'
  BY <1>5 DEF ClientInv, ThreadTypes, RoleTypes, MainNotPrimary, roleVars,
     voteVars, threadVars, appVars
<1>2. Threads'
  BY ZenonT(40) DEF ClientInv, ThreadTypes, RoleTypes, Threads, MainNotPrimary,
     roleVars, voteVars, threadVars, appVars
<1>6. Terms'
  BY Zenon DEF ClientInv, RoleTypes, Terms, Served, MainNotPrimary, roleVars,
     voteVars, threadVars, appVars
<1>3. Settled'
  BY Zenon DEF ClientInv, ThreadTypes, RoleTypes, Threads, Settled, AllAnswered,
         MainNotPrimary, roleVars, voteVars, threadVars, appVars
<1>4. /\ UNCHANGED <<voteVars, taken, answers>>
      /\ Served <= Served' /\ (st' = "Primary" => st = "Primary")
  BY ZenonT(40), ServedStays DEF ClientInv, MainNotPrimary, roleVars,
     voteVars, threadVars, appVars
<1> QED
  BY Zenon, <1>1, <1>2, <1>3, <1>4, <1>6, QuietStep DEF ClientInv

\* AbortReplicateRequests has waited until the execution queue is empty.
LEMMA MainDrainStep ==
    ASSUME ClientInv, MainDrain
    PROVE  ClientInv'
<1>1. ThreadTypes' /\ RoleTypes'
  BY DEF ClientInv, ThreadTypes, RoleTypes, MainDrain, roleVars, voteVars,
     threadVars, appVars
<1>2. Threads'
  BY Zenon DEF ClientInv, ThreadTypes, RoleTypes, Threads, MainDrain, roleVars,
     voteVars, threadVars, appVars
<1>6. Terms'
  BY Zenon DEF ClientInv, RoleTypes, Terms, Served, MainDrain, roleVars, voteVars,
     threadVars, appVars
<1>3. Settled'
  BY Zenon DEF ClientInv, ThreadTypes, RoleTypes, Threads, Settled, AllAnswered,
         MainDrain, roleVars, voteVars, threadVars, appVars
<1>4. /\ UNCHANGED <<voteVars, taken, answers>>
      /\ Served <= Served' /\ (st' = "Primary" => st = "Primary")
  BY ZenonT(40), ServedStays DEF ClientInv, MainDrain, roleVars, voteVars,
     threadVars, appVars
<1> QED
  BY Zenon, <1>1, <1>2, <1>3, <1>4, <1>6, QuietStep DEF ClientInv

\* MainLoop ends in Unload.
LEMMA MainEndStep ==
    ASSUME ClientInv, MainEnd
    PROVE  ClientInv'
<1>1. ThreadTypes' /\ RoleTypes'
  BY DEF ClientInv, ThreadTypes, RoleTypes, MainEnd, roleVars, voteVars,
     threadVars, appVars
<1>2. Threads'
  BY Zenon DEF ClientInv, ThreadTypes, RoleTypes, Threads, MainEnd, roleVars,
     voteVars, threadVars, appVars
<1>6. Terms'
  BY Zenon DEF ClientInv, RoleTypes, Terms, Served, MainEnd, roleVars, voteVars,
     threadVars, appVars
<1>3. Settled'
  BY Zenon DEF ClientInv, ThreadTypes, RoleTypes, Threads, Settled, AllAnswered,
         MainEnd, roleVars, voteVars, threadVars, appVars
<1>4. /\ UNCHANGED <<voteVars, taken, answers>>
      /\ Served <= Served' /\ (st' = "Primary" => st = "Primary")
  BY ZenonT(40), ServedStays DEF ClientInv, MainEnd, roleVars, voteVars,
     threadVars, appVars
<1> QED
  BY Zenon, <1>1, <1>2, <1>3, <1>4, <1>6, QuietStep DEF ClientInv

\* A prepare or NotAccepted of a higher ballot makes a secondary.
LEMMA HandlePrepareStep ==
    ASSUME ClientInv, HandlePrepare
    PROVE  ClientInv'
<1>0. /\ spent' \in [terms : Nat, others : Nat, beats : Nat]
      /\ spent.terms \in Nat /\ spent'.terms = spent.terms
  BY Zenon, SpendTypes DEF ClientInv, HandlePrepare
<1>5. /\ inTransit' \in BOOLEAN /\ isPrimary' \in BOOLEAN
      /\ ballotMine' \in BOOLEAN /\ appPrimary' \in BOOLEAN
  BY Zenon DEF ClientInv, RoleTypes, HandlePrepare, roleVars, appVars
<1>1. ThreadTypes' /\ RoleTypes'
  BY <1>0, <1>5 DEF ClientInv, ThreadTypes, RoleTypes, HandlePrepare, roleVars,
     voteVars, threadVars, appVars
<1>2. Threads'
  BY Zenon DEF ClientInv, ThreadTypes, RoleTypes, Threads, HandlePrepare,
     HbLockFree, roleVars, voteVars, threadVars, appVars
<1>6. Terms'
  BY Zenon, <1>0 DEF ClientInv, RoleTypes, Terms, Served, HandlePrepare, roleVars,
     voteVars, threadVars, appVars
<1>3. Settled'
  BY ZenonT(40) DEF ClientInv, ThreadTypes, RoleTypes, Threads, Settled, AllAnswered,
         HandlePrepare, HbLockFree, roleVars, voteVars, threadVars, appVars
<1>4. /\ UNCHANGED <<voteVars, taken, answers>>
      /\ Served <= Served' /\ (st' = "Primary" => st = "Primary")
  BY <1>0 DEF ClientInv, RoleTypes, Served, HandlePrepare, roleVars, voteVars,
     threadVars, appVars
<1> QED
  BY Zenon, <1>1, <1>2, <1>3, <1>4, <1>6, QuietStep DEF ClientInv

\* A vote overtakes the prepare of its ballot.
LEMMA HandleVoteInversionStep ==
    ASSUME ClientInv, HandleVoteInversion
    PROVE  ClientInv'
<1>0. /\ spent' \in [terms : Nat, others : Nat, beats : Nat]
      /\ spent.terms \in Nat /\ spent'.terms = spent.terms
  BY Zenon, SpendTypes DEF ClientInv, HandleVoteInversion
<1>5. /\ inTransit' \in BOOLEAN /\ isPrimary' \in BOOLEAN
      /\ ballotMine' \in BOOLEAN /\ appPrimary' \in BOOLEAN
  BY Zenon DEF ClientInv, RoleTypes, HandleVoteInversion, roleVars, appVars
<1>1. ThreadTypes' /\ RoleTypes'
  BY <1>0, <1>5 DEF ClientInv, ThreadTypes, RoleTypes, HandleVoteInversion,
     roleVars, voteVars, threadVars, appVars
<1>2. Threads'
  BY ZenonT(40) DEF ClientInv, ThreadTypes, RoleTypes, Threads, HandleVoteInversion,
     roleVars, voteVars, threadVars, appVars
<1>6. Terms'
  BY Zenon, <1>0 DEF ClientInv, RoleTypes, Terms, Served, HandleVoteInversion,
     roleVars, voteVars, threadVars, appVars
<1>3. Settled'
  BY Zenon DEF ClientInv, ThreadTypes, RoleTypes, Threads, Settled, AllAnswered,
         HandleVoteInversion, roleVars, voteVars, threadVars, appVars
<1>4. /\ UNCHANGED <<voteVars, taken, answers>>
      /\ Served <= Served' /\ (st' = "Primary" => st = "Primary")
  BY <1>0 DEF ClientInv, RoleTypes, Served, HandleVoteInversion, roleVars,
     voteVars, threadVars, appVars
<1> QED
  BY Zenon, <1>1, <1>2, <1>3, <1>4, <1>6, QuietStep DEF ClientInv

\* StartPreparing: a term begins, and nothing of it has been served.
LEMMA StartPrepareStep ==
    ASSUME ClientInv, StartPrepare
    PROVE  ClientInv'
<1>0. /\ spent' \in [terms : Nat, others : Nat, beats : Nat]
      /\ spent.terms \in Nat /\ spent'.terms = spent.terms + 1
  BY Zenon, SpendTypes DEF ClientInv, StartPrepare
<1>5. /\ inTransit' \in BOOLEAN /\ isPrimary' \in BOOLEAN
      /\ ballotMine' \in BOOLEAN /\ appPrimary' \in BOOLEAN
  BY Zenon DEF ClientInv, RoleTypes, StartPrepare, roleVars, appVars
<1>1. ThreadTypes' /\ RoleTypes'
  BY <1>0, <1>5 DEF ClientInv, ThreadTypes, RoleTypes, StartPrepare, roleVars,
     voteVars, threadVars, appVars
<1>2. Threads'
  BY Zenon DEF ClientInv, ThreadTypes, RoleTypes, Threads, StartPrepare,
     HbLockFree, roleVars, voteVars, threadVars, appVars
<1>6. Terms'
  BY <1>0 DEF ClientInv, RoleTypes, Terms, Served, StartPrepare, roleVars,
     voteVars, threadVars, appVars
<1>3. Settled'
  BY ZenonT(40) DEF ClientInv, ThreadTypes, RoleTypes, Threads, Settled, AllAnswered,
         StartPrepare, HbLockFree, roleVars, voteVars, threadVars, appVars
<1>4. /\ UNCHANGED <<voteVars, taken, answers>>
      /\ Served <= Served' /\ (st' = "Primary" => st = "Primary")
  BY <1>0 DEF ClientInv, RoleTypes, Served, StartPrepare, roleVars, voteVars,
     threadVars, appVars
<1> QED
  BY Zenon, <1>1, <1>2, <1>3, <1>4, <1>6, QuietStep DEF ClientInv

\* HeartBeatLoop finds that a heartbeat is due.
LEMMA BeatWantedStep ==
    ASSUME ClientInv, BeatWanted
    PROVE  ClientInv'
<1>0. /\ spent' \in [terms : Nat, others : Nat, beats : Nat]
      /\ spent.terms \in Nat /\ spent'.terms = spent.terms
  BY ZenonT(40), SpendTypes DEF ClientInv, BeatWanted
<1>1. ThreadTypes' /\ RoleTypes'
  BY <1>0 DEF ClientInv, ThreadTypes, RoleTypes, BeatWanted, roleVars,
     voteVars, threadVars, appVars
<1>2. Threads'
  BY ZenonT(40) DEF ClientInv, ThreadTypes, RoleTypes, Threads, BeatWanted,
     roleVars, voteVars, threadVars, appVars
<1>6. Terms'
  BY Zenon, <1>0 DEF ClientInv, RoleTypes, Terms, Served, BeatWanted, roleVars,
     voteVars, threadVars, appVars
<1>3. Settled'
  BY Zenon DEF ClientInv, ThreadTypes, RoleTypes, Threads, Settled, AllAnswered,
         BeatWanted, roleVars, voteVars, threadVars, appVars
<1>4. /\ UNCHANGED <<voteVars, taken, answers>>
      /\ Served <= Served' /\ (st' = "Primary" => st = "Primary")
  BY <1>0 DEF ClientInv, RoleTypes, Served, BeatWanted, roleVars, voteVars,
     threadVars, appVars
<1> QED
  BY Zenon, <1>1, <1>2, <1>3, <1>4, <1>6, QuietStep DEF ClientInv

\* HeartBeatLoop takes m_hbLock and checks everything again.
LEMMA BeatLockStep ==
    ASSUME ClientInv, BeatLock
    PROVE  ClientInv'
<1>1. ThreadTypes' /\ RoleTypes'
  BY DEF ClientInv, ThreadTypes, RoleTypes, BeatLock, roleVars, voteVars,
     threadVars, appVars
<1>2. Threads'
  BY ZenonT(40) DEF ClientInv, ThreadTypes, RoleTypes, Threads, BeatLock, roleVars,
     voteVars, threadVars, appVars
<1>6. Terms'
  BY Zenon DEF ClientInv, RoleTypes, Terms, Served, BeatLock, roleVars, voteVars,
     threadVars, appVars
<1>3. Settled'
  BY Zenon DEF ClientInv, ThreadTypes, RoleTypes, Threads, Settled, AllAnswered,
         BeatLock, roleVars, voteVars, threadVars, appVars
<1>4. /\ UNCHANGED <<voteVars, taken, answers>>
      /\ Served <= Served' /\ (st' = "Primary" => st = "Primary")
  BY ZenonT(40), ServedStays DEF ClientInv, BeatLock, roleVars, voteVars,
     threadVars, appVars
<1> QED
  BY Zenon, <1>1, <1>2, <1>3, <1>4, <1>6, QuietStep DEF ClientInv

\* SendNextVote asserts in HeartBeatLoop, with m_hbLock.
LEMMA BeatAssertsStep ==
    ASSUME ClientInv, BeatAsserts
    PROVE  ClientInv'
<1>1. ThreadTypes' /\ RoleTypes'
  BY DEF ClientInv, ThreadTypes, RoleTypes, BeatAsserts, roleVars, voteVars,
     threadVars, appVars
<1>2. Threads'
  BY ZenonT(40) DEF ClientInv, ThreadTypes, RoleTypes, Threads, BeatAsserts,
     roleVars, voteVars, threadVars, appVars
<1>6. Terms'
  BY Zenon DEF ClientInv, RoleTypes, Terms, Served, BeatAsserts, roleVars, voteVars,
     threadVars, appVars
<1>3. Settled'
  BY Zenon DEF ClientInv, ThreadTypes, RoleTypes, Threads, Settled, AllAnswered,
         BeatAsserts, roleVars, voteVars, threadVars, appVars
<1>4. /\ UNCHANGED <<voteVars, taken, answers>>
      /\ Served <= Served' /\ (st' = "Primary" => st = "Primary")
  BY ZenonT(40), ServedStays DEF ClientInv, BeatAsserts, roleVars, voteVars,
     threadVars, appVars
<1> QED
  BY Zenon, <1>1, <1>2, <1>3, <1>4, <1>6, QuietStep DEF ClientInv

\* ExecuteLoop takes m_callbackLock for the first vote.
LEMMA ExecuteTakeStep ==
    ASSUME ClientInv, ExecuteTake
    PROVE  ClientInv'
<1>1. ThreadTypes' /\ RoleTypes'
  BY DEF ClientInv, ThreadTypes, RoleTypes, ExecuteTake, roleVars, voteVars,
     threadVars, appVars
<1>2. Threads'
  BY ZenonT(40) DEF ClientInv, ThreadTypes, RoleTypes, Threads, ExecuteTake,
     roleVars, voteVars, threadVars, appVars
<1>6. Terms'
  BY Zenon DEF ClientInv, RoleTypes, Terms, Served, ExecuteTake, roleVars, voteVars,
     threadVars, appVars
<1>3. Settled'
  BY Zenon DEF ClientInv, ThreadTypes, RoleTypes, Threads, Settled, AllAnswered,
         ExecuteTake, roleVars, voteVars, threadVars, appVars
<1>4. /\ UNCHANGED <<voteVars, taken, answers>>
      /\ Served <= Served' /\ (st' = "Primary" => st = "Primary")
  BY ZenonT(40), ServedStays DEF ClientInv, ExecuteTake, roleVars, voteVars,
     threadVars, appVars
<1> QED
  BY Zenon, <1>1, <1>2, <1>3, <1>4, <1>6, QuietStep DEF ClientInv

\* Unload calls Stop when the loops have ended.
LEMMA StopCallStep ==
    ASSUME ClientInv, StopCall
    PROVE  ClientInv'
<1>1. ThreadTypes' /\ RoleTypes'
  BY DEF ClientInv, ThreadTypes, RoleTypes, StopCall, roleVars, voteVars,
     threadVars, appVars
<1>2. Threads'
  BY ZenonT(40) DEF ClientInv, ThreadTypes, RoleTypes, Threads, StopCall, roleVars,
     voteVars, threadVars, appVars
<1>6. Terms'
  BY Zenon DEF ClientInv, RoleTypes, Terms, Served, StopCall, roleVars, voteVars,
     threadVars, appVars
<1>3. Settled'
  BY Zenon DEF ClientInv, ThreadTypes, RoleTypes, Threads, Settled, AllAnswered,
         StopCall, roleVars, voteVars, threadVars, appVars
<1>4. /\ UNCHANGED <<voteVars, taken, answers>>
      /\ Served <= Served' /\ (st' = "Primary" => st = "Primary")
  BY ZenonT(40), ServedStays DEF ClientInv, StopCall, roleVars, voteVars,
     threadVars, appVars
<1> QED
  BY Zenon, <1>1, <1>2, <1>3, <1>4, <1>6, QuietStep DEF ClientInv

\* Stop finds the execution queue empty.
LEMMA StopDrainStep ==
    ASSUME ClientInv, StopDrain
    PROVE  ClientInv'
<1>1. ThreadTypes' /\ RoleTypes'
  BY DEF ClientInv, ThreadTypes, RoleTypes, StopDrain, roleVars, voteVars,
     threadVars, appVars
<1>2. Threads'
  BY ZenonT(40) DEF ClientInv, ThreadTypes, RoleTypes, Threads, StopDrain, roleVars,
     voteVars, threadVars, appVars
<1>6. Terms'
  BY Zenon DEF ClientInv, RoleTypes, Terms, Served, StopDrain, roleVars, voteVars,
     threadVars, appVars
<1>3. Settled'
  BY Zenon DEF ClientInv, ThreadTypes, RoleTypes, Threads, Settled, AllAnswered,
         StopDrain, roleVars, voteVars, threadVars, appVars
<1>4. /\ UNCHANGED <<voteVars, taken, answers>>
      /\ Served <= Served' /\ (st' = "Primary" => st = "Primary")
  BY ZenonT(40), ServedStays DEF ClientInv, StopDrain, roleVars, voteVars,
     threadVars, appVars
<1> QED
  BY Zenon, <1>1, <1>2, <1>3, <1>4, <1>6, QuietStep DEF ClientInv

\* Stop returns.
LEMMA StopDoneStep ==
    ASSUME ClientInv, StopDone
    PROVE  ClientInv'
<1>1. ThreadTypes' /\ RoleTypes'
  BY DEF ClientInv, ThreadTypes, RoleTypes, StopDone, roleVars, voteVars,
     threadVars, appVars
<1>2. Threads'
  BY ZenonT(40) DEF ClientInv, ThreadTypes, RoleTypes, Threads, StopDone, roleVars,
     voteVars, threadVars, appVars
<1>6. Terms'
  BY Zenon DEF ClientInv, RoleTypes, Terms, Served, StopDone, roleVars, voteVars,
     threadVars, appVars
<1>3. Settled'
  BY Zenon DEF ClientInv, ThreadTypes, RoleTypes, Threads, Settled, AllAnswered,
         StopDone, roleVars, voteVars, threadVars, appVars
<1>4. /\ UNCHANGED <<voteVars, taken, answers>>
      /\ Served <= Served' /\ (st' = "Primary" => st = "Primary")
  BY ZenonT(40), ServedStays DEF ClientInv, StopDone, roleVars, voteVars,
     threadVars, appVars
<1> QED
  BY Zenon, <1>1, <1>2, <1>3, <1>4, <1>6, QuietStep DEF ClientInv

-----------------------------------------------------------------------------
(* Steps on votes. *)

\* The numbers of CookieInv are numbers, and an empty count is an empty sequence.
LEMMA Counting ==
    ASSUME ClientInv, NEW c \in Cookie
    PROVE  Placed(c) /\ Counted(c) /\ Served \in Int /\ Calls(answers[c]) \in Nat
<1>1. CookieInv(c) /\ answers[c] \in Seq({"Execute", "Abort"})
  BY Zenon DEF ClientInv, VoteTypes
<1>2. Served \in Int
  BY DEF ClientInv, RoleTypes, Served
<1> QED
  BY Zenon, <1>1, <1>2, NoCalls DEF CookieInv

\* ReplicateRequest queues a cookie that nobody has seen before.
LEMMA ReplicateRequestStep ==
    ASSUME ClientInv, NEW d \in Cookie, ReplicateRequest(d)
    PROVE  ClientInv'
<1>1. /\ toSend' \in Seq(Seq(Cookie))
      /\ \A c : Held(toSend', c) <=> Held(toSend, c) \/ c = d
      /\ Apart(toSend')
  <2>1. toSend \in Seq(Seq(Cookie)) /\ Apart(toSend) /\ ~Held(toSend, d)
    BY Zenon DEF ClientInv, VoteTypes, VotesApart, CookieInv, Placed,
       ReplicateRequest
  <2>2. CASE toSend' = Append(toSend, <<d>>)
    <3>1. <<d>> \in Seq(Cookie) /\ \A c : c \in Range(<<d>>) <=> c = d
      BY DEF Range
    <3>2. \A c \in Cookie : c \in Range(<<d>>) => ~Held(toSend, c)
      BY Zenon, <2>1, <3>1
    <3>3. /\ Append(toSend, <<d>>) \in Seq(Seq(Cookie))
          /\ Apart(Append(toSend, <<d>>))
          /\ \A c : Held(Append(toSend, <<d>>), c) <=>
                       Held(toSend, c) \/ c \in Range(<<d>>)
      BY <2>1, <3>1, <3>2, HeldAppend, Zenon
    <3> QED
      BY <2>2, <3>1, <3>3, Zenon
  <2>3. CASE /\ toSend # <<>>
             /\ toSend' = [toSend EXCEPT ![Len(toSend)] = Append(@, d)]
    BY ZenonT(40), <2>1, <2>3, HeldJoin
  <2> QED
    BY ZenonT(40), <2>2, <2>3 DEF ReplicateRequest
<1>2. /\ UNCHANGED <<outVote, accVote, accMine, accPassed, execQ, answers>>
      /\ UNCHANGED <<independent, inverted, st, ballotMine, isPrimary, inTransit, mpc,
                     resume, hbLock, hpc, xpc, spc, isShutting, appPrimary, spent>>
      /\ isPrimary /\ ~isShutting /\ d \notin taken /\ taken' = taken \cup {d}
  BY ZenonT(40) DEF ReplicateRequest, roleVars, threadVars
<1>3. ThreadTypes' /\ RoleTypes' /\ VoteTypes'
  BY <1>1, <1>2 DEF ClientInv, ThreadTypes, RoleTypes, VoteTypes
<1>4. Threads' /\ Terms'
  BY Zenon, <1>2 DEF ClientInv, Threads, Terms, Served
<1>5. VotesApart' /\ Settled'
  BY Zenon, <1>1, <1>2 DEF ClientInv, VotesApart, Settled, Threads
<1>6. ASSUME NEW c \in Cookie PROVE CookieInv(c)'
  <2>1. Served' = Served /\ Served >= 1
    BY Zenon, <1>2 DEF ClientInv, Terms, Served
  <2>8. Placed(c)'
    BY ZenonT(40), <1>1, <1>2, <2>1, Counting DEF Placed
  <2>9. Counted(c)'
    BY <1>1, <1>2, <2>1, Counting DEF Placed, Counted
  <2> QED
    BY Zenon, <2>8, <2>9 DEF CookieInv
<1> QED
  BY ZenonT(40), <1>3, <1>4, <1>5, <1>6 DEF ClientInv

\* AbortReplicateRequests answers what is queued or outstanding.
LEMMA AbortEffect ==
    ASSUME ClientInv, AbortAll,
           UNCHANGED <<accVote, accMine, accPassed, execQ, taken, st, spent>>
    PROVE  /\ VoteTypes' /\ VotesApart' /\ \A c \in Cookie : CookieInv(c)'
           /\ AllAnswered => AllAnswered'
           /\ execQ = <<>> => AllAnswered'
<1>1. outVote' = <<>> /\ toSend' = <<>>
  BY Zenon DEF AbortAll
<1>2. ASSUME NEW c \in Cookie
      PROVE  answers'[c] = IF Held(outVote, c) \/ Held(toSend, c)
                           THEN Append(answers[c], "Abort") ELSE answers[c]
  <2>1. (\E v \in Range(outVote \o toSend) : c \in Range(v))
           <=> Held(outVote, c) \/ Held(toSend, c)
    BY Zenon, HeldConcat DEF ClientInv, VoteTypes
  <2> QED
    BY Zenon, <2>1 DEF AbortAll
<1>3. ASSUME NEW c \in Cookie
      PROVE  /\ answers'[c] \in Seq({"Execute", "Abort"})
             /\ Append(answers[c], "Abort") # <<>>
             /\ Calls(Append(answers[c], "Abort")) = Calls(answers[c]) + 1
             /\ Executed(Append(answers[c], "Abort")) <=> Executed(answers[c])
             /\ ExecutedOnce(answers[c]) =>
                   ExecutedOnce(Append(answers[c], "Abort"))
  <2>1. "Abort" \in {"Execute", "Abort"}
    BY Zenon
  <2> QED
    BY ZenonT(40), <1>2, <2>1, AnswerAppend DEF ClientInv, VoteTypes
<1>4. answers' \in [Cookie -> Seq({"Execute", "Abort"})]
  BY Zenon, <1>3 DEF AbortAll
<1>5. VoteTypes' /\ VotesApart'
  <2>1. Apart(<<>>)
    BY Zenon, HeldEmpty
  <2>2. VoteTypes'
    BY <1>1, <1>4 DEF ClientInv, VoteTypes
  <2>3. VotesApart'
    BY Zenon, <1>1, <2>1 DEF ClientInv, VotesApart
  <2> QED
    BY Zenon, <2>2, <2>3
<1>6. ASSUME NEW c \in Cookie PROVE CookieInv(c)'
  <2>1. Served' = Served /\ ~Held(outVote', c) /\ ~Held(toSend', c)
    BY Zenon, <1>1, HeldEmpty DEF Served
  <2>2. CASE Held(outVote, c) \/ Held(toSend, c)
    <3>1. /\ Calls(answers'[c]) = Calls(answers[c]) + 1
          /\ Executed(answers'[c]) <=> Executed(answers[c])
          /\ ExecutedOnce(answers[c]) => ExecutedOnce(answers'[c])
      BY ZenonT(40), <1>2, <1>3, <2>2
    <3>2. Calls(answers[c]) \in Nat /\ Calls(answers'[c]) # 0
      <4>1. \A n \in Nat : n + 1 # 0
        OBVIOUS
      <4> QED
        BY ZenonT(40), <3>1, <4>1, Counting
    <3>8. Placed(c)'
      BY ZenonT(40), <2>1, <2>2, <3>1, <3>2, Counting DEF Placed
    <3>9. Counted(c)'
      BY <2>1, <2>2, <3>1, Counting DEF Placed, Counted
    <3> QED
      BY Zenon, <3>8, <3>9 DEF CookieInv
  <2>3. CASE ~(Held(outVote, c) \/ Held(toSend, c))
    <3>1. answers'[c] = answers[c]
      BY ZenonT(40), <1>2, <2>3
    <3>8. Placed(c)'
      BY <2>1, <2>3, <3>1, Counting DEF Placed
    <3>9. Counted(c)'
      BY ZenonT(40), <2>1, <2>3, <3>1, Counting DEF Placed, Counted
    <3> QED
      BY Zenon, <3>8, <3>9 DEF CookieInv
  <2> QED
    BY Zenon, <2>2, <2>3
<1>7. taken \subseteq Cookie
  BY Zenon DEF ClientInv, VoteTypes
<1>8. AllAnswered => AllAnswered'
  BY ZenonT(40), <1>2, <1>3, <1>7 DEF AllAnswered
<1>9. ASSUME execQ = <<>> PROVE AllAnswered'
  <2> SUFFICES ASSUME NEW c \in Cookie, c \in taken PROVE answers'[c] # <<>>
    BY Zenon, <1>7 DEF AllAnswered
  <2>1. ~Held(execQ, c)
    BY Zenon, <1>9, HeldEmpty
  <2>2. answers[c] = <<>> <=> Calls(answers[c]) = 0
    BY Zenon, NoCalls DEF ClientInv, VoteTypes
  <2>3. answers[c] # <<>> \/ Held(outVote, c) \/ Held(toSend, c)
    BY Zenon, <2>1, <2>2, Counting DEF Placed, Counted
  <2> QED
    BY ZenonT(40), <1>2, <1>3, <2>3
<1> QED
  BY ZenonT(40), <1>5, <1>6, <1>8, <1>9

\* The primary that was lost answers what it had taken.
LEMMA MainAbortStep ==
    ASSUME ClientInv, MainAbort
    PROVE  ClientInv'
<1>1. /\ execQ = <<>>
      /\ UNCHANGED <<accVote, accMine, accPassed, execQ, taken, st, spent>>
  BY Zenon DEF ClientInv, Threads, MainAbort
<1>2. VoteTypes' /\ VotesApart' /\ AllAnswered' /\ \A c \in Cookie : CookieInv(c)'
  BY ZenonT(40), <1>1, AbortEffect DEF MainAbort
<1>3. ThreadTypes' /\ RoleTypes'
  <2>1. inTransit' \in BOOLEAN /\ appPrimary' \in BOOLEAN
    BY Zenon DEF MainAbort
  <2> QED
    BY <2>1 DEF ClientInv, ThreadTypes, RoleTypes, MainAbort
<1>4. Threads' /\ Terms'
  BY Zenon DEF ClientInv, ThreadTypes, Threads, Terms, Served, MainAbort, AbortAll
<1>5. Settled'
  BY Zenon, <1>2 DEF Settled
<1> QED
  BY ZenonT(40), <1>2, <1>3, <1>4, <1>5 DEF ClientInv

\* Stop answers what is left.
LEMMA StopAbortStep ==
    ASSUME ClientInv, StopAbort
    PROVE  ClientInv'
<1>1. UNCHANGED <<accVote, accMine, accPassed, execQ, taken, st, spent>>
  BY Zenon DEF StopAbort, roleVars
<1>2. /\ VoteTypes' /\ VotesApart' /\ (AllAnswered => AllAnswered')
      /\ (execQ = <<>> => AllAnswered') /\ \A c \in Cookie : CookieInv(c)'
  BY ZenonT(40), <1>1, AbortEffect DEF StopAbort
<1>3. ThreadTypes' /\ RoleTypes'
  BY DEF ClientInv, ThreadTypes, RoleTypes, StopAbort, roleVars
<1>4. Threads' /\ Terms'
  BY ZenonT(40) DEF ClientInv, ThreadTypes, Threads, Terms, Served, StopAbort,
     AbortAll, roleVars
<1>5. Settled'
  BY Zenon, <1>2 DEF ClientInv, Threads, Settled, StopAbort, roleVars
<1> QED
  BY ZenonT(40), <1>2, <1>3, <1>4, <1>5 DEF ClientInv

\* A vote of another primary: the accepted vote that is queued for execution
\* was another primary's too, and has no cookie.
LEMMA AcceptEffect ==
    ASSUME ClientInv, AcceptOthersVote, RoleTypes',
           spent'.terms = spent.terms, UNCHANGED <<toSend, outVote, taken, answers>>
    PROVE  /\ VoteTypes' /\ VotesApart' /\ \A c \in Cookie : CookieInv(c)'
           /\ execQ' = <<>> => execQ = <<>>
<1>1. /\ execQ' \in Seq(Seq(Cookie)) /\ Apart(execQ') /\ accPassed' \in BOOLEAN
      /\ \A c \in Cookie : Held(execQ', c) <=> Held(execQ, c)
      /\ execQ' = <<>> => execQ = <<>>
  <2>1. execQ \in Seq(Seq(Cookie)) /\ Apart(execQ) /\ accPassed \in BOOLEAN
    BY Zenon DEF ClientInv, VoteTypes, VotesApart
  <2>2. CASE UNCHANGED <<execQ, accPassed>>
    BY Zenon, <2>1, <2>2
  <2>3. CASE ~accMine /\ EnqueueVote(accVote) /\ accPassed' = FALSE
    <3>1. accVote = <<>>
      BY Zenon, <2>3 DEF ClientInv, VotesApart
    <3>2. execQ' = execQ \/ execQ' = Append(execQ, <<>>)
      BY Zenon, <2>3, <3>1 DEF EnqueueVote
    <3>3. <<>> \in Seq(Cookie) /\ \A c : c \notin Range(<<>>)
      BY RangeEmpty
    <3>4. /\ Append(execQ, <<>>) \in Seq(Seq(Cookie)) /\ Apart(Append(execQ, <<>>))
          /\ \A c : Held(Append(execQ, <<>>), c) <=> Held(execQ, c)
      BY <2>1, <3>3, HeldAppend, Zenon
    <3>5. Append(execQ, <<>>) # <<>>
      BY <2>1
    <3>6. accPassed' \in BOOLEAN
      BY <2>3, Zenon
    <3> QED
      BY ZenonT(40), <2>1, <3>2, <3>4, <3>5, <3>6
  <2> QED
    BY Zenon, <2>2, <2>3 DEF AcceptOthersVote
<1>2. accVote' = <<>> /\ accMine' = FALSE /\ st' = "Secondary"
  BY Zenon DEF AcceptOthersVote
<1>3. VoteTypes'
  <2>1. accMine' \in BOOLEAN
    BY <1>2, Zenon
  <2>2. accVote' \in Seq(Cookie)
    BY <1>2
  <2> QED
    BY ZenonT(40), <1>1, <2>1, <2>2 DEF ClientInv, VoteTypes
<1>4. VotesApart'
  BY Zenon, <1>1, <1>2 DEF ClientInv, VotesApart
<1>5. ASSUME NEW c \in Cookie PROVE CookieInv(c)'
  <2>1. c \notin Range(accVote')
    BY Zenon, <1>2, RangeEmpty
  <2>2. Served' \in Int /\ Served <= Served'
    BY <1>2 DEF ClientInv, RoleTypes, Served
  <2>8. Placed(c)'
    BY ZenonT(40), <1>1, <2>1, <2>2, Counting DEF Placed
  <2>9. Counted(c)'
    BY <1>1, <2>1, <2>2, Counting DEF Placed, Counted
  <2> QED
    BY Zenon, <2>8, <2>9 DEF CookieInv
<1> QED
  BY ZenonT(40), <1>1, <1>3, <1>4, <1>5

\* HandleNewVotes accepts the vote of another primary.
LEMMA HandleVoteStep ==
    ASSUME ClientInv, HandleVote
    PROVE  ClientInv'
<1>1. /\ spent' \in [terms : Nat, others : Nat, beats : Nat]
      /\ spent.terms \in Nat /\ spent'.terms = spent.terms
  BY Zenon, SpendTypes DEF ClientInv, HandleVote
<1>2. ThreadTypes' /\ RoleTypes'
  <2>1. ballotMine' \in BOOLEAN
    BY Zenon DEF HandleVote, AcceptOthersVote
  <2> QED
    BY <1>1, <2>1 DEF ClientInv, ThreadTypes, RoleTypes, HandleVote,
                      AcceptOthersVote, threadVars, appVars
<1>3. /\ VoteTypes' /\ VotesApart' /\ (execQ' = <<>> => execQ = <<>>)
      /\ \A c \in Cookie : CookieInv(c)'
  BY ZenonT(40), <1>1, <1>2, AcceptEffect DEF HandleVote, appVars
<1>4. Threads'
  BY ZenonT(40), <1>3 DEF ClientInv, ThreadTypes, RoleTypes, Threads, HandleVote,
              AcceptOthersVote, threadVars, appVars
<1>5. Terms'
  BY Zenon, <1>1 DEF ClientInv, RoleTypes, Terms, Served, HandleVote,
     AcceptOthersVote
<1>6. Settled'
  BY ZenonT(40) DEF ClientInv, Settled, AllAnswered, HandleVote, threadVars, appVars
<1> QED
  BY ZenonT(40), <1>2, <1>3, <1>4, <1>5, <1>6 DEF ClientInv

\* The vote that overtook its prepare is accepted after NotifyStatus(false).
LEMMA AcceptAfterInversionStep ==
    ASSUME ClientInv, AcceptAfterInversion
    PROVE  ClientInv'
<1>2. ThreadTypes' /\ RoleTypes'
  <2>1. ballotMine' \in BOOLEAN
    BY Zenon DEF AcceptAfterInversion, AcceptOthersVote
  <2> QED
    BY <2>1 DEF ClientInv, ThreadTypes, RoleTypes, AcceptAfterInversion,
                AcceptOthersVote, appVars
<1>3. /\ VoteTypes' /\ VotesApart' /\ (execQ' = <<>> => execQ = <<>>)
      /\ \A c \in Cookie : CookieInv(c)'
  BY ZenonT(40), <1>2, AcceptEffect DEF AcceptAfterInversion, appVars
<1>4. Threads'
  BY Zenon, <1>3 DEF ClientInv, ThreadTypes, RoleTypes, Threads,
     AcceptAfterInversion,
              AcceptOthersVote, appVars
<1>5. Terms'
  BY Zenon DEF ClientInv, RoleTypes, Terms, Served, AcceptAfterInversion,
     AcceptOthersVote
<1>6. Settled'
  BY Zenon DEF ClientInv, Settled, AllAnswered, AcceptAfterInversion, appVars
<1> QED
  BY Zenon, <1>2, <1>3, <1>4, <1>5, <1>6 DEF ClientInv

\* The accepted vote passes.
LEMMA HandleVoteAcceptedStep ==
    ASSUME ClientInv, HandleVoteAccepted
    PROVE  ClientInv'
<1>1. /\ mpc = "msgs" /\ st = "Primary" /\ outVote = <<accVote>> /\ outVote' = <<>>
      /\ execQ' = IF accPassed THEN execQ ELSE Append(execQ, accVote)
      /\ accPassed' = TRUE
      /\ UNCHANGED <<independent, inverted, isShutting, mpc, resume, hbLock, hpc,
                     xpc, spc>>
      /\ UNCHANGED <<st, ballotMine, isPrimary, inTransit, appPrimary, spent>>
      /\ UNCHANGED <<toSend, accVote, accMine, taken, answers>>
  BY Zenon DEF ClientInv, VotesApart, HandleVoteAccepted, EnqueueVote, roleVars,
         threadVars, appVars
<1>2. /\ execQ \in Seq(Seq(Cookie)) /\ Apart(execQ) /\ accVote \in Seq(Cookie)
      /\ accPassed \in BOOLEAN
  BY Zenon DEF ClientInv, VoteTypes, VotesApart
<1>3. /\ execQ' \in Seq(Seq(Cookie)) /\ Apart(execQ')
      /\ \A c \in Cookie : Held(execQ', c) <=>
            Held(execQ, c) \/ (~accPassed /\ c \in Range(accVote))
      /\ execQ' = <<>> => execQ = <<>>
  <2>1. CASE accPassed
    BY Zenon, <1>1, <1>2, <2>1
  <2>2. CASE ~accPassed
    <3>1. \A c \in Cookie : c \in Range(accVote) => ~Held(execQ, c)
      BY Zenon, <2>2 DEF ClientInv, CookieInv, Placed
    <3>2. execQ' = Append(execQ, accVote)
      BY ZenonT(40), <1>1, <2>2
    <3>3. Append(execQ, accVote) # <<>>
      BY <1>2
    <3> QED
      BY <1>2, <2>2, <3>1, <3>2, <3>3, HeldAppend, Zenon
  <2> QED
    BY Zenon, <2>1, <2>2
<1>4. ThreadTypes' /\ RoleTypes' /\ VoteTypes'
  BY <1>1, <1>3 DEF ClientInv, ThreadTypes, RoleTypes, VoteTypes
<1>5. Threads' /\ Terms'
  BY Zenon, <1>1, <1>3 DEF ClientInv, Threads, Terms, Served
<1>6. VotesApart' /\ Settled'
  BY ZenonT(40), <1>1, <1>3 DEF ClientInv, VotesApart, Settled, AllAnswered
<1>7. ASSUME NEW c \in Cookie PROVE CookieInv(c)'
  <2>1. (Held(outVote, c) <=> c \in Range(accVote)) /\ ~Held(outVote', c)
    BY ZenonT(40), <1>1, HeldOne, HeldEmpty
  <2>2. Served' = Served
    BY Zenon, <1>1 DEF Served
  <2>8. Placed(c)'
    BY ZenonT(40), <1>1, <1>2, <1>3, <2>1, <2>2, Counting DEF Placed
  <2>9. Counted(c)'
    BY ZenonT(40), <1>1, <1>2, <1>3, <2>1, <2>2, Counting DEF Placed, Counted
  <2> QED
    BY Zenon, <2>8, <2>9 DEF CookieInv
<1> QED
  BY ZenonT(40), <1>4, <1>5, <1>6, <1>7 DEF ClientInv

\* StartBeingStablePrimary: nothing taken is unanswered, and the accepted vote
\* may be proposed again with its cookies.
LEMMA BecomePrimaryStep ==
    ASSUME ClientInv, BecomePrimary
    PROVE  ClientInv'
<1>1. /\ mpc = "msgs" /\ st = "Preparing" /\ isPrimary = FALSE
      /\ st' = "Primary" /\ accMine' = TRUE /\ inTransit' = TRUE
      /\ outVote' = <<accVote'>> /\ accVote' \in {accVote, <<>>}
      /\ UNCHANGED <<independent, inverted, isShutting, mpc, resume, hbLock, hpc,
                     xpc, spc>>
      /\ UNCHANGED <<ballotMine, isPrimary, appPrimary, spent>>
      /\ UNCHANGED <<toSend, accPassed, execQ, taken, answers>>
  BY Zenon DEF ClientInv, RoleTypes, BecomePrimary, threadVars, appVars
<1>2. VoteTypes /\ RoleTypes /\ Settled /\ Threads
  BY Zenon DEF ClientInv
<1>3. ThreadTypes' /\ RoleTypes'
  BY <1>1 DEF ClientInv, ThreadTypes, RoleTypes
<1>4. VoteTypes'
  <2>1. accVote' \in Seq(Cookie)
    <3>1. accVote \in Seq(Cookie) /\ <<>> \in Seq(Cookie)
      BY <1>2 DEF VoteTypes
    <3> QED
      BY Zenon, <1>1, <3>1
  <2>2. outVote' \in Seq(Seq(Cookie)) /\ accMine' \in BOOLEAN
    BY <1>1, <2>1
  <2> QED
    BY ZenonT(40), <1>1, <1>2, <2>1, <2>2 DEF VoteTypes
<1>5. Threads' /\ Terms'
  BY Zenon, <1>1 DEF ClientInv, RoleTypes, Threads, Terms, Served
<1>6. VotesApart' /\ Settled' /\ AllAnswered
  BY ZenonT(40), <1>1 DEF ClientInv, VotesApart, Settled, AllAnswered
<1>7. ASSUME NEW c \in Cookie PROVE CookieInv(c)'
  <2>1. /\ Held(outVote', c) <=> c \in Range(accVote')
        /\ c \in Range(accVote') => c \in Range(accVote)
    BY ZenonT(40), <1>1, HeldOne, RangeEmpty
  <2>2. Served' = Served + 1
    BY <1>1, <1>2 DEF Served, RoleTypes
  <2>3. c \in taken => Calls(answers[c]) # 0
    BY <1>2, <1>6, NoCalls DEF AllAnswered, VoteTypes
  <2>8. Placed(c)'
    BY ZenonT(40), <1>1, <2>1, <2>2, <2>3, Counting DEF Placed
  <2>9. Counted(c)'
    BY <1>1, <2>1, <2>2, <2>3, Counting DEF Placed, Counted
  <2> QED
    BY Zenon, <2>8, <2>9 DEF CookieInv
<1> QED
  BY ZenonT(40), <1>3, <1>4, <1>5, <1>6, <1>7 DEF ClientInv

\* SendNextVote of the first queued vote.  With no vote in the queue the main
\* thread only releases m_hbLock.
LEMMA MainSendStep ==
    ASSUME ClientInv, MainSend
    PROVE  ClientInv'
<1>1. /\ mpc = "send" /\ outVote = <<>> /\ st = "Primary" /\ isPrimary
      /\ hbLock' = "free" /\ mpc' = "top"
      /\ UNCHANGED <<independent, inverted, isShutting, resume, hpc, xpc, spc>>
      /\ UNCHANGED <<st, ballotMine, isPrimary, inTransit, appPrimary, spent>>
      /\ UNCHANGED <<execQ, taken, answers>>
  BY Zenon DEF ClientInv, Threads, MainSend, roleVars, appVars
<1>2. ThreadTypes' /\ RoleTypes'
  BY <1>1 DEF ClientInv, ThreadTypes, RoleTypes
<1>3. Threads' /\ Terms'
  BY Zenon, <1>1 DEF ClientInv, ThreadTypes, Threads, Terms, Served
<1>4. Settled' /\ Served' = Served
  BY Zenon, <1>1 DEF ClientInv, Threads, Settled, AllAnswered, Served
<1>5. CASE /\ toSend = <<>>
           /\ UNCHANGED <<toSend, outVote, accVote, accMine, accPassed>>
  <2>1. UNCHANGED <<voteVars, taken, answers>> /\ Served <= Served'
    BY <1>1, <1>4, <1>5 DEF voteVars, Served, ClientInv, RoleTypes
  <2> QED
    BY ZenonT(40), <1>1, <1>2, <1>3, <1>4, <2>1, QuietStep DEF ClientInv
<1>6. CASE toSend # <<>> /\ SendVote(Head(toSend)) /\ toSend' = Tail(toSend)
  <2>1. toSend \in Seq(Seq(Cookie)) /\ Apart(toSend)
    BY Zenon DEF ClientInv, VoteTypes, VotesApart
  <2>2. /\ toSend' \in Seq(Seq(Cookie)) /\ accVote' \in Seq(Cookie)
        /\ \A c : Held(toSend, c) <=> c \in Range(accVote') \/ Held(toSend', c)
        /\ Apart(toSend')
        /\ \A c \in Cookie : c \in Range(accVote') => ~Held(toSend', c)
    <3>1. accVote' = Head(toSend)
      BY Zenon, <1>6 DEF SendVote
    <3> QED
      BY <1>6, <2>1, <3>1, HeldHead, Zenon
  <2>3. outVote' = <<accVote'>> /\ accMine' = TRUE /\ accPassed' = FALSE
    BY Zenon, <1>6 DEF SendVote
  <2>4. VoteTypes'
    <3>1. outVote' \in Seq(Seq(Cookie))
      BY <2>2, <2>3
    <3>2. accMine' \in BOOLEAN /\ accPassed' \in BOOLEAN
      BY <2>3, Zenon
    <3> QED
      BY ZenonT(40), <1>1, <2>2, <3>1, <3>2 DEF ClientInv, VoteTypes
  <2>5. VotesApart'
    BY ZenonT(40), <1>1, <2>2, <2>3 DEF ClientInv, VotesApart
  <2>6. ASSUME NEW c \in Cookie PROVE CookieInv(c)'
    <3>1. ~Held(outVote, c) /\ (Held(outVote', c) <=> c \in Range(accVote'))
      BY ZenonT(40), <1>1, <2>3, HeldEmpty, HeldOne
    <3>2. Calls(answers[c]) = 0 => ~Executed(answers[c])
      <4>1. Calls(answers[c]) = 0 => answers[c] = <<>>
        BY Zenon, NoCalls DEF ClientInv, VoteTypes
      <4> QED
        BY <4>1 DEF Executed
    <3>8. Placed(c)'
      BY ZenonT(40), <1>1, <1>4, <2>2, <2>3, <3>1, <3>2, Counting DEF Placed
    <3>9. Counted(c)'
      BY ZenonT(40), <1>1, <1>4, <2>2, <2>3, <3>1, <3>2, Counting
         DEF Placed, Counted
    <3> QED
      BY Zenon, <3>8, <3>9 DEF CookieInv
  <2> QED
    BY ZenonT(40), <1>2, <1>3, <1>4, <2>4, <2>5, <2>6 DEF ClientInv
<1> QED
  BY ZenonT(40), <1>5, <1>6 DEF MainSend

\* A heartbeat has no cookie, and no vote is outstanding when it is sent.
LEMMA BeatSendStep ==
    ASSUME ClientInv, BeatSend
    PROVE  ClientInv'
<1>1. /\ hpc = "send" /\ hbLock = "hb" /\ hpc' = "idle" /\ hbLock' = "free"
      /\ UNCHANGED <<independent, inverted, isShutting, mpc, resume, xpc, spc>>
      /\ UNCHANGED <<st, ballotMine, isPrimary, inTransit, appPrimary, spent>>
      /\ UNCHANGED <<execQ, taken, answers>>
  BY Zenon DEF ClientInv, Threads, BeatSend, roleVars, appVars
<1>2. ThreadTypes' /\ RoleTypes'
  BY <1>1 DEF ClientInv, ThreadTypes, RoleTypes
<1>3. Threads' /\ Terms'
  BY ZenonT(40), <1>1 DEF ClientInv, ThreadTypes, Threads, Terms, Served
<1>4. Settled' /\ Served' = Served
  BY Zenon, <1>1 DEF ClientInv, Settled, AllAnswered, Served
<1>5. CASE independent /\ SendVote(<<>>) /\ UNCHANGED toSend
  <2>1. /\ outVote = <<>> /\ outVote' = <<accVote'>> /\ accVote' = <<>>
        /\ accMine' = TRUE /\ accPassed' = FALSE
    BY Zenon, <1>1, <1>5 DEF ClientInv, Threads, SendVote
  <2>2. VoteTypes'
    <3>1. outVote' \in Seq(Seq(Cookie)) /\ accVote' \in Seq(Cookie)
      BY <2>1
    <3>2. accMine' \in BOOLEAN /\ accPassed' \in BOOLEAN
      BY <2>1, Zenon
    <3> QED
      BY ZenonT(40), <1>1, <1>5, <3>1, <3>2 DEF ClientInv, VoteTypes
  <2>3. VotesApart'
    BY ZenonT(40), <1>1, <1>5, <2>1 DEF ClientInv, VotesApart
  <2>4. ASSUME NEW c \in Cookie PROVE CookieInv(c)'
    <3>1. ~Held(outVote, c) /\ c \notin Range(accVote') /\ ~Held(outVote', c)
      BY ZenonT(40), <2>1, HeldEmpty, HeldOne, RangeEmpty
    <3>8. Placed(c)'
      BY ZenonT(40), <1>1, <1>4, <1>5, <2>1, <3>1, Counting DEF Placed
    <3>9. Counted(c)'
      BY ZenonT(40), <1>1, <1>4, <1>5, <2>1, <3>1, Counting DEF Placed, Counted
    <3> QED
      BY Zenon, <3>8, <3>9 DEF CookieInv
  <2> QED
    BY Zenon, <1>2, <1>3, <1>4, <2>2, <2>3, <2>4 DEF ClientInv
<1>6. CASE /\ ~independent /\ toSend' = Append(toSend, <<>>)
           /\ UNCHANGED <<outVote, accVote, accMine, accPassed>>
  <2>1. toSend \in Seq(Seq(Cookie)) /\ Apart(toSend)
    BY Zenon DEF ClientInv, VoteTypes, VotesApart
  <2>2. <<>> \in Seq(Cookie) /\ \A c : c \notin Range(<<>>)
    BY RangeEmpty
  <2>3. /\ toSend' \in Seq(Seq(Cookie)) /\ Apart(toSend')
        /\ \A c : Held(toSend', c) <=> Held(toSend, c)
    BY <1>6, <2>1, <2>2, HeldAppend, Zenon
  <2>4. VoteTypes' /\ VotesApart'
    BY ZenonT(40), <1>1, <1>6, <2>3 DEF ClientInv, VoteTypes, VotesApart
  <2>5. ASSUME NEW c \in Cookie PROVE CookieInv(c)'
    <3>8. Placed(c)'
      BY ZenonT(40), <1>1, <1>4, <1>6, <2>3, Counting DEF Placed
    <3>9. Counted(c)'
      BY ZenonT(40), <1>1, <1>4, <1>6, <2>3, Counting DEF Placed, Counted
    <3> QED
      BY Zenon, <3>8, <3>9 DEF CookieInv
  <2> QED
    BY ZenonT(40), <1>2, <1>3, <1>4, <2>4, <2>5 DEF ClientInv
<1> QED
  BY Zenon, <1>5, <1>6 DEF BeatSend

\* The first vote of the execution queue is executed.
LEMMA ExecuteStep ==
    ASSUME ClientInv, ExecuteReplicatedRequests
    PROVE  ClientInv'
<1>1. /\ xpc = "exec" /\ execQ # <<>> /\ execQ' = Tail(execQ) /\ xpc' = "top"
      /\ UNCHANGED <<independent, inverted, isShutting, mpc, resume, hbLock, hpc,
                     spc>>
      /\ UNCHANGED <<st, ballotMine, isPrimary, inTransit, appPrimary, spent>>
      /\ UNCHANGED <<toSend, outVote, accVote, accMine, accPassed, taken>>
  BY Zenon DEF ClientInv, Threads, ExecuteReplicatedRequests, roleVars
<1>2. /\ execQ' \in Seq(Seq(Cookie)) /\ Apart(execQ')
      /\ \A c : Held(execQ, c) <=> c \in Range(Head(execQ)) \/ Held(execQ', c)
      /\ \A c \in Cookie : c \in Range(Head(execQ)) => ~Held(execQ', c)
  <2>1. execQ \in Seq(Seq(Cookie)) /\ Apart(execQ)
    BY Zenon DEF ClientInv, VoteTypes, VotesApart
  <2> QED
    BY <1>1, <2>1, HeldHead, Zenon
<1>3. ASSUME NEW c \in Cookie
      PROVE  answers'[c] = IF c \in Range(Head(execQ))
                           THEN Append(answers[c], "Execute") ELSE answers[c]
  BY Zenon DEF ExecuteReplicatedRequests
<1>4. ASSUME NEW c \in Cookie
      PROVE  /\ answers'[c] \in Seq({"Execute", "Abort"})
             /\ Append(answers[c], "Execute") # <<>>
             /\ Calls(Append(answers[c], "Execute")) = Calls(answers[c]) + 1
             /\ ExecutedOnce(answers[c]) /\ ~Executed(answers[c]) =>
                    ExecutedOnce(Append(answers[c], "Execute"))
  <2>1. "Execute" \in {"Execute", "Abort"}
    BY Zenon
  <2> QED
    BY Zenon, <1>3, <2>1, AnswerAppend DEF ClientInv, VoteTypes
<1>5. answers' \in [Cookie -> Seq({"Execute", "Abort"})]
  BY ZenonT(40), <1>4 DEF ExecuteReplicatedRequests
<1>6. ThreadTypes' /\ RoleTypes' /\ VoteTypes'
  BY <1>1, <1>2, <1>5 DEF ClientInv, ThreadTypes, RoleTypes, VoteTypes
<1>7. Threads' /\ Terms' /\ VotesApart'
  BY ZenonT(40), <1>1, <1>2 DEF ClientInv, Threads, Terms, Served, VotesApart
<1>8. Settled'
  <2>1. AllAnswered => AllAnswered'
    BY Zenon, <1>1, <1>3, <1>4 DEF ClientInv, VoteTypes, AllAnswered
  <2> QED
    BY Zenon, <1>1, <2>1 DEF ClientInv, Settled
<1>9. ASSUME NEW c \in Cookie PROVE CookieInv(c)'
  <2>1. /\ Served' = Served
        /\ UNCHANGED <<toSend, outVote, accVote, accPassed, taken>>
        /\ Held(execQ, c) <=> c \in Range(Head(execQ)) \/ Held(execQ', c)
        /\ c \in Range(Head(execQ)) => ~Held(execQ', c)
    BY ZenonT(40), <1>1, <1>2 DEF Served
  <2>2. CASE c \in Range(Head(execQ))
    <3>1. /\ Calls(answers'[c]) = Calls(answers[c]) + 1
          /\ ExecutedOnce(answers[c]) /\ ~Executed(answers[c]) =>
                ExecutedOnce(answers'[c])
      BY Zenon, <1>3, <1>4, <2>2
    <3>2. Calls(answers[c]) \in Nat /\ Calls(answers'[c]) # 0
      <4>1. \A n \in Nat : n + 1 # 0
        OBVIOUS
      <4> QED
        BY Zenon, <3>1, <4>1, Counting
    <3>8. Placed(c)'
      BY ZenonT(40), <2>1, <2>2, <3>1, <3>2, Counting DEF Placed
    <3>9. Counted(c)'
      BY <2>1, <2>2, <3>1, Counting DEF Placed, Counted
    <3> QED
      BY Zenon, <3>8, <3>9 DEF CookieInv
  <2>3. CASE c \notin Range(Head(execQ))
    <3>1. answers'[c] = answers[c]
      BY ZenonT(40), <1>3, <2>3
    <3>8. Placed(c)'
      BY <2>1, <2>3, <3>1, Counting DEF Placed
    <3>9. Counted(c)'
      BY Zenon, <2>1, <2>3, <3>1, Counting DEF Placed, Counted
    <3> QED
      BY Zenon, <3>8, <3>9 DEF CookieInv
  <2> QED
    BY Zenon, <2>2, <2>3
<1> QED
  BY ZenonT(40), <1>6, <1>7, <1>8, <1>9 DEF ClientInv

-----------------------------------------------------------------------------
(* The theorems about client requests. *)

\* InitClientRequests: nothing is queued, taken or answered.
LEMMA ClientInit ==
    ASSUME InitClientRequests PROVE ClientInv
<1>1. ThreadTypes /\ RoleTypes
  BY Zenon DEF InitClientRequests, ThreadTypes, RoleTypes
<1>2. VoteTypes
  <2>1. accMine \in BOOLEAN /\ accPassed \in BOOLEAN
    BY Zenon DEF InitClientRequests
  <2>2. <<>> \in Seq(Seq(Cookie)) /\ <<>> \in Seq(Cookie)
    OBVIOUS
  <2>3. answers \in [Cookie -> Seq({"Execute", "Abort"})]
    BY DEF InitClientRequests
  <2> QED
    BY Zenon, <2>1, <2>2, <2>3 DEF InitClientRequests, VoteTypes
<1>3. Threads /\ Terms /\ Settled
  BY Zenon DEF InitClientRequests, Threads, Terms, Settled, AllAnswered, Served
<1>4. VotesApart
  BY Zenon, HeldEmpty DEF InitClientRequests, VotesApart
<1>5. ASSUME NEW c \in Cookie PROVE CookieInv(c)
  <2>1. /\ ~Held(toSend, c) /\ ~Held(outVote, c) /\ ~Held(execQ, c)
        /\ c \notin Range(accVote)
    BY Zenon, HeldEmpty, RangeEmpty DEF InitClientRequests
  <2>2. answers[c] = <<>> /\ c \notin taken /\ Served = 0
    BY Zenon DEF InitClientRequests, Served
  <2>3. /\ ExecutedOnce(answers[c]) /\ ~Executed(answers[c])
        /\ Calls(answers[c]) = 0
    BY <2>2 DEF ExecutedOnce, Executed, Calls
  <2>8. Placed(c)
    BY ZenonT(40), <2>1, <2>2, <2>3 DEF Placed
  <2>9. Counted(c)
    BY <2>1, <2>2, <2>3 DEF Placed, Counted
  <2> QED
    BY Zenon, <2>8, <2>9 DEF CookieInv
<1> QED
  BY ZenonT(40), <1>1, <1>2, <1>3, <1>4, <1>5 DEF ClientInv

\* Every step keeps the invariant.
LEMMA ClientStep ==
    ASSUME ClientInv, [NextClientRequests]_clientVars PROVE ClientInv'
<1>1. CASE UNCHANGED clientVars
  <2>1. /\ UNCHANGED <<independent, inverted, isShutting, roleVars, threadVars,
                       appPrimary, spent>>
        /\ UNCHANGED <<voteVars, taken, answers>>
    BY Zenon, <1>1 DEF clientVars, appVars
  <2>2. ThreadTypes' /\ RoleTypes'
    BY <2>1 DEF ClientInv, ThreadTypes, RoleTypes, roleVars, threadVars
  <2>3. Threads' /\ Terms' /\ Settled'
    BY ZenonT(40), <2>1 DEF ClientInv, Threads, Terms, Settled, AllAnswered, Served,
       roleVars,
                voteVars, threadVars
  <2>4. Served <= Served' /\ UNCHANGED st
    BY <2>1 DEF ClientInv, RoleTypes, Served, roleVars
  <2> QED
    BY ZenonT(40), <2>1, <2>2, <2>3, <2>4, QuietStep DEF ClientInv
<1>2. CASE \E c \in Cookie : ReplicateRequest(c)
  BY Zenon, <1>2, ReplicateRequestStep
<1>3. CASE HandleMessages
  BY ZenonT(40), <1>3, HandleVoteAcceptedStep, HandlePrepareStep, HandleVoteStep,
     HandleVoteInversionStep, StartPrepareStep, BecomePrimaryStep DEF HandleMessages
<1>4. CASE MainLoopStep \/ MainEnd
  BY ZenonT(40), <1>4, MainTopStep, MainWaitStep, MainLockHbStep, MainNotifyStep,
     MainSendStep, MainNotPrimaryStep, MainDrainStep, MainAbortStep,
     AcceptAfterInversionStep, MainEndStep DEF MainLoopStep
<1>5. CASE BeatWanted \/ BeatLock \/ BeatSend \/ BeatAsserts
  BY Zenon, <1>5, BeatWantedStep, BeatLockStep, BeatSendStep, BeatAssertsStep
<1>6. CASE ExecuteTake \/ ExecuteReplicatedRequests
  BY Zenon, <1>6, ExecuteTakeStep, ExecuteStep
<1>7. CASE StopCall \/ StopDrain \/ StopAbort \/ StopDone
  BY Zenon, <1>7, StopCallStep, StopDrainStep, StopAbortStep, StopDoneStep
<1> QED
  BY ZenonT(40), <1>1, <1>2, <1>3, <1>4, <1>5, <1>6, <1>7 DEF NextClientRequests

\* The invariant holds in every behaviour.
LEMMA ClientInvariant == SpecClientRequests => []ClientInv
BY ClientInit, ClientStep, PTL DEF SpecClientRequests

\* The invariant says what the application relies on.
LEMMA CookiesKeptHolds == ClientInv => CookiesKept
<1> SUFFICES ASSUME ClientInv PROVE CookiesKept
  BY Zenon
<1>1. AnsweredByTerm
  <2>1. Served <= spent.terms /\ spent.terms \in Nat
    BY DEF ClientInv, RoleTypes, Served
  <2>2. ASSUME NEW c \in Cookie
        PROVE  Len(answers[c]) <= spent.terms /\ ExecutedOnce(answers[c])
    <3>1. Calls(answers[c]) <= spent.terms /\ ExecutedOnce(answers[c])
      BY <2>1, Counting DEF Placed, Counted
    <3> QED
      BY Zenon, <3>1 DEF Calls
  <2> QED
    BY Zenon, <2>2 DEF AnsweredByTerm, ExecutedOnce
<1>2. NoneDangling
  BY Zenon DEF ClientInv, Threads, Settled, AllAnswered, NoneDangling
<1> QED
  BY Zenon, <1>1, <1>2 DEF CookiesKept

\* Whatever is elected, lost, aborted or stopped in whatever order, for any
\* requests and any bounds: a cookie that ReplicateRequest took is executed once
\* at most and called back no more often than there were elections, and none
\* is left over when NotifyStatus(false) or ShutDown is called
\* (AbortReplicateRequests, ExecuteReplicatedRequests, Stop).
THEOREM CookiesSafe == SpecClientRequests => []CookiesKept
BY ClientInvariant, CookiesKeptHolds, PTL

\* Whatever the main thread does meanwhile, the heartbeat thread never meets an
\* outstanding vote in SendNextVote, and meets another replica's ballot only
\* when HandleNewVotes, which does not take m_hbLock, has handled a message/vote
\* inversion since the heartbeat thread locked it.
THEOREM HeartbeatSafe == SpecClientRequests => []HeartbeatLocked
<1>1. ClientInv => HeartbeatLocked
  BY Zenon DEF ClientInv, Threads, HeartbeatLocked
<1> QED
  BY <1>1, ClientInvariant, PTL
==============================================================================
