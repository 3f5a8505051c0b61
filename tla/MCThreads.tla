------------------------------ MODULE MCThreads ------------------------------
(***************************************************************************)
(* The threads of one replica for TLC.  A behaviour is about one of three  *)
(* groups: the execution queue with its reader and the execution loop, the *)
(* client requests with the main, heartbeat and stopping threads, and the  *)
(* fast reads.  Fairness is asked of the threads of that group only.       *)
(***************************************************************************)
EXTENDS ExecuteQueue, ClientRequests, FastReads

CONSTANT Groups    \* the groups of the run

VARIABLE group

threadsVars == <<group, execVars, clientVars, readVars>>

\* The third vote is as large as the whole queue may be.
MCVoteSize == [d \in 1 .. MaxVotes |-> IF d = 3 THEN 3 ELSE 1]

InitThreads ==
    /\ group \in Groups
    /\ group = "clients" \/ independent = FALSE
    /\ group = "reads" \/ rdPrimary = FALSE
    /\ InitExecuteQueue /\ InitClientRequests /\ InitFastReads

\* Bound: a replica that begins a second election has taken one request at
\* most (two share a vote, or follow each other, in its first term).
SecondTermOfOne == spent'.terms > 1 => Cardinality(taken') <= 1

NextThreads ==
    \/ /\ group = "execution" /\ NextExecuteQueue
       /\ UNCHANGED <<group, clientVars, readVars>>
    \/ /\ group = "clients" /\ NextClientRequests
       /\ SecondTermOfOne
       /\ UNCHANGED <<group, execVars, readVars>>
    \/ /\ group = "reads" /\ NextFastReads
       /\ UNCHANGED <<group, execVars, clientVars>>

\* FairExecuteQueue and FairFastReads, each for its own group.
Execution(A) == group = "execution" /\ A
Reads(A) == group = "reads" /\ A
FairExecution ==
    /\ WF_execVars(Execution(ReaderStep)) /\ WF_execVars(Execution(ExecuteStep))
    /\ WF_execVars(Execution(LogAccepted))
    /\ SF_execVars(Execution(NotifyPrimary))
    /\ SF_execVars(Execution(AbortReplicateRequests))
    /\ WF_execVars(Execution(VotePasses \/ LosePrimary))
FairReads ==
    /\ \A t \in ReadThread : WF_readVars(Reads(LoopStep(t)))
    /\ WF_readVars(Reads(Tick))

SpecExecution ==
    InitThreads /\ [][NextThreads]_threadsVars /\ FairExecution /\ FairReads

SpecClients ==
    InitThreads /\ [][NextThreads]_threadsVars /\ FairClientRequests

-----------------------------------------------------------------------------
\* What is still to be executed is in order and can be had: m_executeQ is a
\* contiguous run of decrees within the size limit, a primary's votes are all in
\* it, and the others are in log files that CleanupLogsAndCheckpoint has left.
QueueSound ==
    QueueContiguous /\ QueueBounded /\ PrimaryInMemory /\ LogFileKept

\* A fast read is called back once, and is in the queues from which it will be.
ReadsKept == ReadOnce /\ ReadQueuesAgree

\* Every passed vote is executed, every fast read is called back, and no thread
\* waits for ever for another one.
ExecutionGoesOn == PassedExecuted /\ NoThreadStuck /\ ReadAnswered

\* Every request that was taken is answered, and Unload returns.
ClientsServed == RequestAnswered /\ UnloadEnds
=============================================================================
