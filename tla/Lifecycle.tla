----------------------------- MODULE Lifecycle -----------------------------
(***************************************************************************)
(* How a replica's threads come to life and go: Legislator::StartImpl, the *)
(* loops it starts with RunThread, Pause and Resume, CopyStateFromReplica  *)
(* and Unload, which stops the loops one after the other                   *)
(* (legislator.cpp).                                                       *)
(*                                                                         *)
(* A thread is "created" by RunThread and "runs" once ThreadStartMethod    *)
(* has counted it in m_numThreads.  Every loop looks at a flag of its own  *)
(* (m_paused, m_hbPaused, ...): whoever wants the loop to end writes       *)
(* Terminate and polls until the loop has written Terminated.  A polling   *)
(* loop is a guard here.                                                   *)
(*                                                                         *)
(* "busy" is a thread inside a callback of the state machine (or, for the  *)
(* main thread, at work on a message); "pausing" is the main thread        *)
(* between its test of m_paused and its assignment.                        *)
(***************************************************************************)
EXTENDS Naturals, FiniteSets, Sequences

CONSTANTS
    Readers,        \* the FastReadLoop threads
    LateThreads,    \* threads that may still be starting when RunThread returns
    Sources,        \* the replicas CopyStateThread may copy from
    MaxFetches      \* fetch requests accepted on the learn port

Loop == {"main", "beat", "ip", "exe", "reads", "accept"}
Thread == (Loop \ {"reads"}) \cup {"queue", "fetch", "copy"} \cup Readers

VARIABLES
    ustart,   \* the next step of StartImpl, or what it returned
    uthread,  \* the state of each thread
    uflag,    \* m_paused, m_hbPaused, m_ipPaused, m_exePaused, m_frPaused, m_acceptPaused
    ureads,   \* m_frPausedCount
    unet,     \* the two NetPacketSvc: "none", "runs", "suspended", "stopped"
    ushut,    \* m_isShutting, and whether the ShutDown callback runs
    uunload,  \* where Unload is, whether it was called during Pause or Resume,
              \* and the threads that had not begun when it returned
    upause,   \* where the caller of Pause and Resume is
    ucopy,    \* CopyStateThread: replicas tried, StateCopied calls made
    ufetches  \* fetch requests accepted so far

uvars == <<ustart, uthread, uflag, ureads, unet, ushut, uunload, upause, ucopy, ufetches>>

(* Unload's steps, in order; each step waits before the next begins.       *)
UnloadSteps == <<"main", "beat", "stop", "ip", "exe", "reads", "accept", "net", "queue", "threads">>

StepAfter(step) ==
    LET i == CHOOSE j \in 1..Len(UnloadSteps) : UnloadSteps[j] = step
    IN IF i = Len(UnloadSteps) THEN "returned" ELSE UnloadSteps[i + 1]

InitLifecycle ==
    /\ ustart = "check"
    /\ uthread = [t \in Thread |-> "none"]
    /\ uflag = [l \in Loop |-> "Run"]
    /\ ureads = 0
    /\ unet = "none"
    /\ ushut = [declared |-> FALSE, calling |-> FALSE]
    /\ uunload = [at |-> "none", waits |-> FALSE, overlaps |-> FALSE, left |-> {}]
    /\ upause = "none"
    /\ ucopy = [tried |-> {}, answers |-> 0]
    /\ ufetches = 0

-----------------------------------------------------------------------------
(* Threads.                                                                *)

Alive == {"created", "runs", "busy", "pausing"}

(* RunThread: the thread exists; ThreadStartMethodCustomized counts it in  *)
(* m_numThreads only once it runs.                                         *)
RunThread(S) ==
    uthread' = [t \in Thread |->
                  IF t \in S THEN IF t \in LateThreads THEN "created" ELSE "runs"
                             ELSE uthread[t]]

(* A late thread begins.  ExecuteLoop and FastReadLoop take                *)
(* m_shutdownLock first; a FastReadLoop then takes m_lock, which StartImpl *)
(* holds, and counts itself in m_frPausedCount.                            *)
ThreadStarts(t) ==
    /\ uthread[t] = "created"
    /\ t \in Readers => ustart \in {"true", "false"}
    /\ t \in Readers \cup {"exe"} => ~ushut.calling
    /\ uthread' = [uthread EXCEPT ![t] = "runs"]
    /\ ureads' = IF t \in Readers THEN ureads + 1 ELSE ureads
    /\ UNCHANGED <<ustart, uflag, unet, ushut, uunload, upause, ucopy, ufetches>>

(* The threads m_numThreads counts.                                        *)
Counted == {t \in Thread : uthread[t] \in Alive \ {"created"}}

-----------------------------------------------------------------------------
(* StartImpl.                                                              *)

(* A step that may fail: StartImpl returns false and leaves the threads it *)
(* has started.                                                            *)
StartStep(step, next) == ustart = step /\ ustart' \in {next, "false"}

NothingElseStarts == UNCHANGED <<uflag, ushut, uunload, upause, ucopy, ufetches>>

(* The configuration, Netlib and the timers.                               *)
StartCheck ==
    StartStep("check", "directories") /\ NothingElseStarts /\ UNCHANGED <<uthread, ureads, unet>>

(* The working directory and the directory of temporary files.             *)
StartDirectories ==
    StartStep("directories", "restore") /\ NothingElseStarts /\ UNCHANGED <<uthread, ureads, unet>>

(* ReadDefunctFile and RestoreState.                                       *)
StartRestore ==
    StartStep("restore", "queue") /\ NothingElseStarts /\ UNCHANGED <<uthread, ureads, unet>>

(* The execution queue is initialised before its thread is started.        *)
StartExecuteQ ==
    /\ ustart = "queue"
    /\ ustart' = "server"
    /\ RunThread({"queue"})
    /\ NothingElseStarts /\ UNCHANGED <<ureads, unet>>

(* The two packet services.                                                *)
StartServer ==
    StartStep("server", "client") /\ NothingElseStarts /\ UNCHANGED <<uthread, ureads, unet>>

StartClient ==
    /\ StartStep("client", "listen")
    /\ unet' = IF ustart' = "listen" THEN "runs" ELSE unet
    /\ NothingElseStarts /\ UNCHANGED <<uthread, ureads>>

(* BindAndListen on the learn port, retried for two minutes.               *)
StartListen ==
    StartStep("listen", "accept") /\ NothingElseStarts /\ UNCHANGED <<uthread, ureads, unet>>

StartAccept ==
    /\ ustart = "accept"
    /\ ustart' = "configuration"
    /\ RunThread({"accept"})
    /\ NothingElseStarts /\ UNCHANGED <<ureads, unet>>

(* Votes on disk but no member set: StartImpl returns false.               *)
StartConfiguration ==
    StartStep("configuration", "loops") /\ NothingElseStarts /\ UNCHANGED <<uthread, ureads, unet>>

StartLoops ==
    /\ ustart = "loops"
    /\ ustart' = "true"
    /\ RunThread({"ip", "main", "exe", "beat"} \cup Readers)
    /\ ureads' = Cardinality(Readers \ LateThreads)
    /\ NothingElseStarts /\ UNCHANGED unet

StartReplica ==
    \/ StartCheck \/ StartDirectories \/ StartRestore \/ StartExecuteQ \/ StartServer
    \/ StartClient \/ StartListen \/ StartAccept \/ StartConfiguration \/ StartLoops

-----------------------------------------------------------------------------
(* The loops.                                                              *)

NothingElseLoops ==
    UNCHANGED <<ustart, ureads, unet, ushut, uunload, upause, ucopy, ufetches>>

(* The test at the top of every loop but the readers': Terminate makes it  *)
(* write Terminated and return.                                            *)
LoopEnds(l) ==
    /\ uthread[l] = "runs"
    /\ uflag[l] = "Terminate"
    /\ uflag' = [uflag EXCEPT ![l] = "Terminated"]
    /\ uthread' = [uthread EXCEPT ![l] = "ended"]
    /\ NothingElseLoops

MainLoopEnds == LoopEnds("main")
HeartBeatLoopEnds == LoopEnds("beat")
IPLookupEnds == LoopEnds("ip")
ExecuteLoopEnds == LoopEnds("exe")
FetchServerLoopEnds == LoopEnds("accept")

(* A reader leaves under m_lock, and the last of them writes Terminated.   *)
FastReadLoopEnds(t) ==
    /\ uthread[t] = "runs"
    /\ uflag["reads"] = "Terminate"
    /\ ureads' = ureads - 1
    /\ uflag' = [uflag EXCEPT !["reads"] = IF ureads = 1 THEN "Terminated" ELSE @]
    /\ uthread' = [uthread EXCEPT ![t] = "ended"]
    /\ UNCHANGED <<ustart, unet, ushut, uunload, upause, ucopy, ufetches>>

(* MainLoop at work on messages, the timer and votes to send.              *)
MainWorks ==
    /\ uthread["main"] = "runs"
    /\ uflag["main"] = "Run"
    /\ uthread' = [uthread EXCEPT !["main"] = "busy"]
    /\ UNCHANGED uflag /\ NothingElseLoops

MainRests ==
    /\ uthread["main"] = "busy"
    /\ uthread' = [uthread EXCEPT !["main"] = "runs"]
    /\ UNCHANGED uflag /\ NothingElseLoops

(* if (m_paused == MainThread_Pause) m_paused = MainThread_Paused.         *)
MainSeesPause ==
    /\ uthread["main"] = "runs"
    /\ uflag["main"] = "Pause"
    /\ uthread' = [uthread EXCEPT !["main"] = "pausing"]
    /\ UNCHANGED uflag /\ NothingElseLoops

MainPauses ==
    /\ uthread["main"] = "pausing"
    /\ uflag' = [uflag EXCEPT !["main"] = "Paused"]
    /\ uthread' = [uthread EXCEPT !["main"] = "runs"]
    /\ NothingElseLoops

(* ExecuteLoop and FastReadLoop hold m_shutdownLock shared except while    *)
(* they wait for work, so they call back only when Stop does not hold it.  *)
CallbackBegins(t) ==
    /\ uthread[t] = "runs"
    /\ uflag[IF t = "exe" THEN "exe" ELSE "reads"] = "Run"
    /\ ~ushut.calling
    /\ uthread' = [uthread EXCEPT ![t] = "busy"]
    /\ UNCHANGED uflag /\ NothingElseLoops

CallbackEnds(t) ==
    /\ uthread[t] = "busy"
    /\ uthread' = [uthread EXCEPT ![t] = "runs"]
    /\ UNCHANGED uflag /\ NothingElseLoops

(* FetchServerLoop hands an accepted connection to a thread of its own.    *)
AcceptFetch ==
    /\ uthread["accept"] = "runs"
    /\ uflag["accept"] = "Run"
    /\ ufetches < MaxFetches
    /\ uthread["fetch"] \in {"none", "ended"}
    /\ ufetches' = ufetches + 1
    /\ RunThread({"fetch"})
    /\ UNCHANGED <<ustart, uflag, ureads, unet, ushut, uunload, upause, ucopy>>

HandleFetchRequest ==
    /\ uthread["fetch"] = "runs"
    /\ uthread' = [uthread EXCEPT !["fetch"] = "ended"]
    /\ UNCHANGED uflag /\ NothingElseLoops

(* ExecuteQueue::ReadLoop returns once it has been told to stop.           *)
ReadLoopEnds ==
    /\ uthread["queue"] = "runs"
    /\ ustart = "true" /\ uunload.at \in {"threads", "returned"}
    /\ uthread' = [uthread EXCEPT !["queue"] = "ended"]
    /\ UNCHANGED uflag /\ NothingElseLoops

LoopStep ==
    \/ MainLoopEnds \/ HeartBeatLoopEnds \/ IPLookupEnds \/ ExecuteLoopEnds \/ FetchServerLoopEnds
    \/ \E t \in Readers : FastReadLoopEnds(t)
    \/ MainWorks \/ MainRests \/ MainSeesPause \/ MainPauses
    \/ \E t \in Readers \cup {"exe"} : CallbackBegins(t) \/ CallbackEnds(t)
    \/ AcceptFetch \/ HandleFetchRequest \/ ReadLoopEnds
    \/ \E t \in Thread : ThreadStarts(t)

-----------------------------------------------------------------------------
(* CopyStateFromReplica and its thread.                                    *)

NothingElseCopies == UNCHANGED <<ustart, uflag, ureads, unet, ushut, uunload, upause, ufetches>>

CopyStateFromReplica ==
    /\ ustart = "true"
    /\ uunload.at # "returned"
    /\ ~ushut.declared
    /\ uthread["copy"] = "none"
    /\ RunThread({"copy"})
    /\ UNCHANGED ucopy /\ NothingElseCopies

(* A replica not tried before: no connection, no answer, an older          *)
(* checkpoint or a failed copy lead to the next one; a copied checkpoint   *)
(* is announced with StateCopied, and the loop ends.                       *)
CopyFromNext ==
    /\ uthread["copy"] = "runs"
    /\ \E r \in Sources \ ucopy.tried :
          \/ /\ uthread' = uthread
             /\ ucopy' = [ucopy EXCEPT !.tried = @ \cup {r}]
          \/ /\ uthread' = [uthread EXCEPT !["copy"] = "busy"]
             /\ ucopy' = [ucopy EXCEPT !.tried = @ \cup {r}, !.answers = @ + 1]
    /\ NothingElseCopies

(* No replica is left: StateCopied(0, NULL, cookie).                       *)
CopyFromNone ==
    /\ uthread["copy"] = "runs"
    /\ Sources \subseteq ucopy.tried
    /\ uthread' = [uthread EXCEPT !["copy"] = "busy"]
    /\ ucopy' = [ucopy EXCEPT !.answers = @ + 1]
    /\ NothingElseCopies

(* StateCopied returns, and with it the thread.                            *)
CopyStateEnds ==
    /\ uthread["copy"] = "busy"
    /\ uthread' = [uthread EXCEPT !["copy"] = "ended"]
    /\ UNCHANGED ucopy /\ NothingElseCopies

CopyStep == CopyStateFromReplica \/ CopyFromNext \/ CopyFromNone \/ CopyStateEnds

-----------------------------------------------------------------------------
(* Pause and Resume, called by one thread of the application.              *)

NothingElsePauses == UNCHANGED <<ustart, uthread, ureads, ushut, uunload, ucopy, ufetches>>

Unloading == uunload.at # "none"

(* LogAssert(m_paused == MainThread_Run); m_paused = MainThread_Pause.     *)
Pause ==
    /\ upause = "none"
    /\ ustart = "true" /\ ~Unloading
    /\ uflag["main"] = "Run"
    /\ uflag' = [uflag EXCEPT !["main"] = "Pause"]
    /\ upause' = "pausing"
    /\ UNCHANGED unet /\ NothingElsePauses

(* A defect: Pause suspends the services without waiting for the main      *)
(* thread.                                                                 *)
PauseReturnsAtOnce ==
    /\ upause = "pausing"
    /\ unet' = "suspended"
    /\ upause' = "paused"
    /\ UNCHANGED uflag /\ NothingElsePauses

(* The main thread sleeps: both services stop receiving.                   *)
PauseReturns ==
    /\ upause = "pausing"
    /\ uflag["main"] = "Paused"
    /\ unet' = "suspended"
    /\ upause' = "paused"
    /\ UNCHANGED uflag /\ NothingElsePauses

(* LogAssert(m_paused == MainThread_Paused), and the services receive      *)
(* again; the main thread is let go last.                                  *)
Resume ==
    /\ upause = "paused" /\ ~Unloading
    /\ uflag["main"] = "Paused"
    /\ unet' = "runs"
    /\ upause' = "resuming"
    /\ UNCHANGED uflag /\ NothingElsePauses

ResumeReturns ==
    /\ upause = "resuming"
    /\ uflag' = [uflag EXCEPT !["main"] = "Run"]
    /\ upause' = "resumed"
    /\ UNCHANGED unet /\ NothingElsePauses

PauseStep == Pause \/ PauseReturns \/ Resume \/ ResumeReturns

-----------------------------------------------------------------------------
(* Unload, with a spawn routine: the process goes on without the replica.  *)

NothingElseUnloads == UNCHANGED <<ustart, uthread, ureads, upause, ucopy, ufetches>>

(* Unload is called once Start has returned; nothing is stopped when Start *)
(* did not complete.                                                       *)
Unload ==
    /\ ustart \in {"true", "false"}
    /\ uunload.at = "none"
    /\ uunload' = [uunload EXCEPT !.at = IF ustart = "true" THEN "main" ELSE "returned",
                                  !.overlaps = upause \in {"pausing", "resuming"}]
    /\ UNCHANGED <<uflag, unet, ushut>> /\ NothingElseUnloads

(* m_xPaused = MainThread_Terminate, the wake-up, and the wait for         *)
(* MainThread_Terminated.                                                  *)
StopLoop(l) ==
    /\ uunload.at = l
    /\ \/ /\ ~uunload.waits
          /\ uflag[l] # "Terminate"
          /\ uflag' = [uflag EXCEPT ![l] = "Terminate"]
          /\ uunload' = [uunload EXCEPT !.waits = TRUE]
       \/ /\ uunload.waits
          /\ uflag[l] = "Terminated"
          /\ uunload' = [uunload EXCEPT !.at = StepAfter(l), !.waits = FALSE]
          /\ UNCHANGED uflag
    /\ UNCHANGED <<unet, ushut>> /\ NothingElseUnloads

StopMainLoop == StopLoop("main")
StopHeartBeatLoop == StopLoop("beat")
StopIPLoop == StopLoop("ip")
StopExeLoop == StopLoop("exe")
StopFastReadLoops == StopLoop("reads")
StopAcceptLoop == StopLoop("accept")

(* DeclareShutdown, under m_lock.                                          *)
DeclareShutdown ==
    /\ uunload.at = "stop" /\ ~ushut.declared
    /\ ushut' = [ushut EXCEPT !.declared = TRUE]
    /\ UNCHANGED <<uflag, unet, uunload>> /\ NothingElseUnloads

(* Stop holds m_shutdownLock exclusively around the ShutDown callback.     *)
Stop ==
    /\ uunload.at = "stop" /\ ushut.declared
    /\ \/ /\ ~uunload.waits
          /\ \A t \in Readers \cup {"exe"} : uthread[t] # "busy"
          /\ ushut' = [ushut EXCEPT !.calling = TRUE]
          /\ uunload' = [uunload EXCEPT !.waits = TRUE]
       \/ /\ uunload.waits
          /\ ushut' = [ushut EXCEPT !.calling = FALSE]
          /\ uunload' = [uunload EXCEPT !.at = StepAfter("stop"), !.waits = FALSE]
    /\ UNCHANGED <<uflag, unet>> /\ NothingElseUnloads

StopNet ==
    /\ uunload.at = "net"
    /\ unet' = "stopped"
    /\ uunload' = [uunload EXCEPT !.at = StepAfter("net"), !.waits = FALSE]
    /\ UNCHANGED <<uflag, ushut>> /\ NothingElseUnloads

(* m_executeQ.Stop() asks the reader of the queue to end.                  *)
StopQueue ==
    /\ uunload.at = "queue"
    /\ uunload' = [uunload EXCEPT !.at = StepAfter("queue"), !.waits = FALSE]
    /\ UNCHANGED <<uflag, unet, ushut>> /\ NothingElseUnloads

(* while (this->m_numThreads != 0): then the Legislator is deleted.        *)
WaitThreads ==
    /\ uunload.at = "threads"
    /\ Counted = {}
    /\ uunload' = [uunload EXCEPT !.at = "returned",
                                  !.left = {t \in Thread : uthread[t] = "created"}]
    /\ UNCHANGED <<uflag, unet, ushut>> /\ NothingElseUnloads

UnloadStep ==
    \/ StopMainLoop \/ StopHeartBeatLoop \/ StopIPLoop \/ StopExeLoop \/ StopFastReadLoops
    \/ StopAcceptLoop \/ DeclareShutdown \/ Stop \/ StopNet \/ StopQueue \/ WaitThreads

NextLifecycle == StartReplica \/ LoopStep \/ CopyStep \/ PauseStep \/ Unload \/ UnloadStep

SpecLifecycle == InitLifecycle /\ [][NextLifecycle]_uvars

-----------------------------------------------------------------------------
(* The threads that start and end by a flag of their own.  A reader shares *)
(* its flag with the others.                                               *)
Flagged == Thread \ ({"queue", "fetch", "copy"} \cup Readers)

(* When Unload has returned, and the Legislator is deleted, no thread that *)
(* uses it is left (Unload and m_numThreads), with two exceptions.  A      *)
(* Start that failed leaves what it had started, for Unload then does      *)
(* nothing.  And a thread whose start was not counted yet is not waited    *)
(* for; that is never one of the threads with a flag of its own.           *)
UnloadedQuiet ==
    uunload.at = "returned" /\ ustart = "true" =>
        {t \in Thread : uthread[t] \in Alive} \subseteq uunload.left \ Flagged

(* A FastReadLoop that begins when the last of the others has written      *)
(* Terminated: it sleeps for ever.                                         *)
Stranded == {t \in Readers : uthread[t] = "runs" /\ uflag["reads"] = "Terminated"}

(* Unload never waits for a thread that will not answer: whenever no other *)
(* thread can move, Unload is not waiting for a flag or for m_numThreads,  *)
(* and neither is Pause (the flags of the loops, m_frPausedCount).  Two    *)
(* waits do not end: the one for m_numThreads when a reader is stranded,   *)
(* and the one for the main loop when Unload was called during Pause or    *)
(* Resume, for m_paused holds one of the two requests only.                *)
CanMove(t) ==
    \/ uthread[t] \in {"created", "busy", "pausing"}
    \/ t \in {"fetch", "copy"} /\ uthread[t] = "runs"
    \/ t = "queue" /\ uthread[t] = "runs" /\ uunload.at = "threads"
    \/ t \in Loop /\ uthread[t] = "runs" /\ uflag[t] \in {"Terminate", "Pause"}
    \/ t \in Readers /\ uthread[t] = "runs" /\ uflag["reads"] = "Terminate"

WaitsAnswered ==
    (\A t \in Thread : ~CanMove(t)) =>
        /\ uunload.at \in Loop /\ uunload.waits =>
              uflag[uunload.at] = "Terminated" \/ (uunload.at = "main" /\ uunload.overlaps)
        /\ uunload.at = "threads" => Counted = Stranded
        /\ upause = "pausing" => uflag["main"] = "Paused" \/ uunload.overlaps

(* The ShutDown callback is alone among the callbacks of the execution     *)
(* and the reader threads (m_shutdownLock).                                *)
ShutDownAlone ==
    ushut.calling => \A t \in Readers \cup {"exe"} : uthread[t] # "busy"

(* Between Pause returning and Resume being called, the main thread        *)
(* handles no message and the services deliver none.                       *)
PausedQuiet ==
    (upause = "paused" /\ ~Unloading) => uthread["main"] # "busy" /\ unet = "suspended"

(* Every CopyStateFromReplica is answered by one StateCopied: never two,   *)
(* and one by the time its thread is gone (CopyStateThread).               *)
StateCopiedOnce ==
    /\ ucopy.answers <= 1
    /\ uthread["copy"] = "ended" => ucopy.answers = 1
=============================================================================
