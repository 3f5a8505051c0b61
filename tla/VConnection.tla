----------------------------- MODULE VConnection -----------------------------
(***************************************************************************)
(* A NetVConnection: the asynchronous reads and writes of one socket.  Two *)
(* mutexes protect it, its own and that of its user (a NetCxn).  A handler *)
(* of the event processor holds the first and tries the second; a call of  *)
(* the user holds the second and tries the first.  Neither ever waits: who *)
(* misses a mutex leaves an event behind and tries again.                  *)
(***************************************************************************)
EXTENDS Naturals, FiniteSets

CONSTANTS
    MaxUserOps,  \* how often the user takes its mutex to write or close
    MaxIOs       \* how many reads and writes transfer data

VARIABLES
    vc,          \* the NetVConnection
    io,          \* its IOState of each direction
    handler,     \* the handler that holds the connection's mutex, if any
    user         \* the user, and its mutex

vcVars == <<vc, io, handler, user>>

Dirs == {"read", "write"}
Idle == [at |-> "idle", dir |-> "read"]

InitVc ==
    /\ vc = [socket |-> TRUE, deleted |-> FALSE, waitToClose |-> FALSE,
             retryClose |-> FALSE, opening |-> TRUE, left |-> FALSE,
             used |-> 0]
    /\ io = [d \in Dirs |-> [cancelled |-> FALSE, completion |-> "none",
                             retry |-> FALSE, vioRetry |-> FALSE, avail |-> 0]]
    /\ handler = Idle
    /\ user = [has |-> FALSE, cancelled |-> FALSE, closed |-> FALSE,
               locked |-> FALSE, ops |-> 0]

NoIO(i) == \A d \in Dirs : i[d].completion = "none"

-----------------------------------------------------------------------------
\* NetVConnection::ScheduleInternal once the user's mutex is held: may an I/O
\* be issued in direction d?
MayIssue(i, d) ==
    ~i[d].cancelled /\ i[d].completion = "none" /\ i[d].avail > 0

\* ReadFile or WriteFile: under way, or failed at once, which is delivered as
\* a completion all the same.
Issue(i, d) == {[i EXCEPT ![d].completion = c] : c \in {"pending", "failed"}}

\* ScheduleInternal by a caller that has both mutexes.
ScheduleLocked(i, d) ==
    LET j == [i EXCEPT ![d].vioRetry = FALSE, ![d].retry = FALSE]
    IN  IF MayIssue(j, d) THEN Issue(j, d) ELSE {j}

\* ReenableInternal by the user, who may miss the connection's mutex.
Reenable(i, d) ==
    IF handler # Idle THEN {[i EXCEPT ![d].retry = TRUE]}
    ELSE ScheduleLocked(i, d)

\* IOShutdown(SD_BOTH).
IOShutdown(i) ==
    [d \in Dirs |-> [i[d] EXCEPT !.cancelled = TRUE, !.retry = FALSE]]

\* CloseInternal with the connection's mutex: v and i are the connection and
\* its I/O, called is whether a handler is on the stack.  The socket is not
\* closed while an I/O is pending.
CloseInternal(v, i, called) ==
    LET j == [d \in Dirs |-> [i[d] EXCEPT !.vioRetry = FALSE]]
    IN  IF NoIO(j)
        THEN [v |-> [v EXCEPT !.waitToClose = FALSE, !.socket = FALSE,
                              !.deleted = ~called],
              i |-> j]
        ELSE [v |-> [v EXCEPT !.waitToClose = TRUE], i |-> j]

\* What the user may do in a callback, with both mutexes: nothing, write (the
\* reader answers), or close.
UserActs(v, i) ==
    {[v |-> v, i |-> i, closed |-> FALSE]} \cup
    {[v |-> v, i |-> j, closed |-> FALSE] :
        j \in ScheduleLocked([i EXCEPT !["write"].avail = 1], "write")} \cup
    {LET c == CloseInternal(v, IOShutdown(i), TRUE)
     IN  [v |-> c.v, i |-> c.i, closed |-> TRUE]}

-----------------------------------------------------------------------------
\* NetProcessor::CallbackEvent: a thread that gets the connection's mutex runs
\* the handler of the event; one that does not puts the event back.
Enter(at, d) == handler = Idle /\ ~vc.deleted /\ handler' = [at |-> at, dir |-> d]

\* The connect or the accept is complete: HandleConnectInternal and
\* HandleAcceptInternal, CompleteAcceptCallback.
Opened ==
    /\ vc.opening /\ Enter("open", "read")
    /\ UNCHANGED <<vc, io, user>>

\* An opening that was cancelled or failed closes the socket; the user is told
\* of any other and starts to read.  A connect whose socket cannot be set up
\* (setsockopt() or getsockname() fails) is left as it is.
HandleOpen ==
    /\ handler.at = "open"
    /\ handler' = [handler EXCEPT !.at = "leave"]
    /\ \/ user.locked /\ UNCHANGED <<vc, io, user>>
       \/ /\ ~user.locked
          /\ vc' = [vc EXCEPT !.opening = FALSE, !.socket = FALSE]
          /\ user' = [user EXCEPT !.cancelled = TRUE]
          /\ UNCHANGED io
       \/ /\ ~user.locked /\ ~user.cancelled
          /\ vc' = [vc EXCEPT !.opening = FALSE]
          /\ io' \in UNION {ScheduleLocked(i, "write") :
                 i \in ScheduleLocked([io EXCEPT !["read"].avail = 1],
                                    "read")}
          /\ user' = [user EXCEPT !.has = TRUE]
       \/ /\ ~user.locked /\ ~user.cancelled
          /\ vc' = [vc EXCEPT !.opening = FALSE, !.left = TRUE]
          /\ UNCHANGED <<io, user>>

\* The kernel completes an I/O.  After shutdown() it can only fail.  The main
\* loop drops a completion whose error is ERROR_OPERATION_ABORTED.
IoDone(d) ==
    /\ io[d].completion = "pending"
    /\ \/ /\ vc.used < MaxIOs /\ ~io[d].cancelled
          /\ vc' = [vc EXCEPT !.used = @ + 1]
          /\ io' = [io EXCEPT ![d].completion = "done"]
       \/ /\ io' \in {[io EXCEPT ![d].completion = c] : c \in {"failed", "lost"}}
          /\ UNCHANGED vc
    /\ UNCHANGED <<handler, user>>

\* NETVC_ASYNC_READ_COMPLETE and NETVC_ASYNC_WRITE_COMPLETE.
Completed(d) ==
    /\ io[d].completion \in {"done", "failed"} /\ Enter("complete", d)
    /\ UNCHANGED <<vc, io, user>>

\* NetVConnection::HandleIOCompletion: without the user's mutex the completion
\* is scheduled again; a cancelled I/O is over; otherwise the user is called,
\* which closes the connection if the I/O failed.
HandleIOCompletion ==
    LET d == handler.dir
        over == [io EXCEPT ![d].completion = "none",
                           ![d].avail = IF d = "write" THEN 0 ELSE @]
    IN
    /\ handler.at = "complete"
    /\ \/ /\ user.locked
          /\ handler' = [handler EXCEPT !.at = "leave"]
          /\ UNCHANGED <<vc, io, user>>
       \/ /\ ~user.locked /\ io[d].cancelled
          /\ io' = [io EXCEPT ![d].completion = "none"]
          /\ handler' = [handler EXCEPT !.at = "leave"]
          /\ UNCHANGED <<vc, user>>
       \/ /\ ~user.locked /\ ~io[d].cancelled
          /\ \E r \in UserActs(vc, over) :
                /\ io[d].completion = "failed" => r.closed
                /\ vc' = r.v /\ io' = r.i
                /\ user' = [user EXCEPT !.closed = r.closed]
          /\ handler' = [handler EXCEPT !.at =
                            IF io[d].completion = "failed" THEN "leave" ELSE "schedule"]

\* NETVC_RETRY_DO_IO_READ and _WRITE, the user's missed Reenable.
RetryIO(d) ==
    /\ io[d].retry /\ Enter("schedule", d)
    /\ io' = [io EXCEPT ![d].retry = FALSE]
    /\ UNCHANGED <<vc, user>>

\* NETVC_RETRY_VIO_LOCK_READ and _WRITE, a handler's missed user mutex.
RetryVio(d) ==
    /\ io[d].vioRetry /\ Enter("schedule", d)
    /\ UNCHANGED <<vc, io, user>>

\* NetVConnection::ScheduleInternal by a handler, up to the point where it
\* lets go of the user's mutex to issue the I/O.
ScheduleInternal ==
    LET d == handler.dir
        i == [io EXCEPT ![d].vioRetry = FALSE]
    IN
    /\ handler.at = "schedule"
    /\ UNCHANGED <<vc, user>>
    /\ IF user.locked
       THEN /\ io' = [i EXCEPT ![d].vioRetry = (i[d].completion = "none")]
            /\ handler' = [handler EXCEPT !.at = "leave"]
       ELSE /\ io' = [i EXCEPT ![d].retry = FALSE]
            /\ handler' = [handler EXCEPT !.at =
                              IF MayIssue(i, d) THEN "issue" ELSE "leave"]

IssueIO ==
    /\ handler.at = "issue"
    /\ io' \in Issue(io, handler.dir)
    /\ handler' = [handler EXCEPT !.at = "leave"]
    /\ UNCHANGED <<vc, user>>

\* NETVC_RETRY_DO_IO_CLOSE.
RetryClose ==
    /\ vc.retryClose /\ Enter("leave", "read")
    /\ LET c == CloseInternal([vc EXCEPT !.retryClose = FALSE], io, TRUE)
       IN  vc' = c.v /\ io' = c.i
    /\ UNCHANGED <<user>>

\* The end of HandleEventCallback: a close that waited for the I/O to end is
\* carried out, and a connection without a socket is deleted.
HandleEventCallback ==
    /\ handler.at = "leave"
    /\ handler' = Idle
    /\ LET c == IF vc.waitToClose /\ NoIO(io) THEN CloseInternal(vc, io, TRUE)
                ELSE [v |-> vc, i |-> io]
       IN  IF ~c.v.socket /\ NoIO(c.i)
           THEN /\ vc' = [c.v EXCEPT !.deleted = TRUE]
                /\ io' = [d \in Dirs |-> [c.i[d] EXCEPT !.vioRetry = FALSE]]
           ELSE vc' = c.v /\ io' = c.i
    /\ UNCHANGED <<user>>

-----------------------------------------------------------------------------
\* The user takes its mutex, for a Send() or a CloseConnection().
UserLock ==
    /\ ~user.locked /\ ~user.closed /\ user.ops < MaxUserOps
    /\ user' = [user EXCEPT !.locked = TRUE, !.ops = @ + 1]
    /\ UNCHANGED <<vc, io, handler>>

UserUnlock ==
    /\ user.locked
    /\ user' = [user EXCEPT !.locked = FALSE]
    /\ UNCHANGED <<vc, io, handler>>

\* NetCxn::WriteReadyInternal: the packet is in the buffer, Reenable.
UserWrite ==
    /\ user.locked /\ user.has /\ ~user.closed /\ io["write"].avail = 0
    /\ io' \in Reenable([io EXCEPT !["write"].avail = 1], "write")
    /\ UNCHANGED <<vc, handler, user>>

\* Action::Cancel of the connect, or of the accept.
UserCancel ==
    /\ user.locked /\ vc.opening /\ ~user.cancelled
    /\ user' = [user EXCEPT !.cancelled = TRUE]
    /\ UNCHANGED <<vc, io, handler>>

\* NetVConnection::IOClose by the user: IOShutdown and CloseInternal.
IOClose ==
    /\ user.locked /\ user.has /\ ~user.closed
    /\ user' = [user EXCEPT !.closed = TRUE]
    /\ LET i == IOShutdown(io)
           c == CloseInternal(vc, i, FALSE)
       IN  IF handler # Idle
           THEN vc' = [vc EXCEPT !.retryClose = TRUE] /\ io' = i
           ELSE vc' = c.v /\ io' = c.i
    /\ UNCHANGED <<handler>>

NextVc ==
    \/ Opened \/ HandleOpen \/ HandleIOCompletion \/ ScheduleInternal
    \/ IssueIO \/ RetryClose \/ HandleEventCallback
    \/ \E d \in Dirs : IoDone(d) \/ Completed(d) \/ RetryIO(d) \/ RetryVio(d)
    \/ UserLock \/ UserUnlock \/ UserWrite \/ UserCancel \/ IOClose

SpecVc == InitVc /\ [][NextVc]_vcVars

-----------------------------------------------------------------------------
\* When a NetVConnection is deleted no event refers to it any more: no I/O is
\* pending, no retry is scheduled (the assertions of its destructor) and no
\* handler runs.  No second I/O is ever issued in one direction.
VcDeletedLast ==
    /\ vc.deleted =>
          /\ handler = Idle /\ ~vc.opening /\ ~vc.retryClose /\ ~vc.socket
          /\ \A d \in Dirs : /\ io[d].completion = "none"
                             /\ ~io[d].retry /\ ~io[d].vioRetry
    /\ handler.at = "issue" => io[handler.dir].completion = "none"

\* Nothing waits for ever: while the user has the connection, what it wants to
\* read or write has an I/O or an event that will issue one; once the user
\* closed it, or the opening came to nothing, something is left that will
\* close the socket and delete it.  Two cases are excluded, in which the code
\* does leave the connection for ever: a connect whose socket could not be set
\* up, of which nobody is told, and an I/O whose completion the main loop drops.
VcNeverStalls ==
    handler = Idle /\ ~vc.deleted =>
        \/ vc.left \/ \E d \in Dirs : io[d].completion = "lost"
        \/ vc.opening \/ vc.retryClose
        \/ /\ user.has /\ ~user.closed
           /\ \A d \in Dirs : io[d].avail > 0 =>
                 io[d].completion # "none" \/ io[d].retry \/ io[d].vioRetry
        \/ vc.waitToClose /\ ~NoIO(io)
=============================================================================
