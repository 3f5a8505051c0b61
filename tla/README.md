# A verification of the Replicated State Library

The Replicated State Library (RSL) keeps a deterministic state machine identical
on several replicas. Clients hand requests to the primary, the replicas agree on
one sequence of *votes* with a variant of Paxos, and each replica executes the
votes in order. This directory holds TLA+ modules for the library and its Rust
port, TLC instances that check them, and TLAPS proofs, for every size of the system,
that replicas agree and recover, that a bootstrap is safe, that client requests are
executed at most once, that the Rust packet service keeps its contract and that locks
exclude.

Paths are relative to `src/src/RSL/src/` unless they say otherwise.

## The system

One main thread per replica handles messages, timers and new votes one at a time.
The other threads meet it through locks and queues: receive threads fill the
message queue and the vote cache, the execute thread takes passed votes and calls
the state machine, a reader thread fetches votes back from the log when the queue
in memory is full, the fetch thread serves the log and checkpoints to learners,
the heartbeat thread makes sure that a primary keeps voting, and read threads
answer fast reads. Replicas meet through messages (prepare, vote and their answers,
status queries, reconfiguration decisions) carried by a packet service, and through
the learn port, where one replica reads the log files of another.

RSL restricts Paxos: a replica holds one vote that is not known to be chosen. The
vote `(ballot b, decree d)` passes at the primary when a quorum has accepted it, and
at every other replica when the vote `(b, d+1)` of the same ballot arrives. A vote
further ahead, or at `d+1` with another ballot, says that the replica has missed
something, and it goes back to *Initializing*: it asks for the status of a quorum,
learns from a member that is ahead, and then becomes a secondary or prepares a new
ballot.

### What correctness means here

* Replicas execute the same request for the same decree, one decree after the other
  (`Agreement`, `PassInOrder`, `ImplementsReplicatedLog`), and nothing that a
  majority has not accepted (`PassedChosen`).
* What a replica promised, accepted, checkpointed or acknowledged survives a crash
  (`PromiseKept`, `RestoreSound`, `CheckpointsRestore`, `StoreDurable`,
  `RestoresConfiguration`, `Bootstrapped`), and a log can always be replayed
  (`LogSequential`).
* What a client handed over is executed at most once, called back at most once for each
  time the replica was primary, and answered before the application is told that it is
  not (`CookiesKept`, `ReadsKept`); what passed is executed (`ExecutionGoesOn`,
  `ClientsServed`).
* One configuration at a time (`ConfigurationsAgree`, `MembersReached`).
* What one side writes the other reads (`PacketsInOrder`, `MessagesFaithful`,
  `LearnedWhole`, `StreamsFaithful`), and nobody waits for something that will not
  come (`NothingStalls`, `WaitersWoken`, `WaitsEnd`).
* No assertion in the handlers stops a replica (`HandlerAsserts`).

## The modules

| Module | What it models | Code |
|---|---|---|
| `Ballots` | ballot order; `IsLowerDecree`, `IsHigherDecree`, `IsNextDecree`, `IsSameDecree` | `message.cpp` |
| `Legislator` | all members of one configuration: handlers, timers, log, learning, crash and restart | `legislator.cpp`, `logfile.cpp` |
| `ReplicatedLog` | the abstract promise: one sequence of decrees that replicas apply in order | |
| `ExecuteQueue` | the queue of passed votes, its reader thread, `ExecuteLoop`, checkpoints in between, log files in memory | `legislator.cpp` |
| `ClientRequests` | `ReplicateRequest` to its callback through the main, heartbeat and execute threads; `AbortReplicateRequests`, `Stop` | `legislator.cpp`, `rsl.cpp` |
| `FastReads` | `FastReadRequest`, `FastReadLoop`, time-outs, `Stop` | `legislator.cpp` |
| `VoteCache` | `ProcessReceive`, the local queue, `HandleNewVotes`' answers, the cache that `LearnVotes` meets | `legislator.cpp` |
| `Lifecycle` | `StartImpl`, each loop's flag, `Pause`, `CopyStateThread`, `Unload` | `legislator.cpp` |
| `Bootstrap` | `Bootstrap`, `HandleBootstrapMessage`, `PersistMemberSet`, crashes | `legislator.cpp` |
| `Reconfiguration` | the decision, the change-over, joining, defunct configurations | `legislator.cpp` |
| `ReplicaHealth` | request windows, failed and moved members, `IPLookup` | `legislator.cpp` |
| `Storage` | checkpoints, log files, clean-up, `RestoreState` file by file | `legislator.cpp`, `logfile.cpp`, `checkpoint.h` |
| `CheckpointStream` | the stream writer and reader with block checksums over `APSEQWRITE` and `APSEQREAD` | `rsl.cpp`, `../../common/src/apdiskio.cpp` |
| `LearnPort` | `FetchVotes` and `FetchCheckpoint`, C++ and Rust ends, files that change meanwhile | `learn_protocol.cpp`, `rsl-net/src/learnport` |
| `WireFormats` | every message of every version, written and read by both languages, with damage | `message.cpp`, `marshal.cpp`, `rsl-wire` |
| `VoteBuffers` | the memory of a vote that grows by `AddRequest` | `message.cpp` |
| `SendContract` | the abstract promise of a packet service: each packet is answered once | |
| `PacketService`, `PacketStream`, `VConnection`, `SecureCxn` | `NetPacketSvc` and `NetCxn`, the cutting of bytes into packets, `NetVConnection`, `NetSslCxn` | `src/src/NetworkLib` |
| `PacketActor` | the Rust packet service: tasks, inbox, table | `rsl-net/src/svc` |
| `DurableStore` | the Rust log, checkpoints, retention and `defunct.txt`, with power loss at every file system call | `rsl-storage` |
| `SeqWriter`, `SeqReader` | the Rust sequential writer and reader rings | `rsl-storage` |
| `LockState`, `LFLock`, `LFPool`, `LFExLock` | the three locks of the LF library and the pool of events | `src/src/LF/LF.c` |
| `LFStack`, `LFQueue`, `LFMulti` | its lock-free stack and queue, and one call on several objects | `src/src/LF/LF.c` |
| `MCLegislator`, `MCThreads`, `MCMembers`, `MCReplica`, `MCNet`, `MCLF` | instances for TLC | |
| `LogProofs`, `LegislatorProofs` | proofs about `Legislator`: types, the log, promises, learning | |
| `ElectionProofs`, `PrimaryProofs`, `AgreementProofs` | proofs about `Legislator`: agreement and the refinement of `ReplicatedLog` | |
| `ReplicaProofs` | proofs about `ClientRequests` and `Bootstrap` | |
| `PacketProofs` | proofs about `PacketActor`, with the refinement of `SendContract` | |
| `LockProofs` | proofs about `LFLock` and `LFExLock` | |

Variables are named after the field they stand for, or say so in a comment;
`PROJECT.json` ("map") gives the lines of every definition. Each module's header says
what it leaves out.

### `Legislator`

Each variable is a function of the member. `log` is the sequence of records a restart
would replay, whatever files they are in. `passed` is a history variable: every
decree and value that was ever handed to execution, by any replica in any of its
lives. `msgs` is the set of all messages ever sent. A message may be handled at any
later time, again, or never: that is loss, delay, repetition and reordering.

| Actions | Code |
|---|---|
| `TimerStartInitializing` | `Timer`: election, prepare and status time-outs |
| `StatusWait`, `StatusLearn`, `StatusSecondary`, `StatusPrepare`, `StatusAhead` | `HandleStatusResponseMsg`, `MoveToSecondaryOrPrepare`, `StartPreparing` |
| `StatusPrepareCrash` | a crash between the two statements at the end of `StartPreparing` |
| `LearnPrepare`, `LearnSkip`, `LearnMissing`, `LearnAccept`, `LearnEnd` | one record of the loop in `LearnVotes` |
| `HandlePrepareLower`, `HandlePrepareMsg` | `HandlePrepareMsg` |
| `HandlePrepareAcceptedMsg` | the handler, with `StartBeingStablePrimary` and the vote it sends |
| `HandleNotAcceptedMsg` | the handler |
| `HandleVoteLower`, `HandleVoteNext`, `HandleVoteBehind` | one vote of `HandleNewVotes` |
| `HandleVoteAcceptedWait`, `...Quorum`, `...ShutDown` | `HandleVoteAcceptedMsg` |
| `SendNextVote`, `SendRelinquishVote` | `MainLoop` and `SendNextVote` |
| `Restart`, `RestartBeforeFirstVote` | process exit at any point, `StartImpl`, `RestoreState` |

What it abstracts, and why that loses nothing the properties see:

* Time. Whatever waits for a time-out may happen at any moment, so every order that
  some timing allows is included.
* A status query and its answer are one step. The answers are collected over several
  steps and may be old when the quorum is complete. The decision forgets them: every
  later use starts with a cleared map.
* `m_maxSeenBallot` is any ballot that was sent, or none.
* Votes are handled one at a time. `HandleNewVotes` answers only the last of a batch
  from one sender; the others are answers that get lost. A state machine that refuses
  to vote is also an answer that gets lost.
* A crash between `LogVote` and `SendRequestToAll` is a vote that nobody receives.
* Resending adds nothing to a set of messages that stay deliverable.
* The value of a vote stands for its requests; a reconfiguration is not among them
  (module `Reconfiguration` has it).

`Spec` has one assumption about crashes: no replica stops between its first logged
prepare and its first logged vote. `SpecAnyRestart` drops it, and is what shows the
first finding below.

### Threads, locks and I/O

In the modules about threads a step is what a thread does under one lock or between
two of its waits; a spin or CAS loop of the LF library has a step per access to shared
memory. A call to the disk or the network is two steps, and another thread may act in
between; it may fail where the code handles failure. In `DurableStore` a file system
call is a step, what was not synced may be lost in any subset, and a directory entry is
durable only after the directory's sync. Counters that only statistics read, log text
and sizes of strings are left out. In `WireFormats` a field is a cell with a length, so
that offsets, lengths and checksums are computed as in the code; the fingerprint is an
injective function of what it covers; ids are canonical decimal numerals; lengths stay
below 2^31; misaligned reads are not distinguished. The network path does not verify a
message's checksum, and version and length are not covered by it.

## The runs

A run that is about several components has a variable that says which one a behaviour
is about (`layer`, `part`, `object`, `group`, `concern`); the others rest in one initial
state, so the state space is the sum of theirs, not the product.

| Run | Question | Result |
|---|---|---|
| `consensus` | two members of three compete, one may relinquish; loss, delay, repetition, reordering; crashes anywhere, replay, learning from a growing log, a crash between a made-up missing vote and the real one | holds |
| `execution` | the execution queue at its limit with its reader, checkpoints and log clean-up; fast reads at their thread limit | holds, with liveness |
| `clients` | client requests against the main, heartbeat and execute threads, loss of the primary and a second election, `Unload` | holds, with liveness |
| `members` | a configuration taking over from another under competing primaries and a crash; members that fail, move and come back | holds, with liveness |
| `lf` | two or three threads on each object of the LF library | holds |
| `network` | every layer between two replicas; both packet services refine `SendContract` | holds |
| `replica` | log files, checkpoints, the Rust store, sequential I/O, vote cache, threads, bootstrap | holds |
| `promise_lost_agreement` | finding 1 | violated |
| `resend_assert` | finding 2 | violated |
| `members_join` | finding 3 | violated |
| `cookie_twice` | finding 4 | violated |
| `heartbeat_race` | finding 5 | violated |

Each property says at its definition what it is about. Some operators are preceded by
a twin with a plausible mistake; each property is violated when some twin takes the
place of its operator (`PROJECT.json`, "mutants").

Bounds. What can be repeated for ever is counted and has a named bound: elections,
rejections, returns to Initializing, learning, crashes, relinquishing in `MCLegislator`
(a behaviour begins by choosing one of the scenarios there), and the `Max...` constants
of the other modules. They are part of the guards, never of the properties. Each is
large enough for its question. Two elections make two concurrent primaries and every
kind of late answer; a third is needed for a missing vote, where two logs must differ in
the ballot of a decree and a learner must hold the higher one; one crash reaches every
point between two handlers, and a learner gets a second one. The first vote of a primary
proposes decree 1 again, so decree 2 is already a vote of the second kind, which passes
decree 1 at the secondaries. Five votes fill an execution queue of three and a log file
of two; two requests and one change of primary give every order of a request, its abort
and its execution, and a second term, with one request (`SecondTermOfOne`), proposes
again what the first left accepted; three threads give a holder, a waiter and one that
overtakes. Rings, buffers and packets are smaller, equal to and larger than each other by
one unit. `SeqReader` reads at most twice as many blocks as it has slots.

Where a bound leaves a case out:

* `consensus` has one client value, which competes with the empty vote; the theorems have
  any number. `RestoreSound` compares ballot and decree of the accepted vote, not its
  value, which memory and log may disagree about (hazard at `legislator.cpp:4691`);
  `Agreement` covers what comes of that. The restart before the first logged vote (hazard
  at `legislator.cpp:5670`) is in `promise_lost_agreement` only.
* In `members`, one member joins the new configuration.
* In `replica`, four threads may begin late (`LateThreads`): the main loop, a fetch thread,
  the copying thread and one of two readers, which are waited for in different ways. The
  heartbeat, look-up, execute and accept loops have a flag like the main loop's. `Storage`
  has three decrees, and `Bootstrap` one crash and two calls.
* `WireFormats` has member ids that are canonical decimal numerals; ids with leading zeros,
  which the two languages could render differently, are not written.

Deadlock is not checked: an instance stops when its budgets are spent or when the
threads it models have ended, as the program may. That nobody stops too early is stated
as an invariant (`NothingStalls`, `WaitersWoken`, `WaitsEnd`) or as liveness.

Fairness. Each thread of `ExecuteQueue`, `ClientRequests` and `FastReads` takes its next
step if it stays able to (weak fairness of the scheduler); a lock that is freed again and
again is eventually taken by each of its waiters (strong fairness, where a thread
competes for a lock). In `Reconfiguration` and `ReplicaHealth` a message that is sent
again and again arrives eventually, and timers go off. Nothing is assumed about requests,
elections, failures or crashes: they may happen or not.

## The findings

Shown by runs:

1. **A promise can be lost** (`legislator.cpp:5687`). A bootstrapped replica logs
   prepares to `0.log`. If it restarts before it logs a vote, `RestoreState` sees the
   checkpoint's vote (decree 1) ahead of the replayed one (decree 0), takes the branch
   meant for a copied checkpoint, drops the replayed log and opens `1.log`. At the next
   restart the replay begins there, and the promised ballot is gone.
   `promise_lost_agreement` carries it to two replicas that execute different requests
   for decree 1. It takes two restarts of one replica in the first moments of a cluster.
2. **A re-elected relinquishing primary runs into an assertion** (`legislator.cpp:4044`).
   After its last vote is rejected a replica stays in the relinquishing mode. When it
   wins the next election it sends no vote, but the timer of its prepare is armed, and
   `ReSendCurrentVote` asserts a vote that is not there.
3. **A decision is ignored after a re-vote** (`legislator.cpp:4868`). A member of the new
   configuration that accepted the reconfiguration vote again under a later ballot finds
   another ballot in the decision, returns, and stays behind for ever.
4. **A cookie is handed back twice** (`legislator.cpp:3888`). `AbortReplicateRequests`
   calls `AbortRequest` for the cookies of the outstanding vote, and `rsl.h:1175` lets the
   application delete them there. The vote is still the accepted one. If the replica is
   elected again and its own vote is the freshest, it proposes a copy that has the same
   cookies, and `ExecuteReplicatedRequest` is called with them.
5. **A heartbeat can meet another replica's ballot** (`legislator.cpp:2577`). The comment at
   line 1772 relies on `m_hbLock` for mutual exclusion with the main loop, but
   `HandleNewVotes` does not take it. A vote that overtakes the prepare of its ballot makes a
   primary a secondary and raises `m_maxBallot` while the independent heartbeat thread is
   between its checks and `SendNextVote`, which then fails its assertion (line 3979).

Stated as an exception in a property that holds. In each of these cases the code breaks
what the property says otherwise; the model takes the step, and the property names it:

| Property | Exception | Code |
|---|---|---|
| `HeartbeatLocked` | finding 5; that no vote is outstanding has no exception | `legislator.cpp:2577` |
| `ReadsKept` | `Stop` aborts a waiting read and leaves it in `m_fastReadTimeoutQ`: a read loop, which `Unload` ends later, may take it as late and call it back again (`rdTouched`) | `legislator.cpp:2085` |
| `RestoresConfiguration` | a replica that restarts with prepares and no vote in its log, after it copied a checkpoint, writes that log file again from its start: a vote of a lower ballot takes the place of the prepare it had answered (`stale`; as finding 1, in a later configuration) | `legislator.cpp:5687` |
| `CheckpointsRestore` | a checkpoint copied beside the main thread is ahead of the log, and a ballot above the one in its header was promised since, in records the checkpoint covers: the promise is forgotten or an assertion fails | `legislator.cpp:5670` |
| `Bootstrapped` | the caller's first checkpoint could not be renamed, which `CheckpointDone` only logs: after a restart it may bootstrap another set (`bunsaved`). A member with the same trouble counts as having the set | `legislator.cpp:5206` |
| `StreamsFaithful` | without blocks, `Skip` of a buffer or more starts from the reads issued ahead, and a write that fails inside `Flush` is not noticed; with them, `Seek` drops the result of a failed `Reset`. `Seek` without blocks is not modelled | `apdiskio.cpp`, `rsl.cpp` |
| `StoreDurable` | a log reopened after a failed write holds records that were never flushed, which `open_with` takes for durable: they count in `durable_max_decree` and may be lost until the next flush, and leave a hole if the next log was begun | `log.rs:1229` |
| `WaitsEnd` | `Unload` called during `Pause` or `Resume`: `m_paused` holds one of the two requests. A `FastReadLoop` that begins when the others have ended sleeps for ever (`Stranded`) | `legislator.cpp:6326`, `2030` |
| `CallbacksAlone` | a `StartImpl` that failed leaves the threads it had started; a fetch, copying or read thread that has not begun is not in `m_numThreads` and is not waited for | `legislator.cpp:6326` |
| `NothingStalls` | `Stop` while a timeout callback closes the connection: each waits for the other's mutex (`stuck`). `Stop` of a client whose closed connection was given packets: `ReConnect` fails its assertion on the service (`crashed`). In both cases the packets stay where they are, unanswered | `NetPacketSvc.cpp:160`, `NetCxn.cpp:679` |
| `PacketsInOrder`, `NothingStalls`, `NothingDangles` | `ResumeReceive` finds a packet larger than the ring and replaces the buffer of a read under way: what that read brings is lost (`swapped`) | `NetCxn.cpp:296` |
| `NothingStalls` | a connect whose socket could not be set up, of which nobody is told, and an I/O whose completion the main loop drops (`lost`): the connection is left for ever | `NetVConnection.cpp` |
| `LearnedWhole` | the Rust learner leaves its temporary file behind when `publish` cannot reopen or rename it | `learnport/client.rs` |

`HealthTruthful` says one direction only: a member counted as failed has failed three times
with no success since. `VerifyMessage` marks a member as up on any message, however old, and
keeps the count of its failures.

Met while modelling; the models contain the behaviour, and no run is about it:

* `legislator.cpp:2590`: a vote below the promise is logged and becomes the accepted vote,
  and is answered NotAccepted; `paxos.txt:291` rejects it. `Agreement` holds with it.
* With `InMemoryExecutionQueueSize` equal to `c_ExecutionReadSize` the reader thread is
  never let in and execution starves (`rslconfig.cpp:72`; the `execution` run has one more).
* `log.rs:1241`: an append after a failed write lands behind the partial record, and
  recovery cuts there. `log.rs:1273`: a log whose header page is partly written is refused.
* `dir.rs:241`: `write_defunct_with` truncates the file before it writes the new value.
* `seqwrite.rs:280`: the first caller that sees the error of a ring takes it; later calls,
  `finish` among them, do not return it. After `finish` its threads may stay.
* `apdiskio.cpp:334`: `Reset` keeps an old end-of-file flag.
* `LF.c:4283`: an owner that spins for a lock it already holds exclusively loops for ever;
  `LFLock` therefore does not combine recursion with spinning.
* `legislator.h:104`: a relinquishing replica returns from `HandleNewVotes` (line 2529)
  before it has dequeued the votes it was given, and destroys a queue that `~VoteQueue`
  asserts to be empty.
* `legislator.cpp:2427`: at `Stop`, `AbortReplicateRequests` asserts a cookie for every
  request of the outstanding vote; one first proposed by another replica has none.
* With `AllowPrimaryPromotionWhileCatchingUp`, a replica that is elected with votes still to
  execute and unloaded before it is told so hangs: `ExecuteLoop` waits for the end of the
  transition, which the main thread no longer announces, and `Stop` for the queue
  (`ClientsServed` fails with `CatchingUp = TRUE`; the safety theorems cover both).
* `NetPacketSvc.h:216`: packets that are already in the buffer are delivered after
  `SuspendReceive`.

## The proofs

| Theorem | Module | Property | Run |
|---|---|---|---|
| `TypeCorrect` | `AgreementProofs` | `TypeOK` | `consensus` |
| `Durability` | `AgreementProofs` | `RestoreSound` | `consensus` |
| `LogIsSequential` | `AgreementProofs` | `LogSequential` | `consensus` |
| `PromisesKept` | `AgreementProofs` | `PromiseKept` | `consensus` |
| `LearnerAligned` | `AgreementProofs` | `LearnAligned` | `consensus` |
| `ReplicasAgree` | `AgreementProofs` | `Agreement` | `consensus` |
| `OneVote` | `AgreementProofs` | `OneVotePerBallot` | `consensus` |
| `PassedIsChosen` | `AgreementProofs` | `PassedChosen` | `consensus` |
| `PassesInOrder` | `AgreementProofs` | `PassInOrder` | `consensus` |
| `AssertsHold` | `AgreementProofs` | `HandlerAsserts` | `consensus` |
| `Implements` | `AgreementProofs` | `ImplementsReplicatedLog` | `consensus` |
| `CookiesSafe` | `ReplicaProofs` | `CookiesKept` | `clients` |
| `HeartbeatSafe` | `ReplicaProofs` | `HeartbeatLocked` | `clients` |
| `PacketServiceSafe` | `PacketProofs` | `ActorAnswersOnce`, `TableEntryOpen`, `ActorInOrder` | parts of `PacketsConserved`, `NothingDangles`, `PacketsInOrder` in `network` |
| `PacketServiceImplements` | `PacketProofs` | `ActorKeepsContract` | a part of `KeepsSendContract` in `network` |
| `BootstrapSafe` | `ReplicaProofs` | `Bootstrapped` | `replica` |
| `LockExcludes` | `LockProofs` | `MutualExclusion` | a part of `LocksExclude` in `lf` |
| `ExLockExcludes` | `LockProofs` | `ExMutualExclusion` | a part of `LocksExclude` in `lf` |
| `ExLockWakes` | `LockProofs` | `ExWakesWaiters` | a part of `WaitersWoken` in `lf` |

They hold for every value of the constants that satisfies the named assumptions:

* `MemberAssumption`, `ValueAssumption`, `BoundAssumption` (`Legislator`): a finite
  configuration of at least two members, any values, any bounds. The theorems about
  `Legislator` are about `Spec`, with its restriction on crashes: without it
  `Agreement` is false (finding 1).
* `ClientRequestsAssumption`: any requests and any number of elections, votes of others
  and heartbeats, in every mode, inversions of votes and prepares included: what an
  inversion does to the heartbeat thread is part of what `HeartbeatSafe` states.
* `ActorAssumption`: any packets, any number of connections, dials and closes.
* `BootstrapAssumption`: finitely many members, any sets of them as arguments, and one
  member on which `Bootstrap` is called, as often as its operator likes. Two operators
  that call it on two members with two sets can of course disagree. Any checkpoint may
  fail to be renamed, at any member; `Bootstrapped` promises nothing once that has
  happened to the caller.
* `LFLockAssumption` and `LFExLockAssumption`: finitely many threads, any number of
  calls.

### The log, promises and learning

Every action has one of three effects on a log and on the memory that
goes with it (`LogEffect`): none, a prepare at or above the accepted decree, or a vote
that is `IsNextDecree` of the accepted one. An append of the second or third kind is
replayed and changes what replay computes exactly as memory changed (`DurableAppend`),
and keeps the log sequential (`SequentialAppend`). That each action has such an effect
needs more than types. For the learner it needs `LearnAligned`: the last vote it read
is the last vote before its position, is not behind its accepted decree and not above
its accepted ballot. Without it a copied prepare could land below the learner's own
last vote, and be skipped at replay. `LearnAligned` in turn needs sequential logs, of
the replica that is read and of the learner. So the invariant is the conjunction of
durable logs, sequential logs, `LearnAligned` and `PromiseCoversVote`
(`DurabilityInv`), with the promise that every PrepareAccepted sent is covered by the
sender's ballot. `LogProofs` has what an append does, `LegislatorProofs` proves the
invariant action by action (`InductiveStep`), and `AgreementProofs` for all behaviours
(`Inductive`).

### Agreement

RSL's Paxos keeps one vote per replica, accepts a vote below its promise without
answering it, copies votes from logs and makes up missing ones. So the textbook
invariant, stated over what a replica has accepted, does not hold, and the proof speaks
of what was *said*. A replica *casts* a vote when it sends it as the owner of its
ballot, or answers VoteAccepted. The invariant of the agreement proofs is `VotingInv`,
on top of the durability invariant (`Base`):

* `CastInv`: a replica holds the last vote it has cast, or a later one; only votes that
  were sent are cast.
* `OneValue`: a ballot has one value per decree.
* `SafeInv`: every vote that was sent is safe: each lower ballot has proposed the same
  value for the decree, or some quorum has promised more and not cast under it, so that
  it never will be chosen. With the intersection of quorums, two chosen votes for a decree
  have one value. And a quorum has joined the ballot without having cast anything for a
  later decree below it.
* `GenuineInv`: a vote held, logged, or reported with a PrepareAccepted has a value that
  was sent for its decree under its ballot, or a higher one where the ballot was made up
  (`LearnMissing`), and the decree before it is decided.
* `PromiseInv`: what the sender of a PrepareAccepted has cast below the ballot is no
  fresher than the vote it reports. One vote is enough because a prepare is answered only
  by a member that is not ahead of it, and asks for a decree its owner has accepted.
* `PassedInv`: what was executed is the value of a chosen vote, for every decree in turn.
* `RoleInv`: a candidate holds the freshest vote of those that have joined it; a primary
  holds its own outstanding vote, and the answers it has counted are votes cast.

`ElectionProofs` has the theory of quorums, casts and safe votes, free of the handlers,
and names six kinds of step (`KindOf`): a replica listens, joins a ballot, proposes,
accepts, passes, or restores. It shows that every action is of one of the kinds, where
the hard part is that what a candidate with a quorum, or a primary whose vote was
accepted, proposes is safe. `PrimaryProofs` shows that every step keeps the roles and the
rest of `VotingInv` (`VotingStep`), and what `VotingInv` says of the properties. Two facts
are hypotheses there: that a nonempty set of positions has a greatest one (`MaximaExist`),
and that majorities meet (`QuorumFacts`). `AgreementProofs` proves both from the library
(`MaximaFact`, `QuorumFact`) and derives the theorems, which have no hypotheses left. The refinement maps the decided entries of `ReplicatedLog` to `passed` and
what a replica has applied to `lastPassed`: `StepImplements` shows that each
step applies the next decree with the value decided for it, if there is one (`Apply`),
resumes at a decree the replica had reached (`Recover`), or is a stutter.

### Client requests

A cookie goes from `m_votesToSend` to the outstanding vote and to the execution queue,
and each of the main, heartbeat and execute threads and `Stop` may call it back. That it
is executed at most once is not inductive: the accepted vote keeps the cookie after it
was aborted, and a new term proposes it again. `ClientInv` says where a cookie is
(`Placed`: it is queued before anything else happens to it; once the accepted vote has
passed, the cookie waits for execution or has been answered) and counts callbacks with
the ones that are still to come against the terms the replica has begun (`Counted`: a
replica that prepares has not yet proposed again). `Threads` has what a thread relies on
at each wait: who holds `m_hbLock`, that a replica which drains is not the primary, that
the execution queue is empty when aborting begins, and that a heartbeat thread which has
passed its checks finds the state it checked, unless the main thread has handled an
inversion since (`inverted`). `Settled` is the point: when
`NotifyStatus` or `ShutDown` is called, nothing is left to answer.

### The Rust packet service

`ActorInv`: the packets a connection owes an outcome stand in one line, its send queue
followed by its inbox, in the order in which `send()` accepted them (`LineOK`); its frames
were written in that order and none is later than what is in line (`WroteOK`); no packet
is in two lines (`Apart`); a packet that was accepted is in a line and has no outcome, or
is in none and has exactly one, and `Success` means that its frame was written
(`FatesOK`); and the table's connection still reads its inbox (`ServiceOK`). The order
has to be about the whole line, because a connection that is lost writes the frame at its
head once more on the next one, and an inbox is appended to a send queue that still holds
older packets. Each action moves a prefix of the inbox, or takes one packet out of the
line, or empties it; `ConnStep` shows once that answering what leaves a line is enough.
The same lemma gives the refinement: `FateStep` says that a packet only goes from unsent
to taken or refused and from taken to one outcome, which is what `SendContract` allows.

### Bootstrap

`BootstrapInv`, as long as the caller's checkpoint got its name (`CallerSaved`, which no
step restores once it is lost): memory is what the disk has, or the member failed to rename
its checkpoint (`MemoryIsDisk`); the caller writes its set to its own disk before any
invitation leaves, so that every invitation, pending set and disk has the caller's set
(`CallerFirst`); whoever was elected, has voted or has returned RSLSuccess was preceded by a
majority of members that have written the set, whether or not the file got its name, and
what is on disk stays (`MajorityKnows`).

### The locks

`LockInv` for the reader-writer lock: the counters of the state word are the numbers of
the shared locks held and of the registered writers (`LockCounts`); ExActive has one
owner, who holds one lock more than `dwRecursion` counts, and nobody else holds anything
(`LockOwner`); whoever waits holds nothing (`LockWaiting`); ExUpgrade belongs to one
waiting thread and keeps ExActive clear (`LockUpgrade`). The last one is what makes an
upgrade that fails safe: it takes its shared lock back without looking at the word.
`ExInv` for the exclusive lock is similar, and adds that a released lock with waiters has
its event set, or a thread that is about to set or to use it (`ExSignalled`).

### What stays with TLC

* Liveness (`ExecutionGoesOn`, `ClientsServed`, `MembersReached`): the prover does not
  handle fairness and ENABLED.
* What a replay or an encoding computes from all of its input (`RestoresConfiguration`,
  `CheckpointsRestore`, `StoreDurable`, `MessagesFaithful`, `StreamsFaithful`): these
  are folds over data, and the prover has no induction over data; modules with recursive
  operators are out of its reach altogether. In the proofs about logs, replay is stated
  by what the last record of each kind says, which needs no induction.
* Sums and filters over data: `QueueSound` (the size of the execution queue is a fold over
  its votes), `ReadsKept` (a selection of a sequence), `HealthTruthful` (bags of requests).
* The remaining invariants of the threads, the network and the LF library, which have no
  proof yet: `Lifecycle`, the C++ packet service and connections, `LFLock`'s wakeups,
  `LFPool`, the stack and the queue.

## Not modelled

* Logging, time and string utilities, statistics (`logging.cpp`, `utils.cpp`); thin
  wrappers of files and sockets (`StreamIO.cpp`); the completion-port loop, accept and
  packet memory (`NetProcessor.cpp`, `NetAccept.cpp`, `NetPacket.cpp`), which are seen
  through the events they deliver.
* The TLS libraries under `NetSslCxn` and the Rust port: external code and its
  configuration.
* Creation, destruction and statistics of LF objects.
* `Legislator`'s `Replay` tool, sector-size probing and parameter parsing.
* The managed wrapper, samples, oracles and tests. They were read for what they expect
  of the library.
