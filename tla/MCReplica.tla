------------------------------ MODULE MCReplica ------------------------------
(***************************************************************************)
(* What a replica keeps and how it comes and goes, part by part: its log   *)
(* files and checkpoints, the Rust port's store under power loss, the      *)
(* sequential writers and readers of either language, the votes it holds   *)
(* back, its threads, and its bootstrap.  A behaviour is one of one part.  *)
(***************************************************************************)
EXTENDS Storage, DurableStore, SeqWriter, SeqReader, CheckpointStream,
        VoteCache, Lifecycle, Bootstrap

CONSTANT Parts    \* the parts of the run

VARIABLE part

\* The pages of the records of the three decrees.
MCRecordPages == <<2, 1, 1>>

StoreBound(d, v, p, f, l, x, e) ==
    [decree |-> d, ballot |-> v, publishes |-> p, defunct |-> f, losses |-> l,
     faults |-> x, events |-> e]
MCStoreBounds ==
    {StoreBound(3, 1, 1, 0, 1, 1, 2), StoreBound(2, 2, 1, 0, 1, 1, 2),
     StoreBound(1, 1, 0, 1, 1, 1, 2)}

\* Checkpoints with and without block checksums, read with the calls given.
StreamMode(b, c, n, f, bad) ==
    [blocks |-> b, calls |-> c, size |-> n, fails |-> f, bad |-> bad]
MCStreamModes ==
    {StreamMode(TRUE, {"skip"}, 12, 2, FALSE), StreamMode(TRUE, {}, 8, 0, TRUE),
     StreamMode(FALSE, {"skip"}, 12, 1, FALSE),
     StreamMode(TRUE, {"skip", "seek"}, 8, 1, FALSE)}

BallotOf(i, m) == [id |-> i, mem |-> m]
VoteOf(d, b, c) ==
    [dec |-> d, bal |-> b, from |-> b.mem, rel |-> FALSE, conf |-> c]
MCVotes ==
    {VoteOf(d, BallotOf(1, 2), 1) : d \in 1 .. 3}
    \cup {VoteOf(2, BallotOf(2, 3), 1), VoteOf(3, BallotOf(2, 3), 2),
          [VoteOf(3, BallotOf(1, 2), 1) EXCEPT !.rel = TRUE]}
MCBallots == {BallotOf(1, 2), BallotOf(2, 3), BallotOf(2, 1)}

MCMemberSets == {{1, 2, 3}, {1, 2}}

-----------------------------------------------------------------------------
replicaVars == <<part, storageVars, storeVars, wvars, rvars, cvars, vcvars,
                 uvars, bvars>>

\* The parts a behaviour is not about stay in one initial state.
InitReplica ==
    /\ part \in Parts
    /\ part = "store" \/ bound = CHOOSE b \in Bounds : TRUE
    /\ part = "stream" \/ cmode = CHOOSE m \in StreamModes : TRUE
    /\ part = "reader" \/ ropen = ROpenAt(CHOOSE n \in RSizes : TRUE,
                                          CHOOSE n \in ROffsets : TRUE)
    /\ InitStorage /\ InitStore /\ InitSeqWriter /\ InitSeqReader
    /\ InitCheckpointStream /\ InitVoteCache /\ InitLifecycle /\ InitBootstrap
    /\ part = "writer" \/ wcaller.inline = CHOOSE i \in WInline : TRUE

NextReplica ==
    \/ /\ part = "storage" /\ NextStorage
       /\ UNCHANGED <<part, storeVars, wvars, rvars, cvars, vcvars, uvars, bvars>>
    \/ /\ part = "store" /\ NextStore
       /\ UNCHANGED <<part, storageVars, wvars, rvars, cvars, vcvars, uvars, bvars>>
    \/ /\ part = "writer" /\ NextSeqWriter
       /\ UNCHANGED <<part, storageVars, storeVars, rvars, cvars, vcvars, uvars, bvars>>
    \/ /\ part = "reader" /\ NextSeqReader
       /\ UNCHANGED <<part, storageVars, storeVars, wvars, cvars, vcvars, uvars, bvars>>
    \/ /\ part = "stream" /\ NextCheckpointStream
       /\ UNCHANGED <<part, storageVars, storeVars, wvars, rvars, vcvars, uvars, bvars>>
    \/ /\ part = "votes" /\ NextVoteCache
       /\ UNCHANGED <<part, storageVars, storeVars, wvars, rvars, cvars, uvars, bvars>>
    \/ /\ part = "threads" /\ NextLifecycle
       /\ UNCHANGED <<part, storageVars, storeVars, wvars, rvars, cvars, vcvars, bvars>>
    \/ /\ part = "bootstrap" /\ NextBootstrap
       /\ UNCHANGED <<part, storageVars, storeVars, wvars, rvars, cvars, vcvars, uvars>>

SpecReplica == InitReplica /\ [][NextReplica]_replicaVars

-----------------------------------------------------------------------------
\* What a sequential writer reported as written is what its reader reads: the
\* Rust SeqWriter and SeqReader, and the C++ checkpoint streams over APSEQWRITE
\* and APSEQREAD, whose Verify sees what was spoiled.
StreamsFaithful ==
    /\ part = "writer" => FinishedFileWhole /\ BlocksInPlace
    /\ part = "reader" => StreamRead
    /\ part = "stream" => NeverWrongData /\ VerifiedWhole /\ BuffersInBounds

\* Nobody waits for somebody who has left: the threads of a SeqWriter and a
\* SeqReader for work, Unload and the client for the threads of the replica.
WaitsEnd ==
    /\ part = "writer" => WriterWaitsForWork
    /\ part = "reader" => ReaderWaitsForWork
    /\ part = "threads" => WaitsAnswered

\* What RestoreState can be asked for is there: the newest checkpoint with the
\* logs after it and, when it is damaged, an older one with its own logs.
CheckpointsRestore == RestoreComplete /\ OlderCheckpointUsable

\* Power may fail at any step of the Rust store: what it acknowledged survives,
\* what it published is whole, and the votes in its logs have no gap.
StoreDurable == AckedSurvive /\ PublishedWhole /\ VotesContiguous

\* HandleNewVotes and TryToLearnVotes keep m_voteCache in order and within its
\* limit, what LearnVotes has fetched meets it, and the sender of a vote that was
\* accepted gets its answer.
CachedVotesKept == CacheOrderedAndBounded /\ LearnedUpToCache /\ AcceptedAnswered

\* A callback that must be alone is alone: ShutDown, and whatever the pause of
\* the execution waits for; CopyStateThread ends with one answer, and after
\* Unload nothing runs.
CallbacksAlone ==
    ShutDownAlone /\ PausedQuiet /\ StateCopiedOnce /\ UnloadedQuiet
=============================================================================
