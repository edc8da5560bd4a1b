-------------------------- MODULE GpuMoveInference --------------------------
(***************************************************************************)
(* The engine that infers moves between two captured frames by comparing   *)
(* tile hashes on the GPU (src/gpu/gpu_move_inference.cpp): its state is a *)
(* record and its member functions are operators on it.  A frame's hashes  *)
(* are its sequence, or NoHash once its submission is cancelled.           *)
(* Readbacks are kept in submission order, so serial numbers and tokens    *)
(* are left out: the provisional submission's readback, if it has one, is  *)
(* the last.                                                               *)
(***************************************************************************)
EXTENDS Integers, Sequences

CONSTANT ReadbackSlots   \* config.readback_slots

ASSUME ReadbackAssumption == ReadbackSlots \in Nat \ {0}

NoHash == 0
NoEngine == [initialized |-> FALSE]
NotActive == [active |-> FALSE]

\* create.  The source is the texture's size and the region in it.
CreateEngine(width, source) ==
    [initialized |-> TRUE, width |-> width, source |-> source,
     hasPrevious |-> FALSE, previousSequence |-> 0, lastSequence |-> 0,
     hash |-> [current |-> NoHash, previous |-> NoHash],
     readbacks |-> <<>>, submission |-> NotActive]

PendingCount(engine) ==
    IF engine.initialized THEN Len(engine.readbacks) ELSE 0

\* reconfigure_source, for a source the region fits in.
ReconfigureSource(engine, source) ==
    IF engine.source = source THEN engine
    ELSE [engine EXCEPT !.source = source, !.hasPrevious = FALSE,
                        !.previousSequence = 0]

\* submit refuses a sequence that does not increase and a submission before
\* the last one was finalized.
MaySubmit(engine, sequence) ==
    ~engine.submission.active /\ sequence > engine.lastSequence

\* What submit schedules: a match is dispatched unless there is nothing to
\* compare, too many candidate tiles, none, or no free readback slot.
Scheduled(engine, dirty, overflow) ==
    /\ engine.hasPrevious /\ ~overflow /\ dirty # {}
    /\ Len(engine.readbacks) < ReadbackSlots

\* submit.  The new hash is written over the current buffer, and the buffers
\* are swapped.
Submit(engine, sequence, scheduled) ==
    [engine EXCEPT
        !.readbacks = IF scheduled
            THEN Append(@, [sequence |-> sequence,
                            base |-> engine.previousSequence,
                            from |-> engine.hash.previous, to |-> sequence,
                            discard |-> FALSE, completed |-> FALSE])
            ELSE @,
        !.submission = [active |-> TRUE, scheduled |-> scheduled,
                        hasPrevious |-> engine.hasPrevious,
                        previousSequence |-> engine.previousSequence,
                        lastSequence |-> engine.lastSequence],
        !.hash = [current |-> @.previous, previous |-> sequence],
        !.previousSequence = sequence,
        !.lastSequence = sequence,
        !.hasPrevious = TRUE]

\* commit_submission
CommitSubmission(engine) == [engine EXCEPT !.submission = NotActive]

\* Mutant of CancelSubmission: the histories stay swapped.
CancelWithoutSwap(engine) ==
    [engine EXCEPT
        !.readbacks = IF engine.submission.scheduled
                      THEN [@ EXCEPT ![Len(@)].discard = TRUE] ELSE @,
        !.hash.previous = NoHash,
        !.previousSequence = engine.submission.previousSequence,
        !.lastSequence = engine.submission.lastSequence,
        !.hasPrevious = engine.submission.hasPrevious,
        !.submission = NotActive]

\* cancel_submission: the readback is discarded, the baseline restored.  The
\* hash buffers are swapped back.
CancelSubmission(engine) ==
    [engine EXCEPT
        !.readbacks = IF engine.submission.scheduled
                      THEN [@ EXCEPT ![Len(@)].discard = TRUE] ELSE @,
        !.hash = [current |-> NoHash, previous |-> @.current],
        !.previousSequence = engine.submission.previousSequence,
        !.lastSequence = engine.submission.lastSequence,
        !.hasPrevious = engine.submission.hasPrevious,
        !.submission = NotActive]

\* reset_baseline, when no submission is provisional.
ResetBaseline(engine) ==
    [engine EXCEPT !.hasPrevious = FALSE, !.previousSequence = 0]

\* try_resolve looks at the oldest readback, unless it is the provisional
\* submission's.
Resolvable(engine) ==
    /\ engine.initialized /\ engine.readbacks # <<>>
    /\ ~(engine.submission.active /\ engine.submission.scheduled
            /\ Len(engine.readbacks) = 1)
    /\ Head(engine.readbacks).completed

\* try_resolve, once it has copied the result.
PopReadback(engine) == [engine EXCEPT !.readbacks = Tail(@)]

\* The GPU executes the copies in order (external).
NextCompleted(engine) ==
    {i \in 1..PendingCount(engine) :
        /\ ~engine.readbacks[i].completed
        /\ \A j \in 1..(i - 1) : engine.readbacks[j].completed}

Complete(engine, i) == [engine EXCEPT !.readbacks[i].completed = TRUE]
=============================================================================
