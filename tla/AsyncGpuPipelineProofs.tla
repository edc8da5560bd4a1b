----------------------- MODULE AsyncGpuPipelineProofs -----------------------
(***************************************************************************)
(* Proofs about AsyncGpuPipeline for every queue depth, every number of    *)
(* frames and every set of faults.                                         *)
(***************************************************************************)
EXTENDS AsyncGpuPipeline, FiniteSetTheorems, TLAPS

Sequence == 0 .. MaxSequence
States == {"free", "writing", "ready", "reading"}
Controls == [gen : Sequence, st : States]

\* The part of TypeOK the arguments below need.
RingTyped ==
  /\ control \in [Slot -> Controls]
  /\ payload \in [Slot -> Sequence]
  /\ nextSequence \in Sequence /\ lastProcessed \in Sequence
  /\ subPc \in SubPcs /\ subAt \in 0 .. QueueDepth
  /\ subSlot \in 0 .. QueueDepth /\ subGen \in Sequence
  /\ workPc \in WorkPcs /\ workAt \in 0 .. QueueDepth
  /\ workSlot \in 0 .. QueueDepth /\ workSeq \in Sequence
  /\ SharedBus => lastProcessed <= workSeq
  /\ workPc = "acquire" => SharedBus

SubOwnPcs == {"evict", "write", "reserve", "store"}
SubBusyPcs == {"free", "oldest", "steal"} \cup SubOwnPcs
ReadPcs == {"took", "purge", "purged", "transform"}
RingPcs == {"depth", "pick", "take", "encode"} \cup ReadPcs

\* The submitter owns the slot it writes.
SubmitterOwns ==
  /\ subPc = "steal" => subSlot \in Slot
  /\ subPc \in SubOwnPcs =>
       subSlot \in Slot /\ control[subSlot].st = "writing"
  /\ subPc \in {"reserve", "store"} => payload[subSlot] = nextSequence

\* A ready slot holds the frame its generation names; the frame being
\* submitted is newer than all of them.
FramesMatch ==
  /\ \A s \in Slot : Ready(s) =>
       /\ payload[s] = control[s].gen
       /\ control[s].gen <= nextSequence
       /\ subPc \in SubBusyPcs => control[s].gen < nextSequence
  /\ \A s, t \in Slot :
       Ready(s) /\ Ready(t) /\ control[s].gen = control[t].gen => s = t

\* The worker owns the slot it reads and the slot it empties.
WorkerOwns ==
  /\ workPc \in RingPcs => ~SharedBus
  /\ workPc = "take" => workSlot \in Slot
  /\ workPc = "took" => workAt = 0
  /\ workPc \in ReadPcs =>
       /\ workSlot \in Slot
       /\ control[workSlot] = [gen |-> workSeq, st |-> "reading"]
       /\ payload[workSlot] = workSeq
  /\ workPc = "purged" =>
       /\ workAt \in Slot /\ workAt # workSlot
       /\ control[workAt].st = "writing"
       /\ subPc \in SubOwnPcs => workAt # subSlot

\* What is ready is newer than what was encoded; behind the purge's position
\* it is newer than the frame being read.
NewerRemain ==
  /\ SharedBus => \A s \in Slot : ~Ready(s)
  /\ \A s \in Slot : Ready(s) => control[s].gen > lastProcessed
  /\ workPc \in ReadPcs \cup {"encode"} =>
       /\ workSeq > lastProcessed /\ workSeq <= nextSequence
       /\ subPc \in SubBusyPcs => workSeq < nextSequence
       /\ \A s \in Slot : Ready(s) => control[s].gen # workSeq
  /\ workPc \in {"purge", "purged"} =>
       \A s \in Slot : s < workAt /\ Ready(s) => control[s].gen > workSeq
  /\ workPc \in {"transform", "encode"} =>
       \A s \in Slot : Ready(s) => control[s].gen > workSeq
  /\ lastProcessed <= nextSequence \/ SharedBus
  /\ subPc \in SubBusyPcs => lastProcessed < nextSequence /\ ~SharedBus

\* Nobody submits to a pipeline that is closing.
CloseQuiet ==
  lifePc \in {"closeNotify", "closeJoin", "closed"} =>
    ~accepting /\ subPc = "idle"

RingInv ==
  /\ RingTyped
  /\ SubmitterOwns
  /\ FramesMatch
  /\ WorkerOwns
  /\ NewerRemain
  /\ CloseQuiet

-----------------------------------------------------------------------------
\* The constants, as the provers want them.
LEMMA RingConstants ==
  /\ QueueDepth \in Nat /\ QueueDepth >= 2 /\ MaxSequence \in Nat
  /\ 0 \in Sequence /\ 0 \in 0 .. QueueDepth
  /\ \A s \in 0 .. QueueDepth : s # QueueDepth => s \in Slot
  /\ \A s \in Slot : s \in 0 .. QueueDepth /\ s + 1 \in 0 .. QueueDepth
BY PipelineAssumption DEF Slot, Sequence

\* Storing a whole control word.
LEMMA StoreControl ==
  ASSUME control \in [Slot -> Controls], NEW s \in Slot, NEW c \in Controls,
         control' = [control EXCEPT ![s] = c]
  PROVE  /\ control' \in [Slot -> Controls]
         /\ control'[s] = c
         /\ \A t \in Slot : t # s => control'[t] = control[t]
OBVIOUS

\* Changing only the state of a control word.
LEMMA StoreState ==
  ASSUME control \in [Slot -> Controls], NEW s \in Slot,
         NEW x \in States, SetState(s, x)
  PROVE  /\ control' \in [Slot -> Controls]
         /\ control'[s] = [gen |-> control[s].gen, st |-> x]
         /\ \A t \in Slot : t # s => control'[t] = control[t]
<1> DEFINE c == [control[s] EXCEPT !.st = x]
<1>1. c = [gen |-> control[s].gen, st |-> x]
  BY DEF Controls
<1>2. c \in Controls
  BY <1>1 DEF Controls
<1>3. control' = [control EXCEPT ![s] = c]
  BY DEF SetState
<1> HIDE DEF c
<1> QED
  BY <1>1, <1>2, <1>3

\* The initial state.
LEMMA InitRingInv == Init => RingInv
BY RingConstants
DEF Init, RingInv, RingTyped, Controls, States, SubPcs, WorkPcs, NoSlot,
    NoFrame, SubmitterOwns, SubOwnPcs, SubBusyPcs, FramesMatch, Ready,
    WorkerOwns, ReadPcs, RingPcs, NewerRemain, CloseQuiet, SharedBus

\* Steps of the submitter that leave the ring alone.
LEMMA SubmitScanInv ==
  ASSUME RingInv,
         SubmitEnter \/ ScanOldest \/ PublishReserve \/ RecordFailure
  PROVE  RingInv'
<1> USE RingConstants DEF RingInv, SharedBus, ringVars, flagVars, errorVars,
        statVars, workVars, workLocals, Ready, SubOwnPcs, SubBusyPcs, ReadPcs,
        RingPcs, SubPcs, NoSlot
<1>1. CASE SubmitEnter
  <2>1. RingTyped' /\ SubmitterOwns' /\ CloseQuiet'
    BY <1>1 DEF SubmitEnter, RingTyped, Sequence, SubmitterOwns, CloseQuiet
  <2>2. FramesMatch'
    BY <1>1 DEF SubmitEnter, RingTyped, Sequence, Controls, FramesMatch
  <2>3. WorkerOwns' /\ NewerRemain'
    BY <1>1 DEF SubmitEnter, RingTyped, Sequence, WorkerOwns, NewerRemain
  <2> QED
    BY <2>1, <2>2, <2>3
<1>2. CASE ScanOldest
  <2>1. RingTyped' /\ SubmitterOwns' /\ CloseQuiet'
    BY <1>2 DEF ScanOldest, RingTyped, Controls, SubmitterOwns, CloseQuiet
  <2>2. FramesMatch' /\ WorkerOwns' /\ NewerRemain'
    BY <1>2 DEF ScanOldest, FramesMatch, WorkerOwns, NewerRemain
  <2> QED
    BY <2>1, <2>2
<1>3. CASE PublishReserve
  BY <1>3 DEF PublishReserve, RingTyped, SubmitterOwns, FramesMatch,
              WorkerOwns, NewerRemain, CloseQuiet
<1>4. CASE RecordFailure
  <2>1. /\ UNCHANGED <<control, payload, nextSequence, lastProcessed, subAt,
                       subSlot, subGen, workAt, workSlot, workSeq, lifePc,
                       sourceMode>>
        /\ subPc \in {"record", "reject", "stop", "notify"}
        /\ subPc' \in {"reject", "stop", "notify", "idle"}
        /\ (workPc' = workPc \/ (workPc = "wait" /\ workPc' = "evaluate"))
        /\ (accepting' = accepting \/ accepting' = FALSE)
    BY <1>4 DEF RecordFailure, Notify
  <2> QED
    BY <2>1 DEF RingTyped, WorkPcs, SubmitterOwns, FramesMatch, WorkerOwns,
                NewerRemain, CloseQuiet
<1> QED
  BY <1>1, <1>2, <1>3, <1>4

\* Steps of the submitter that change a slot.
LEMMA SubmitSlotInv ==
  ASSUME RingInv,
         \/ ScanFree \/ StealOldest \/ EvictOldest \/ WriteSlot
         \/ CopyFails \/ PublishStore
  PROVE  RingInv'
<1> USE RingConstants DEF RingInv, SharedBus, ringVars, flagVars, errorVars,
        statVars, workVars, workLocals, Ready, SubOwnPcs, SubBusyPcs, ReadPcs,
        RingPcs, SubPcs, NoSlot
<1> DEFINE others == <<nextSequence, lastProcessed, workAt, workSlot,
                       workSeq, lifePc, accepting, sourceMode>>
<1>1. CASE ScanFree
  <2>1. CASE control' = control
    <3>1. /\ subPc = "free" /\ subPc' \in {"free", "oldest"}
          /\ subSlot' \in {subSlot, QueueDepth} /\ subGen' \in {subGen, 0}
          /\ subAt' \in {0, subAt + 1} /\ (subAt = QueueDepth => subAt' = 0)
          /\ UNCHANGED <<payload, workPc>> /\ UNCHANGED others
      <4>1. ~\E s \in Slot : control[s].st = "free" /\ SetState(s, "writing")
        BY <2>1, StoreState DEF RingTyped, States
      <4> QED
        BY <1>1, <2>1, <4>1 DEF ScanFree, RingTyped
    <3> QED
      BY <2>1, <3>1 DEF RingTyped, SubmitterOwns, FramesMatch,
                        WorkerOwns, NewerRemain, CloseQuiet
  <2>2. CASE control' # control
    <3>1. /\ subAt \in Slot /\ control[subAt].st = "free"
          /\ SetState(subAt, "writing") /\ "writing" \in States
          /\ subPc = "free" /\ subPc' = "write" /\ subSlot' = subAt
          /\ UNCHANGED <<payload, subAt, subGen, workPc>>
          /\ UNCHANGED others
      BY <1>1, <2>2 DEF ScanFree, RingTyped, States
    <3>2. /\ control' \in [Slot -> Controls]
          /\ control'[subAt].st = "writing"
          /\ \A t \in Slot : t # subAt => control'[t] = control[t]
      <4>1. control \in [Slot -> Controls]
        BY DEF RingTyped
      <4>2. /\ control' \in [Slot -> Controls]
            /\ control'[subAt] = [gen |-> control[subAt].gen, st |-> "writing"]
            /\ \A t \in Slot : t # subAt => control'[t] = control[t]
        BY ONLY <3>1, <4>1, StoreState
      <4> QED
        BY <4>2
    <3>3. RingTyped' /\ SubmitterOwns' /\ CloseQuiet'
      BY <3>1, <3>2 DEF RingTyped, SubmitterOwns, CloseQuiet
    <3>4. FramesMatch'
      BY <3>1, <3>2 DEF FramesMatch
    <3>5. WorkerOwns' /\ NewerRemain'
      BY <3>1, <3>2 DEF WorkerOwns, NewerRemain
    <3> QED
      BY <3>3, <3>4, <3>5
  <2> QED
    BY <2>1, <2>2
<1>2. CASE StealOldest
  <2>1. CASE ~Unchanged(subSlot, subGen)
    BY <1>2, <2>1 DEF StealOldest, RingTyped, SubmitterOwns, FramesMatch,
                      WorkerOwns, NewerRemain, CloseQuiet
  <2>2. CASE Unchanged(subSlot, subGen)
    <3>1. /\ subSlot \in Slot /\ control[subSlot].st = "ready"
          /\ SetState(subSlot, "writing") /\ "writing" \in States
          /\ subPc = "steal" /\ subPc' = "evict"
          /\ UNCHANGED <<payload, subAt, subSlot, subGen, workPc>>
          /\ UNCHANGED others
      BY <1>2, <2>2 DEF StealOldest, Unchanged, SubmitterOwns, States
    <3>2. /\ control' \in [Slot -> Controls]
          /\ control'[subSlot].st = "writing"
          /\ \A t \in Slot : t # subSlot => control'[t] = control[t]
      <4>1. control \in [Slot -> Controls]
        BY DEF RingTyped
      <4>2. /\ control' \in [Slot -> Controls]
            /\ control'[subSlot] =
                 [gen |-> control[subSlot].gen, st |-> "writing"]
            /\ \A t \in Slot : t # subSlot => control'[t] = control[t]
        BY ONLY <3>1, <4>1, StoreState
      <4> QED
        BY <4>2
    <3>3. RingTyped' /\ SubmitterOwns' /\ CloseQuiet'
      BY <3>1, <3>2 DEF RingTyped, SubmitterOwns, CloseQuiet
    <3>4. FramesMatch'
      BY <3>1, <3>2 DEF FramesMatch
    <3>5. WorkerOwns' /\ NewerRemain'
      BY <3>1, <3>2 DEF WorkerOwns, NewerRemain
    <3> QED
      BY <3>3, <3>4, <3>5
  <2> QED
    BY <2>1, <2>2
<1>3. CASE EvictOldest
  BY <1>3 DEF EvictOldest, NoFrame, RingTyped, SubmitterOwns, FramesMatch,
              WorkerOwns, NewerRemain, CloseQuiet
<1>4. CASE WriteSlot
  BY <1>4 DEF WriteSlot, RingTyped, SubmitterOwns, FramesMatch, WorkerOwns,
              NewerRemain, CloseQuiet
<1>5. CASE CopyFails
  <2>1. /\ subSlot \in Slot /\ control[subSlot].st = "writing"
        /\ control' = [control EXCEPT ![subSlot] =
                         [gen |-> nextSequence, st |-> "free"]]
        /\ subPc = "write" /\ subPc' = "record"
        /\ UNCHANGED <<payload, subAt, subSlot, subGen, workPc>>
        /\ UNCHANGED others
    BY <1>5 DEF CopyFails, SubmitterOwns
  <2>2. [gen |-> nextSequence, st |-> "free"] \in Controls
    BY DEF RingTyped, Controls, States
  <2>3. /\ control' \in [Slot -> Controls]
        /\ control'[subSlot].st = "free"
        /\ \A t \in Slot : t # subSlot => control'[t] = control[t]
    BY <2>1, <2>2, StoreControl DEF RingTyped
  <2> QED
    BY <2>1, <2>3 DEF RingTyped, SubmitterOwns, FramesMatch, WorkerOwns,
                      NewerRemain, CloseQuiet
<1>6. CASE PublishStore
  <2>1. /\ subSlot \in Slot /\ control[subSlot].st = "writing"
        /\ payload[subSlot] = nextSequence
        /\ control' = [control EXCEPT ![subSlot] =
                         [gen |-> nextSequence, st |-> "ready"]]
        /\ subPc = "store" /\ subPc' = "idle"
        /\ UNCHANGED <<payload, subAt, subSlot, subGen>>
        /\ UNCHANGED others
        /\ (workPc' = workPc \/ (workPc = "wait" /\ workPc' = "evaluate"))
    BY <1>6 DEF PublishStore, SubmitterOwns, Notify
  <2>2. [gen |-> nextSequence, st |-> "ready"] \in Controls
    BY DEF RingTyped, Controls, States
  <2>3. /\ control' \in [Slot -> Controls]
        /\ control'[subSlot] = [gen |-> nextSequence, st |-> "ready"]
        /\ \A t \in Slot : t # subSlot => control'[t] = control[t]
    BY <2>1, <2>2, StoreControl DEF RingTyped
  <2>4. RingTyped' /\ SubmitterOwns' /\ CloseQuiet'
    BY <2>1, <2>3 DEF RingTyped, WorkPcs, SubmitterOwns, CloseQuiet
  <2>5. FramesMatch'
    BY <2>1, <2>3 DEF RingTyped, Sequence, Controls, FramesMatch
  <2>6. WorkerOwns' /\ NewerRemain'
    BY <2>1, <2>3 DEF RingTyped, Sequence, Controls, WorkerOwns, NewerRemain
  <2> QED
    BY <2>4, <2>5, <2>6
<1> QED
  BY <1>1, <1>2, <1>3, <1>4, <1>5, <1>6

\* Steps of the worker that leave the ring alone.
LEMMA WorkerQuietInv ==
  ASSUME RingInv,
         \/ WorkerStart \/ WorkerLoop \/ WorkerDepth \/ PickNewest
         \/ TookNewest \/ WorkerThrows \/ WorkerDrain \/ WorkerWait
         \/ BusTimeout \/ BusReject \/ WorkerEnding \/ FinishPublish
  PROVE  RingInv'
<1> USE RingConstants DEF RingInv, SharedBus, ringVars, flagVars, errorVars,
        statVars, subVars, workLocals, Ready, SubOwnPcs, SubBusyPcs, ReadPcs,
        RingPcs, NoSlot, WorkerFinal
<1> DEFINE kept == <<control, payload, nextSequence, lastProcessed, subPc,
                     subAt, subSlot, subGen, lifePc, accepting, sourceMode>>
<1>1. CASE WorkerDepth
  BY <1>1 DEF WorkerDepth, RingTyped, WorkPcs, SubmitterOwns, FramesMatch,
              WorkerOwns, NewerRemain, CloseQuiet
<1>2. CASE PickNewest
  <2>1. /\ UNCHANGED kept
        /\ workPc = "pick" /\ workPc' \in {"pick", "drain", "take"}
        /\ workAt' \in 0 .. QueueDepth /\ workSeq' \in Sequence
        /\ workSlot' \in 0 .. QueueDepth
        /\ (workPc' = "take" => workSlot' \in Slot)
    BY <1>2 DEF PickNewest, RingTyped, Controls
  <2> QED
    BY <2>1 DEF RingTyped, WorkPcs, SubmitterOwns, FramesMatch, WorkerOwns,
                NewerRemain, CloseQuiet
<1>3. CASE TookNewest
  <2>1. /\ UNCHANGED kept
        /\ UNCHANGED <<workAt, workSlot, workSeq>>
        /\ workPc = "took" /\ workPc' = "purge" /\ workAt = 0
        /\ \A s \in Slot : ~(s < 0)
    BY <1>3 DEF TookNewest, WorkerOwns, Slot
  <2> QED
    BY <2>1 DEF RingTyped, WorkPcs, SubmitterOwns, FramesMatch, WorkerOwns,
                NewerRemain, CloseQuiet
<1>4. CASE \/ WorkerStart \/ WorkerLoop \/ WorkerThrows \/ WorkerDrain
           \/ WorkerWait \/ BusTimeout \/ BusReject \/ WorkerEnding
           \/ FinishPublish
  <2>1. /\ UNCHANGED kept
        /\ UNCHANGED <<workAt, workSlot, workSeq>>
        /\ workPc' \in {"loop", "finish", "ending", "acquire", "depth",
                        "evaluate", "block", "wait", "done"}
        /\ (workPc' = "acquire" => SharedBus)
        /\ (workPc' = "depth" => ~SharedBus)
    BY <1>4 DEF WorkerStart, WorkerLoop, WorkerThrows, WorkerDrain,
                WorkerWait, BusTimeout, BusReject, WorkerEnding,
                FinishPublish
  <2> QED
    BY <2>1 DEF RingTyped, WorkPcs, SubmitterOwns, FramesMatch, WorkerOwns,
                NewerRemain, CloseQuiet
<1> QED
  BY <1>1, <1>2, <1>3, <1>4

\* Steps of the worker that encode.
LEMMA WorkerEncodeInv ==
  ASSUME RingInv, Encode \/ BusFrame
  PROVE  RingInv' /\ (lastProcessed' # lastProcessed
                        => lastProcessed' > lastProcessed)
<1> USE RingConstants DEF RingInv, SharedBus, ringVars, flagVars, errorVars,
        statVars, subVars, workLocals, Ready, SubOwnPcs, SubBusyPcs, ReadPcs,
        RingPcs, WorkerFinal
<1> DEFINE kept == <<control, payload, nextSequence, subPc, subAt, subSlot,
                     subGen, lifePc, accepting, sourceMode, workAt, workSlot>>
<1>1. CASE Encode
  <2>1. /\ UNCHANGED kept /\ workSeq' = workSeq
        /\ workPc = "encode" /\ workPc' \in {"loop", "ending"}
        /\ lastProcessed' \in {lastProcessed, workSeq}
        /\ ~SharedBus /\ workSeq > lastProcessed
    BY <1>1 DEF Encode, WorkerOwns, NewerRemain
  <2>2. RingTyped' /\ SubmitterOwns' /\ FramesMatch' /\ CloseQuiet'
    BY <2>1 DEF RingTyped, WorkPcs, SubmitterOwns, FramesMatch, CloseQuiet
  <2>3. WorkerOwns' /\ NewerRemain'
    BY <2>1 DEF RingTyped, WorkerOwns, NewerRemain
  <2> QED
    BY <2>1, <2>2, <2>3 DEF RingTyped, Sequence
<1>2. CASE BusFrame
  <2>1. /\ UNCHANGED kept /\ workSeq' \in Sequence /\ workSeq' > workSeq
        /\ workPc = "acquire" /\ workPc' \in {"loop", "ending", "finish"}
        /\ lastProcessed' \in {lastProcessed, workSeq'}
        /\ SharedBus
    BY <1>2 DEF BusFrame, RingTyped, Sequence
  <2>2. lastProcessed' <= workSeq' /\ lastProcessed' >= lastProcessed
    BY <2>1 DEF RingTyped, Sequence
  <2>3. RingTyped' /\ SubmitterOwns' /\ FramesMatch' /\ CloseQuiet'
    BY <2>1, <2>2 DEF RingTyped, WorkPcs, SubmitterOwns, FramesMatch,
                      CloseQuiet
  <2>4. WorkerOwns' /\ NewerRemain'
    BY <2>1 DEF WorkerOwns, NewerRemain
  <2> QED
    BY <2>1, <2>2, <2>3, <2>4 DEF RingTyped, Sequence
<1> QED
  BY <1>1, <1>2

\* Steps of the worker that change slots.
LEMMA WorkerSlotInv ==
  ASSUME RingInv,
         TakeNewest \/ PurgeOlder \/ PurgedOlder \/ Transform \/ FinishReject
  PROVE  RingInv'
<1> USE RingConstants DEF RingInv, SharedBus, ringVars, flagVars, errorVars,
        statVars, subVars, workLocals, Ready, SubOwnPcs, SubBusyPcs, ReadPcs,
        RingPcs, NoSlot
<1> DEFINE kept == <<nextSequence, lastProcessed, subPc, subAt, subSlot,
                     subGen, lifePc, accepting, sourceMode>>
<1>1. CASE TakeNewest
  <2>1. CASE ~Unchanged(workSlot, workSeq)
    BY <1>1, <2>1 DEF TakeNewest, RingTyped, WorkPcs, SubmitterOwns,
                      FramesMatch, WorkerOwns, NewerRemain, CloseQuiet
  <2>2. CASE Unchanged(workSlot, workSeq)
    <3>1. /\ UNCHANGED kept /\ UNCHANGED <<payload, workSlot, workSeq>>
          /\ workPc = "take" /\ workPc' = "took" /\ workAt' = 0
          /\ workSlot \in Slot /\ "reading" \in States
          /\ control[workSlot] = [gen |-> workSeq, st |-> "ready"]
          /\ SetState(workSlot, "reading")
      BY <1>1, <2>2 DEF TakeNewest, Unchanged, WorkerOwns, States
    <3>2. /\ control' \in [Slot -> Controls]
          /\ control'[workSlot] = [gen |-> workSeq, st |-> "reading"]
          /\ \A t \in Slot : t # workSlot => control'[t] = control[t]
      <4>1. control \in [Slot -> Controls]
        BY DEF RingTyped
      <4>2. /\ control' \in [Slot -> Controls]
            /\ control'[workSlot] =
                 [gen |-> control[workSlot].gen, st |-> "reading"]
            /\ \A t \in Slot : t # workSlot => control'[t] = control[t]
        BY ONLY <3>1, <4>1, StoreState
      <4> QED
        BY <3>1, <4>2
    <3>3. Ready(workSlot) /\ control[workSlot].gen = workSeq
      BY <3>1
    <3>4. /\ payload[workSlot] = workSeq
          /\ workSeq > lastProcessed /\ workSeq <= nextSequence
          /\ (subPc \in SubBusyPcs => workSeq < nextSequence)
          /\ ~SharedBus
      BY <3>1, <3>3 DEF FramesMatch, NewerRemain, WorkerOwns
    <3>5. RingTyped' /\ SubmitterOwns' /\ CloseQuiet'
      BY <3>1, <3>2, <3>4 DEF RingTyped, WorkPcs, SubmitterOwns, CloseQuiet
    <3>6. FramesMatch'
      BY <3>1, <3>2 DEF FramesMatch
    <3>7. WorkerOwns'
      BY <3>1, <3>2, <3>4 DEF WorkerOwns
    <3>8. \A s \in Slot : Ready(s)' => Ready(s) /\ control[s].gen # workSeq
      BY <3>1, <3>2, <3>3 DEF FramesMatch
    <3>9. NewerRemain'
      BY <3>1, <3>2, <3>4, <3>8 DEF NewerRemain
    <3> QED
      BY <3>5, <3>6, <3>7, <3>9
  <2> QED
    BY <2>1, <2>2
<1>2. CASE PurgeOlder
  <2>0. /\ UNCHANGED kept /\ UNCHANGED <<payload, workSlot, workSeq>>
        /\ workPc = "purge"
    BY <1>2 DEF PurgeOlder
  <2>1. CASE workAt = QueueDepth
    <3>1. workPc' = "transform" /\ UNCHANGED <<control, workAt>>
      BY <1>2, <2>1 DEF PurgeOlder
    <3>2. \A s \in Slot : s < workAt
      BY <2>1 DEF Slot
    <3> QED
      BY <2>0, <3>1, <3>2 DEF RingTyped, WorkPcs, SubmitterOwns, FramesMatch,
                              WorkerOwns, NewerRemain, CloseQuiet
  <2>2. CASE workAt # QueueDepth /\ workAt # workSlot /\ Superseded(workAt)
    <3>1. /\ workAt \in Slot /\ workAt < QueueDepth
          /\ control[workAt].st = "ready"
      BY <2>2 DEF RingTyped, Superseded, Slot
    <3>2. /\ SetState(workAt, "writing") /\ "writing" \in States
          /\ workPc' = "purged" /\ workAt' = workAt
      BY <1>2, <2>2, <3>1 DEF PurgeOlder, States
    <3>3. /\ control' \in [Slot -> Controls]
          /\ control'[workAt].st = "writing"
          /\ \A t \in Slot : t # workAt => control'[t] = control[t]
      <4>1. control \in [Slot -> Controls]
        BY DEF RingTyped
      <4>2. /\ control' \in [Slot -> Controls]
            /\ control'[workAt] =
                 [gen |-> control[workAt].gen, st |-> "writing"]
            /\ \A t \in Slot : t # workAt => control'[t] = control[t]
        BY ONLY <3>1, <3>2, <4>1, StoreState
      <4> QED
        BY <4>2
    <3>4. RingTyped' /\ SubmitterOwns' /\ CloseQuiet'
      BY <2>0, <3>1, <3>2, <3>3 DEF RingTyped, WorkPcs, SubmitterOwns,
                                    CloseQuiet
    <3>5. FramesMatch'
      BY <2>0, <3>2, <3>3 DEF FramesMatch
    <3>6. WorkerOwns'
      BY <2>0, <2>2, <3>1, <3>2, <3>3 DEF WorkerOwns, SubmitterOwns
    <3>7. NewerRemain'
      BY <2>0, <3>2, <3>3 DEF NewerRemain
    <3> QED
      BY <3>4, <3>5, <3>6, <3>7
  <2>3. CASE workAt # QueueDepth /\ ~(workAt # workSlot /\ Superseded(workAt))
    <3>1. workAt \in Slot /\ workAt < QueueDepth
      BY <2>3 DEF RingTyped, Slot
    <3>2. workPc' = "purge" /\ control' = control /\ workAt' = workAt + 1
      BY <1>2, <2>0, <2>3, <3>1 DEF PurgeOlder
    <3>3. Ready(workAt) => control[workAt].gen > workSeq
      <4>1. workSlot \in Slot /\ control[workSlot].st = "reading"
        BY <2>0 DEF WorkerOwns
      <4>2. Ready(workAt) => ~(control[workAt].gen < workSeq)
        BY <2>3, <4>1 DEF Superseded
      <4>3. Ready(workAt) => control[workAt].gen # workSeq
        BY <2>0, <3>1 DEF NewerRemain
      <4>4. control[workAt].gen \in Sequence /\ workSeq \in Sequence
        BY <3>1 DEF RingTyped, Controls
      <4> QED
        BY <4>2, <4>3, <4>4 DEF Sequence
    <3>4. \A s \in Slot : s < workAt + 1 => s < workAt \/ s = workAt
      BY <3>1 DEF Slot
    <3>5. RingTyped' /\ SubmitterOwns' /\ CloseQuiet' /\ FramesMatch'
      BY <2>0, <3>1, <3>2 DEF RingTyped, WorkPcs, SubmitterOwns, CloseQuiet,
                              FramesMatch
    <3>6. WorkerOwns'
      BY <2>0, <3>2 DEF WorkerOwns
    <3>7. NewerRemain'
      BY <2>0, <3>2, <3>3, <3>4 DEF NewerRemain
    <3> QED
      BY <3>5, <3>6, <3>7
  <2> QED
    BY <2>1, <2>2, <2>3
<1>3. CASE PurgedOlder
  <2>1. /\ UNCHANGED kept /\ UNCHANGED <<workSlot, workSeq>>
        /\ workPc = "purged" /\ workPc' = "purge" /\ workAt' = workAt + 1
        /\ workAt \in Slot /\ workAt # workSlot /\ "free" \in States
        /\ payload' = [payload EXCEPT ![workAt] = 0]
        /\ SetState(workAt, "free") /\ control[workAt].st = "writing"
        /\ (subPc \in SubOwnPcs => workAt # subSlot)
    BY <1>3 DEF PurgedOlder, WorkerOwns, States, NoFrame
  <2>2. /\ control' \in [Slot -> Controls]
        /\ control'[workAt].st = "free"
        /\ \A t \in Slot : t # workAt => control'[t] = control[t]
    <3>1. control \in [Slot -> Controls]
      BY DEF RingTyped
    <3>2. /\ control' \in [Slot -> Controls]
          /\ control'[workAt] = [gen |-> control[workAt].gen, st |-> "free"]
          /\ \A t \in Slot : t # workAt => control'[t] = control[t]
      BY ONLY <2>1, <3>1, StoreState
    <3> QED
      BY <3>2
  <2>3. /\ payload' \in [Slot -> Sequence]
        /\ \A t \in Slot : t # workAt => payload'[t] = payload[t]
    BY <2>1 DEF RingTyped
  <2>4. \A s \in Slot : s < workAt + 1 => s < workAt \/ s = workAt
    BY <2>1 DEF Slot
  <2>5. RingTyped' /\ SubmitterOwns' /\ CloseQuiet'
    BY <2>1, <2>2, <2>3 DEF RingTyped, WorkPcs, SubmitterOwns, CloseQuiet
  <2>6. FramesMatch'
    BY <2>1, <2>2, <2>3 DEF FramesMatch
  <2>7. WorkerOwns'
    BY <2>1, <2>2, <2>3 DEF WorkerOwns
  <2>8. NewerRemain'
    BY <2>1, <2>2, <2>4 DEF NewerRemain
  <2> QED
    BY <2>5, <2>6, <2>7, <2>8
<1>4. CASE Transform
  <2>1. /\ UNCHANGED kept /\ UNCHANGED <<workAt, workSlot, workSeq>>
        /\ workPc = "transform" /\ workPc' \in {"encode", "ending"}
        /\ workSlot \in Slot /\ control[workSlot].st = "reading"
        /\ payload' = [payload EXCEPT ![workSlot] = 0]
        /\ control' = [control EXCEPT ![workSlot] =
                         [gen |-> workSeq, st |-> "free"]]
    BY <1>4 DEF Transform, ReadSlotFree, WorkerOwns, NoFrame
  <2>2. [gen |-> workSeq, st |-> "free"] \in Controls
    BY DEF RingTyped, Controls, States
  <2>3. /\ control' \in [Slot -> Controls]
        /\ control'[workSlot].st = "free"
        /\ \A t \in Slot : t # workSlot => control'[t] = control[t]
    BY <2>1, <2>2, StoreControl DEF RingTyped
  <2>4. /\ payload' \in [Slot -> Sequence]
        /\ \A t \in Slot : t # workSlot => payload'[t] = payload[t]
    BY <2>1 DEF RingTyped
  <2>5. RingTyped' /\ SubmitterOwns' /\ CloseQuiet'
    BY <2>1, <2>3, <2>4 DEF RingTyped, WorkPcs, SubmitterOwns, CloseQuiet
  <2>6. FramesMatch'
    BY <2>1, <2>3, <2>4 DEF FramesMatch
  <2>7. WorkerOwns' /\ NewerRemain'
    BY <2>1, <2>3 DEF WorkerOwns, NewerRemain
  <2> QED
    BY <2>5, <2>6, <2>7
<1>5. CASE FinishReject
  <2>1. /\ UNCHANGED <<nextSequence, lastProcessed, subAt, subSlot, subGen,
                       lifePc, sourceMode, workAt, workSlot, workSeq>>
        /\ workPc' = "publish" /\ subPc = "idle" /\ subPc' = "idle"
        /\ accepting' = FALSE
    BY <1>5 DEF FinishReject
  <2>2. /\ control' \in [Slot -> Controls]
        /\ \A s \in Slot : control'[s].st # "ready"
        /\ payload' \in [Slot -> Sequence]
    <3>1. /\ control' = [s \in Slot |-> IF s \in ReadySlots
                            THEN [control[s] EXCEPT !.st = "free"]
                            ELSE control[s]]
          /\ payload' = [s \in Slot |-> IF s \in ReadySlots
                            THEN 0 ELSE payload[s]]
      BY <1>5 DEF FinishReject, NoFrame
    <3>2. \A s \in Slot :
            /\ [control[s] EXCEPT !.st = "free"] \in Controls
            /\ [control[s] EXCEPT !.st = "free"].st # "ready"
      BY DEF RingTyped, Controls, States
    <3> QED
      BY <3>1, <3>2 DEF RingTyped, ReadySlots
  <2>3. RingTyped' /\ SubmitterOwns' /\ CloseQuiet'
    BY <2>1, <2>2 DEF RingTyped, WorkPcs, SubPcs, SubmitterOwns, CloseQuiet
  <2>4. FramesMatch' /\ WorkerOwns' /\ NewerRemain'
    BY <2>1, <2>2 DEF FramesMatch, WorkerOwns, NewerRemain
  <2> QED
    BY <2>3, <2>4
<1> QED
  BY <1>1, <1>2, <1>3, <1>4, <1>5

\* create, drain and close.
LEMMA LifecycleInv ==
  ASSUME RingInv, Lifecycle
  PROVE  RingInv'
<1> USE RingConstants DEF RingInv, SharedBus, ringVars, flagVars, errorVars,
        statVars, subVars, workVars, workLocals, Ready, SubOwnPcs, SubBusyPcs,
        ReadPcs, RingPcs
<1> DEFINE kept == <<nextSequence, lastProcessed, subPc, subAt, subSlot,
                     subGen, workAt, workSlot, workSeq, sourceMode>>
<1>1. CASE \/ Create \/ DrainRequest \/ DrainNotify \/ DrainReturn
           \/ CloseRequest \/ CloseNotify
  <2>1. /\ UNCHANGED kept /\ UNCHANGED <<control, payload>>
        /\ (workPc' = workPc \/ (workPc = "wait" /\ workPc' = "evaluate"))
    BY <1>1 DEF Create, DrainRequest, DrainNotify, DrainReturn,
                CloseRequest, CloseNotify, Notify
  <2>2. CloseQuiet'
    BY <1>1 DEF Create, DrainRequest, DrainNotify, DrainReturn,
                CloseRequest, CloseNotify, CloseQuiet
  <2> QED
    BY <2>1, <2>2 DEF RingTyped, WorkPcs, SubmitterOwns, FramesMatch,
                      WorkerOwns, NewerRemain
<1>2. CASE CloseJoin
  <2>1. /\ UNCHANGED kept /\ workPc = "done" /\ workPc' = "done"
        /\ subPc = "idle" /\ subPc' = "idle"
        /\ ~accepting /\ accepting' = accepting
    BY <1>2 DEF CloseJoin, CloseQuiet
  <2>2. /\ control' \in [Slot -> Controls]
        /\ \A s \in Slot : control'[s].st # "ready"
        /\ payload' \in [Slot -> Sequence]
    <3>1. \A s \in Slot :
            /\ [control[s] EXCEPT !.st = "free"] \in Controls
            /\ [control[s] EXCEPT !.st = "free"].st # "ready"
      BY DEF RingTyped, Controls, States
    <3> QED
      BY <1>2, <3>1 DEF CloseJoin, NoFrame
  <2> QED
    BY <2>1, <2>2 DEF RingTyped, SubmitterOwns, FramesMatch, WorkerOwns,
                      NewerRemain, CloseQuiet
<1> QED
  BY <1>1, <1>2 DEF Lifecycle

-----------------------------------------------------------------------------
\* Every step preserves the invariant and encodes nothing older.
LEMMA RingStep ==
  RingInv /\ [Next]_vars =>
    RingInv' /\ (lastProcessed' # lastProcessed
                   => lastProcessed' > lastProcessed)
<1> SUFFICES ASSUME RingInv, [Next]_vars
             PROVE  RingInv' /\ (lastProcessed' # lastProcessed
                                   => lastProcessed' > lastProcessed)
  OBVIOUS
<1>1. CASE SubmitEnter \/ Submit
  <2>1. lastProcessed' = lastProcessed
    BY <1>1 DEF SubmitEnter, Submit, ScanFree, ScanOldest, StealOldest,
                EvictOldest, WriteSlot, CopyFails, PublishReserve,
                PublishStore, RecordFailure, statVars
  <2> QED
    BY <1>1, <2>1, SubmitScanInv, SubmitSlotInv DEF Submit
<1>2. CASE Worker
  <2>1. CASE Encode \/ BusFrame
    BY <2>1, WorkerEncodeInv
  <2>2. CASE \/ WorkerStart \/ WorkerLoop \/ WorkerDepth \/ PickNewest
             \/ TookNewest \/ WorkerThrows \/ WorkerDrain \/ WorkerWait
             \/ BusTimeout \/ BusReject \/ WorkerEnding \/ FinishPublish
    <3>1. lastProcessed' = lastProcessed
      BY <2>2 DEF WorkerStart, WorkerLoop, WorkerDepth, PickNewest,
                  TookNewest, WorkerThrows, WorkerDrain, WorkerWait,
                  BusTimeout, BusReject, WorkerEnding, FinishPublish, statVars
    <3> QED
      BY <2>2, <3>1, WorkerQuietInv
  <2>3. CASE \/ TakeNewest \/ PurgeOlder \/ PurgedOlder \/ Transform
             \/ FinishReject
    <3>1. lastProcessed' = lastProcessed
      BY <2>3 DEF TakeNewest, PurgeOlder, PurgedOlder, Transform,
                  FinishReject, statVars
    <3> QED
      BY <2>3, <3>1, WorkerSlotInv
  <2> QED
    BY <1>2, <2>1, <2>2, <2>3 DEF Worker
<1>3. CASE Lifecycle
  <2>1. lastProcessed' = lastProcessed
    BY <1>3 DEF Lifecycle, Create, DrainRequest, DrainNotify, DrainReturn,
                CloseRequest, CloseNotify, CloseJoin, statVars
  <2> QED
    BY <1>3, <2>1, LifecycleInv
<1>4. CASE UNCHANGED vars
  BY <1>4 DEF vars, ringVars, flagVars, errorVars, statVars, subVars,
              workVars, workLocals, RingInv, RingTyped, SubmitterOwns,
              FramesMatch, Ready, WorkerOwns, NewerRemain, CloseQuiet,
              SharedBus
<1> QED
  BY <1>1, <1>2, <1>3, <1>4 DEF Next

\* The inductive invariant.
LEMMA RingInvariant == Spec => []RingInv
<1>1. RingInv /\ [Next]_vars => RingInv'
  BY RingStep
<1> QED
  BY InitRingInv, <1>1, PTL DEF Spec

(* However deep the ring and whatever submitters steal, the slot the       *)
(* worker reads in process_one keeps the frame acquire_latest_ready took.  *)
THEOREM ReadsOwn == Spec => []ReadsOwnFrame
<1>1. RingInv => ReadsOwnFrame
  BY DEF RingInv, WorkerOwns, ReadPcs, ReadsOwnFrame
<1> QED
  BY <1>1, RingInvariant, PTL

(* No slot is ever emptied by the worker in acquire_latest_ready while a   *)
(* submitter that got it from acquire_write_slot is filling it.            *)
THEOREM SingleWriter == Spec => []OneWriter
<1>1. RingInv => OneWriter
  BY DEF RingInv, WorkerOwns, SubOwnPcs, OneWriter
<1> QED
  BY <1>1, RingInvariant, PTL

(* The worker encodes frames in the order they were submitted, or in the   *)
(* order the bus published them, for every depth and number of frames.     *)
THEOREM InOrder == Spec => EncodesInOrder
<1>1. RingInv /\ [Next]_vars =>
        [lastProcessed' # lastProcessed
           => lastProcessed' > lastProcessed]_vars
  BY RingStep
<1> QED
  BY <1>1, RingInvariant, PTL DEF Spec, EncodesInOrder

-----------------------------------------------------------------------------
(* The accounts: what ready_depth_ counts, and which accepted frames are   *)
(* still to be processed, overwritten or failed.                           *)

InDepth(s) ==
  \/ Ready(s)
  \/ subPc \in {"evict", "store"} /\ s = subSlot
  \/ workPc = "took" /\ s = workSlot
  \/ workPc = "purged" /\ s = workAt
InReading(s) == workPc \in ReadPcs /\ s = workSlot

DepthSlots == {s \in Slot : InDepth(s)}
PendingSlots == {s \in Slot : InDepth(s) \/ InReading(s)}
Encoding == IF workPc = "encode" THEN 1 ELSE 0

\* An exception in process_one loses its frame.
Counted == ~SharedBus /\ workResult # "system_error"

Accounts ==
  /\ readyDepth = Cardinality(DepthSlots)
  /\ accepted \in Nat /\ processed \in Nat
  /\ overwritten \in Nat /\ failed \in Nat
  /\ Counted => accepted = processed + overwritten + failed
                             + Cardinality(PendingSlots) + Encoding
  /\ Counted => \A s \in Slot : payload[s] # NoFrame =>
                   s \in PendingSlots \/ (subPc = "reserve" /\ s = subSlot)

\* What the end of the worker leaves.
Ends ==
  /\ workResult = "system_error" => workPc \in {"finish", "publish", "done"}
  /\ workerFinished => workPc = "done" /\ lastError = workResult
  /\ SharedBus => subPc = "idle"
  /\ ~SharedBus /\ workPc \in {"publish", "done"} =>
       /\ subPc = "idle" /\ ~accepting
       /\ \A s \in Slot : ~Ready(s)

\* Until create opens a pipeline fed by submissions its worker has nothing to
\* do, and so does not end before accepting_ is stored.
Starts ==
  /\ workPc = "starting" => startup = "pending"
  /\ lifePc = "opening" => startup = "ok"
  /\ ~SharedBus /\ lifePc \in {"creating", "opening"} =>
       /\ ~accepting /\ ~drainRequested /\ ~stopRequested
       /\ subPc = "idle" /\ readyDepth = 0
       /\ \/ workPc \in {"starting", "loop", "depth", "drain", "evaluate",
                         "block", "wait"}
          \/ startup = "failed" /\ workPc \in {"finish", "publish", "done"}

AccountInv == RingInv /\ Accounts /\ Ends /\ Starts

\* Sets of slots are finite, and can be counted.
LEMMA SlotSets ==
  ASSUME NEW S \in SUBSET Slot
  PROVE  /\ IsFiniteSet(S)
         /\ Cardinality(S) \in 0 .. QueueDepth
<1>1. IsFiniteSet(Slot) /\ Cardinality(Slot) = QueueDepth
  <2>1. QueueDepth \in Nat /\ 0 \in Int /\ QueueDepth - 1 \in Int
        /\ QueueDepth >= 2
    BY PipelineAssumption
  <2>2. /\ IsFiniteSet(0 .. QueueDepth - 1)
        /\ Cardinality(0 .. QueueDepth - 1)
             = IF 0 > QueueDepth - 1 THEN 0 ELSE (QueueDepth - 1) - 0 + 1
    BY <2>1, FS_Interval
  <2> QED
    BY <2>1, <2>2 DEF Slot
<1>2. IsFiniteSet(S) /\ Cardinality(S) <= Cardinality(Slot)
  BY <1>1, FS_Subset
<1>3. Cardinality(S) \in Nat
  BY <1>2, FS_CardinalityType
<1> QED
  BY <1>1, <1>2, <1>3, PipelineAssumption

LEMMA SlotAdded ==
  ASSUME NEW S \in SUBSET Slot, NEW s \in Slot, s \notin S
  PROVE  Cardinality(S \cup {s}) = Cardinality(S) + 1
BY SlotSets, FS_AddElement

LEMMA SlotRemoved ==
  ASSUME NEW S \in SUBSET Slot, NEW s \in S
  PROVE  Cardinality(S \ {s}) = Cardinality(S) - 1
BY SlotSets, FS_RemoveElement

\* A step that moves no frame keeps the accounts.
LEMMA AccountsKept ==
  ASSUME Accounts, DepthSlots' = DepthSlots, PendingSlots' = PendingSlots,
         UNCHANGED <<readyDepth, accepted, processed, overwritten, failed>>,
         Counted' => Counted,
         Counted => Encoding' = Encoding,
         \A s \in Slot : payload'[s] # NoFrame =>
            payload[s] # NoFrame \/ (subPc' = "reserve" /\ s = subSlot'),
         subPc = "reserve" => subPc' = "reserve" /\ subSlot' = subSlot
  PROVE  Accounts'
BY DEF Accounts


\* The submitter: how the pipeline begins and ends.
LEMMA SubmitterEnds ==
  ASSUME RingInv, Ends, Starts,
         SubmitEnter \/ ScanFree \/ ScanOldest \/ StealOldest \/
         EvictOldest \/ WriteSlot \/ CopyFails \/ PublishReserve \/
         PublishStore \/ RecordFailure
  PROVE  Ends' /\ Starts'
<1> USE DEF Ends, Starts, SharedBus, Ready, Notify, WorkerFinal, SetState,
        ringVars, flagVars, errorVars, statVars, subVars, workVars, workLocals
<1>1. CASE SubmitEnter
  BY <1>1 DEF SubmitEnter
<1>2. CASE ScanFree
  BY <1>2 DEF ScanFree
<1>3. CASE ScanOldest
  BY <1>3 DEF ScanOldest
<1>4. CASE StealOldest
  BY <1>4 DEF StealOldest
<1>5. CASE EvictOldest
  BY <1>5 DEF EvictOldest
<1>6. CASE WriteSlot
  BY <1>6 DEF WriteSlot
<1>7. CASE CopyFails
  BY <1>7 DEF CopyFails
<1>8. CASE PublishReserve
  BY <1>8 DEF PublishReserve
<1>9. CASE PublishStore
  BY <1>9 DEF PublishStore
<1>10. CASE RecordFailure
  BY <1>10 DEF RecordFailure
<1> QED
  BY <1>1, <1>2, <1>3, <1>4, <1>5, <1>6, <1>7, <1>8, <1>9, <1>10

\* The worker: how the pipeline begins and ends.
LEMMA WorkerEnds ==
  ASSUME RingInv, Accounts, Ends, Starts,
         WorkerStart \/ WorkerLoop \/ WorkerDepth \/ PickNewest \/
         TakeNewest \/ TookNewest \/ PurgeOlder \/ PurgedOlder \/ Transform
         \/ Encode \/ WorkerThrows \/ WorkerDrain \/ WorkerWait \/
         BusTimeout \/ BusReject \/ BusFrame \/ WorkerEnding \/
         FinishReject \/ FinishPublish
  PROVE  Ends' /\ Starts'
<1> USE DEF Ends, Starts, SharedBus, Ready, Notify, WorkerFinal, SetState,
        ringVars, flagVars, errorVars, statVars, subVars, workVars, workLocals
<1>1. CASE WorkerStart
  BY <1>1 DEF WorkerStart
<1>2. CASE WorkerLoop
  BY <1>2 DEF WorkerLoop
<1>3. CASE WorkerDepth
  BY <1>3 DEF WorkerDepth
<1>4. CASE PickNewest
  BY <1>4 DEF PickNewest
<1>5. CASE TakeNewest
  BY <1>5 DEF TakeNewest
<1>6. CASE TookNewest
  BY <1>6 DEF TookNewest
<1>7. CASE PurgeOlder
  BY <1>7 DEF PurgeOlder
<1>8. CASE PurgedOlder
  BY <1>8 DEF PurgedOlder
<1>9. CASE Transform
  BY <1>9 DEF Transform
<1>10. CASE Encode
  BY <1>10 DEF Encode
<1>11. CASE WorkerThrows
  BY <1>11 DEF WorkerThrows
<1>12. CASE WorkerDrain
  BY <1>12 DEF WorkerDrain
<1>13. CASE WorkerWait
  BY <1>13 DEF WorkerWait
<1>14. CASE BusTimeout
  BY <1>14 DEF BusTimeout
<1>15. CASE BusReject
  BY <1>15 DEF BusReject
<1>16. CASE BusFrame
  BY <1>16 DEF BusFrame
<1>17. CASE WorkerEnding
  BY <1>17 DEF WorkerEnding
<1>18. CASE FinishReject
  <2>1. \A s \in Slot : ~Ready(s)'
    <3>1. \A s \in Slot : [control[s] EXCEPT !.st = "free"].st = "free"
      BY DEF RingInv, RingTyped, Controls
    <3> QED
      BY <1>18, <3>1 DEF FinishReject, ReadySlots
  <2>2. readyDepth = 0 => Cardinality(ReadySlots) = 0
    <3>1. ReadySlots \subseteq DepthSlots /\ DepthSlots \subseteq Slot
      BY DEF ReadySlots, DepthSlots, InDepth
    <3>2. /\ Cardinality(ReadySlots) \in 0 .. QueueDepth
          /\ Cardinality(ReadySlots) <= Cardinality(DepthSlots)
      BY <3>1, SlotSets, FS_Subset
    <3> QED
      BY <3>2, PipelineAssumption DEF Accounts
  <2> QED
    BY <1>18, <2>1, <2>2 DEF FinishReject
<1>19. CASE FinishPublish
  BY <1>19 DEF FinishPublish
<1> QED
  BY <1>1, <1>2, <1>3, <1>4, <1>5, <1>6, <1>7, <1>8, <1>9, <1>10,
     <1>11, <1>12, <1>13, <1>14, <1>15, <1>16, <1>17, <1>18, <1>19

\* create, drain and close: how the pipeline begins and ends.
LEMMA LifecycleEnds ==
  ASSUME RingInv, Ends, Starts,
         Create \/ DrainRequest \/ DrainNotify \/ DrainReturn \/
         CloseRequest \/ CloseNotify \/ CloseJoin
  PROVE  Ends' /\ Starts'
<1> USE DEF Ends, Starts, SharedBus, Ready, Notify, WorkerFinal, SetState,
        ringVars, flagVars, errorVars, statVars, subVars, workVars, workLocals
<1>1. CASE Create
  BY <1>1 DEF Create
<1>2. CASE DrainRequest
  BY <1>2 DEF DrainRequest
<1>3. CASE DrainNotify
  BY <1>3 DEF DrainNotify
<1>4. CASE DrainReturn
  BY <1>4 DEF DrainReturn
<1>5. CASE CloseRequest
  BY <1>5 DEF CloseRequest
<1>6. CASE CloseNotify
  BY <1>6 DEF CloseNotify
<1>7. CASE CloseJoin
  <2>1. \A s \in Slot : ~Ready(s)'
    <3>1. \A s \in Slot : [control[s] EXCEPT !.st = "free"].st = "free"
      BY DEF RingInv, RingTyped, Controls
    <3> QED
      BY <1>7, <3>1 DEF CloseJoin
  <2> QED
    BY <1>7, <2>1 DEF CloseJoin, RingInv, CloseQuiet
<1> QED
  BY <1>1, <1>2, <1>3, <1>4, <1>5, <1>6, <1>7

\* The submitter: a frame is counted when it is published, and evicted.
LEMMA SubmitterAccounts ==
  ASSUME RingInv, Accounts, Ends,
         SubmitEnter \/ ScanFree \/ ScanOldest \/ StealOldest \/ EvictOldest
           \/ WriteSlot \/ CopyFails \/ PublishReserve \/ PublishStore
           \/ RecordFailure
  PROVE  Accounts'
<1> USE RingConstants DEF RingInv, SharedBus, ringVars, flagVars, errorVars,
        statVars, workVars, workLocals, Ready, Counted
<1>t. /\ control \in [Slot -> Controls]
      /\ subPc \in SubBusyPcs => ~SharedBus
      /\ subPc \in SubOwnPcs =>
            subSlot \in Slot /\ control[subSlot].st = "writing"
      /\ workPc \in ReadPcs =>
            workSlot \in Slot /\ control[workSlot].st = "reading"
      /\ workPc = "purged" =>
            /\ workAt \in Slot /\ control[workAt].st = "writing"
            /\ subPc \in SubOwnPcs => workAt # subSlot
  BY DEF RingTyped, SubmitterOwns, WorkerOwns, NewerRemain
<1>1. CASE SubmitEnter \/ ScanOldest \/ RecordFailure
  <2>1. /\ UNCHANGED <<control, payload, readyDepth, accepted, processed,
                       overwritten, failed, workAt, workSlot, sourceMode,
                       workResult>>
        /\ \/ workPc' = workPc
           \/ workPc = "wait" /\ workPc' = "evaluate"
        /\ subPc \notin SubOwnPcs /\ subPc' \notin SubOwnPcs
    BY <1>1 DEF SubmitEnter, ScanOldest, RecordFailure, Notify, SubOwnPcs
  <2> QED
    BY <2>1, AccountsKept
    DEF SubOwnPcs, ReadPcs, DepthSlots, PendingSlots, InDepth, InReading,
        Encoding
<1>2. CASE ScanFree \/ WriteSlot \/ CopyFails
  <2>1. /\ UNCHANGED <<readyDepth, accepted, processed,
                       overwritten, failed, workPc, workAt, workSlot,
                       sourceMode, workResult>>
        /\ subPc \in {"free", "write"}
        /\ subPc' \in {"free", "oldest", "write", "record", "reserve"}
    BY <1>2 DEF ScanFree, WriteSlot, CopyFails
  <2>2. \A s \in Slot : Ready(s)' <=> Ready(s)
    BY <1>t, <1>2 DEF ScanFree, WriteSlot, CopyFails, SetState, SubOwnPcs,
       Controls
  <2>3. \A s \in Slot : payload'[s] # NoFrame =>
            payload[s] # NoFrame \/ (subPc' = "reserve" /\ s = subSlot')
    BY <1>2 DEF ScanFree, WriteSlot, CopyFails, RingTyped
  <2> QED
    BY <2>1, <2>2, <2>3, AccountsKept
    DEF DepthSlots, PendingSlots, InDepth, InReading, Encoding
<1>3. CASE StealOldest
  <2>1. /\ UNCHANGED <<payload, readyDepth, accepted, processed,
                       overwritten, failed, workPc, workAt, workSlot,
                       sourceMode, workResult, subSlot>>
        /\ subPc = "steal" /\ subSlot \in Slot
        /\ \/ subPc' = "free" /\ control' = control
           \/ /\ subPc' = "evict" /\ control[subSlot].st = "ready"
              /\ SetState(subSlot, "writing")
    BY <1>3 DEF StealOldest, Unchanged, SubmitterOwns
  <2>2. \A s \in Slot : InDepth(s)' <=> InDepth(s)
    BY <1>t, <2>1 DEF SetState, Controls, InDepth
  <2> QED
    BY <2>1, <2>2, AccountsKept
    DEF DepthSlots, PendingSlots, InReading, Encoding
<1>4. CASE EvictOldest
  <2>1. /\ readyDepth' = readyDepth - 1 /\ overwritten' = overwritten + 1
        /\ payload' = [payload EXCEPT ![subSlot] = NoFrame]
        /\ UNCHANGED <<control, accepted, processed, failed, workPc, workAt,
                       workSlot, sourceMode, workResult, subSlot>>
        /\ subPc = "evict" /\ subPc' = "write"
    BY <1>4 DEF EvictOldest
  <2>2. /\ subSlot \in DepthSlots /\ subSlot \in PendingSlots
        /\ DepthSlots' = DepthSlots \ {subSlot}
        /\ PendingSlots' = PendingSlots \ {subSlot}
    BY <1>t, <2>1
    DEF SubOwnPcs, ReadPcs, DepthSlots, PendingSlots, InDepth, InReading
  <2>3. /\ Cardinality(DepthSlots') = Cardinality(DepthSlots) - 1
        /\ Cardinality(PendingSlots') = Cardinality(PendingSlots) - 1
        /\ Cardinality(DepthSlots) \in Nat /\ Cardinality(PendingSlots) \in Nat
    BY <2>2, SlotRemoved, SlotSets DEF DepthSlots, PendingSlots
  <2>4. Counted' => \A s \in Slot : payload'[s] # NoFrame => s \in PendingSlots'
    BY <2>1, <2>2 DEF Accounts, RingTyped
  <2> QED
    BY <2>1, <2>3, <2>4 DEF Accounts, Encoding
<1>5. CASE PublishReserve
  <2>1. /\ readyDepth' = readyDepth + 1 /\ accepted' = accepted + 1
        /\ UNCHANGED <<control, payload, overwritten, processed, failed,
                       workPc, workAt, workSlot, sourceMode, workResult,
                       subSlot>>
        /\ subPc = "reserve" /\ subPc' = "store"
    BY <1>5 DEF PublishReserve, Reserved
  <2>2. /\ subSlot \notin DepthSlots /\ subSlot \notin PendingSlots
        /\ DepthSlots' = DepthSlots \cup {subSlot}
        /\ PendingSlots' = PendingSlots \cup {subSlot}
        /\ subSlot \in Slot
    BY <1>t, <2>1
    DEF SubOwnPcs, ReadPcs, DepthSlots, PendingSlots, InDepth, InReading
  <2>3. /\ Cardinality(DepthSlots') = Cardinality(DepthSlots) + 1
        /\ Cardinality(PendingSlots') = Cardinality(PendingSlots) + 1
        /\ Cardinality(DepthSlots) \in Nat /\ Cardinality(PendingSlots) \in Nat
    BY <2>2, SlotAdded, SlotSets DEF DepthSlots, PendingSlots
  <2>4. Counted' => \A s \in Slot : payload'[s] # NoFrame => s \in PendingSlots'
    BY <2>1, <2>2 DEF Accounts
  <2> QED
    BY <2>1, <2>3, <2>4 DEF Accounts, Encoding
<1>6. CASE PublishStore
  <2>1. /\ UNCHANGED <<payload, readyDepth, accepted, processed,
                       overwritten, failed, workAt, workSlot,
                       sourceMode, workResult, subSlot>>
        /\ subPc = "store" /\ subPc' = "idle"
        /\ control' = [control EXCEPT ![subSlot] =
                         [gen |-> nextSequence, st |-> "ready"]]
        /\ \/ workPc' = workPc
           \/ workPc = "wait" /\ workPc' = "evaluate"
    BY <1>6 DEF PublishStore, Notify
  <2>2. \A s \in Slot : /\ InDepth(s)' <=> InDepth(s)
                        /\ InReading(s)' <=> InReading(s)
    BY <1>t, <2>1 DEF SubOwnPcs, ReadPcs, InDepth, InReading
  <2> QED
    BY <2>1, <2>2, AccountsKept DEF DepthSlots, PendingSlots, Encoding
<1> QED
  BY <1>1, <1>2, <1>3, <1>4, <1>5, <1>6

\* The worker's steps that move no frame.
LEMMA WorkerQuietAccounts ==
  ASSUME RingInv, Accounts, Ends,
         \/ WorkerStart \/ WorkerLoop \/ WorkerDepth \/ PickNewest
         \/ WorkerDrain \/ WorkerWait \/ WorkerThrows \/ BusTimeout
         \/ BusReject \/ BusFrame \/ WorkerEnding \/ FinishPublish
  PROVE  Accounts'
<1>1. /\ UNCHANGED <<control, payload, readyDepth, subPc, subSlot, sourceMode>>
      /\ workPc' \notin ReadPcs \cup {"encode"}
      /\ workPc \notin {"took", "purge", "purged"}
  BY DEF WorkerStart, WorkerLoop, WorkerDepth, PickNewest, WorkerDrain,
     WorkerWait, WorkerThrows, BusTimeout, BusReject, BusFrame, WorkerEnding,
     FinishPublish, WorkerFinal, ReadPcs, ringVars, flagVars, subVars
<1>2. DepthSlots' = DepthSlots
  BY <1>1 DEF DepthSlots, InDepth, Ready, ReadPcs
<1>3. CASE WorkerThrows \/ BusTimeout \/ BusReject \/ BusFrame
  <2>1. ~Counted'
    BY <1>3
    DEF WorkerThrows, BusTimeout, BusReject, BusFrame, WorkerFinal, Counted,
        RingInv, RingTyped, SharedBus, flagVars
  <2>2. /\ accepted' \in Nat /\ processed' \in Nat
        /\ overwritten' \in Nat /\ failed' \in Nat
    <3>1. CASE WorkerThrows \/ BusTimeout \/ BusReject
      BY <3>1 DEF WorkerThrows, BusTimeout, BusReject, Accounts, statVars
    <3>2. CASE BusFrame
      <4>1. PICK seq \in workSeq + 1 .. MaxSequence :
              overwritten' = overwritten
                + (IF workSeq = 0 THEN 0 ELSE seq - workSeq - 1)
        BY <3>2 DEF BusFrame
      <4>2. overwritten' \in Nat
        BY <4>1, RingConstants DEF Accounts, RingInv, RingTyped, Sequence
      <4> QED
        BY <3>2, <4>2 DEF BusFrame, Accounts
    <3> QED
      BY <1>3, <3>1, <3>2
  <2> QED
    BY <1>1, <1>2, <2>1, <2>2 DEF Accounts
<1>4. CASE \/ WorkerStart \/ WorkerLoop \/ WorkerDepth \/ PickNewest
           \/ WorkerDrain \/ WorkerWait \/ WorkerEnding \/ FinishPublish
  <2>1. /\ UNCHANGED <<accepted, processed, overwritten, failed>>
        /\ workPc \notin ReadPcs \cup {"encode"}
    BY <1>4 DEF WorkerStart, WorkerLoop, WorkerDepth, PickNewest, WorkerDrain,
       WorkerWait, WorkerEnding, FinishPublish, ReadPcs, statVars
  <2>2. PendingSlots' = PendingSlots /\ Encoding' = Encoding
    BY <1>1, <2>1 DEF PendingSlots, InDepth, InReading, Ready, ReadPcs, Encoding
  <2>3. Counted' => Counted
    BY <1>4 DEF WorkerStart, WorkerLoop, WorkerDepth, PickNewest, WorkerDrain,
       WorkerWait, WorkerEnding, FinishPublish, Counted, SharedBus, flagVars,
       workLocals, Ends
  <2> QED
    BY <1>1, <1>2, <2>1, <2>2, <2>3, AccountsKept
<1> QED
  BY <1>3, <1>4

\* The worker takes a frame, drops older ones, and encodes.
LEMMA WorkerFrameAccounts ==
  ASSUME RingInv, Accounts, Ends,
         \/ TakeNewest \/ TookNewest \/ PurgeOlder \/ PurgedOlder
         \/ Transform \/ Encode
  PROVE  Accounts'
<1> USE RingConstants DEF RingInv, SharedBus, ringVars, flagVars, errorVars,
        statVars, subVars, workLocals, Ready, Counted
<1>t. /\ control \in [Slot -> Controls]
      /\ subPc \in SubOwnPcs =>
            subSlot \in Slot /\ control[subSlot].st = "writing"
      /\ workPc \in ReadPcs =>
            workSlot \in Slot /\ control[workSlot].st = "reading"
      /\ workPc = "purged" =>
            /\ workAt \in Slot /\ control[workAt].st = "writing"
            /\ subPc \in SubOwnPcs => workAt # subSlot
            /\ workAt # workSlot
      /\ workPc = "take" => workSlot \in Slot
  BY DEF RingTyped, SubmitterOwns, WorkerOwns
<1>0. UNCHANGED <<accepted, subPc, subSlot, sourceMode>>
  BY DEF TakeNewest, TookNewest, PurgeOlder, PurgedOlder, Transform, Encode
<1>1. CASE TakeNewest
  <2>1. /\ UNCHANGED <<payload, readyDepth, processed, overwritten, failed,
                       workResult>>
        /\ workPc = "take"
        /\ \/ workPc' = "pick" /\ control' = control
           \/ /\ workPc' = "took" /\ workSlot' = workSlot
              /\ control[workSlot].st = "ready"
              /\ SetState(workSlot, "reading")
    BY <1>1 DEF TakeNewest, Unchanged
  <2>2. \A s \in Slot : /\ InDepth(s)' <=> InDepth(s)
                        /\ InReading(s)' => InDepth(s)' 
                        /\ ~InReading(s)
    BY <1>0, <1>t, <2>1 DEF SetState, Controls, InDepth, InReading, ReadPcs
  <2> QED
    BY <1>0, <2>1, <2>2, AccountsKept DEF DepthSlots, PendingSlots, Encoding
<1>2. CASE TookNewest
  <2>1. /\ UNCHANGED <<control, payload, processed, overwritten, failed,
                       workSlot, workAt, workResult>>
        /\ readyDepth' = readyDepth - 1
        /\ workPc = "took" /\ workPc' = "purge"
    BY <1>2 DEF TookNewest
  <2>2. /\ workSlot \in DepthSlots
        /\ DepthSlots' = DepthSlots \ {workSlot}
        /\ PendingSlots' = PendingSlots
    BY <1>0, <1>t, <2>1
    DEF SubOwnPcs, ReadPcs, DepthSlots, PendingSlots, InDepth, InReading
  <2>3. Cardinality(DepthSlots') = Cardinality(DepthSlots) - 1
    BY <2>2, SlotRemoved DEF DepthSlots
  <2> QED
    BY <1>0, <2>1, <2>2, <2>3 DEF Accounts, Encoding
<1>3. CASE PurgeOlder
  <2>1. /\ UNCHANGED <<payload, readyDepth, processed, overwritten, failed,
                       workSlot, workResult>>
        /\ workPc = "purge"
        /\ \/ workPc' \in {"purge", "transform"} /\ control' = control
           \/ /\ workPc' = "purged" /\ workAt' = workAt /\ workAt \in Slot
              /\ control[workAt].st = "ready"
              /\ SetState(workAt, "writing")
    <3>1. workAt < QueueDepth => workAt \in Slot
      BY DEF RingTyped
    <3> QED
      BY <1>3, <3>1 DEF PurgeOlder, Superseded
  <2>2. \A s \in Slot : /\ InDepth(s)' <=> InDepth(s)
                        /\ InReading(s)' <=> InReading(s)
    BY <1>0, <1>t, <2>1 DEF SetState, Controls, InDepth, InReading, ReadPcs
  <2> QED
    BY <1>0, <2>1, <2>2, AccountsKept DEF DepthSlots, PendingSlots, Encoding
<1>4. CASE PurgedOlder
  <2>1. /\ UNCHANGED <<processed, failed, workSlot, workResult>>
        /\ readyDepth' = readyDepth - 1 /\ overwritten' = overwritten + 1
        /\ payload' = [payload EXCEPT ![workAt] = NoFrame]
        /\ SetState(workAt, "free")
        /\ workPc = "purged" /\ workPc' = "purge"
    BY <1>4 DEF PurgedOlder
  <2>2. \A s \in Slot : Ready(s)' <=> Ready(s)
    BY <1>t, <2>1 DEF SetState, Controls
  <2>3. /\ workAt \in DepthSlots /\ workAt \in PendingSlots
        /\ DepthSlots' = DepthSlots \ {workAt}
        /\ PendingSlots' = PendingSlots \ {workAt}
    BY <1>0, <1>t, <2>1, <2>2
    DEF SubOwnPcs, ReadPcs, DepthSlots, PendingSlots, InDepth, InReading
  <2>4. /\ Cardinality(DepthSlots') = Cardinality(DepthSlots) - 1
        /\ Cardinality(PendingSlots') = Cardinality(PendingSlots) - 1
        /\ Cardinality(DepthSlots) \in Nat /\ Cardinality(PendingSlots) \in Nat
    <3>1. DepthSlots \in SUBSET Slot /\ PendingSlots \in SUBSET Slot
      BY DEF DepthSlots, PendingSlots
    <3> QED
      BY ONLY <2>3, <3>1, SlotRemoved, SlotSets
  <2>5. Counted' => \A s \in Slot : payload'[s] # NoFrame =>
            s \in PendingSlots' \/ (subPc' = "reserve" /\ s = subSlot')
    <3>1. \A s \in Slot : payload'[s] # NoFrame =>
            s # workAt /\ payload[s] # NoFrame
      BY <2>1 DEF RingTyped
    <3>2. Counted => \A s \in Slot : payload[s] # NoFrame =>
            s \in PendingSlots \/ (subPc = "reserve" /\ s = subSlot)
      BY DEF Accounts
    <3> HIDE DEF PendingSlots
    <3> QED
      BY <1>0, <2>1, <2>3, <3>1, <3>2
  <2> QED
    BY <1>0, <2>1, <2>4, <2>5 DEF Accounts, Encoding
<1>5. CASE Transform
  <2>1. /\ UNCHANGED <<readyDepth, processed, overwritten, workSlot, workAt>>
        /\ payload' = [payload EXCEPT ![workSlot] = NoFrame]
        /\ control' = [control EXCEPT ![workSlot] =
                          [gen |-> workSeq, st |-> "free"]]
        /\ workPc = "transform"
        /\ \/ workPc' = "encode" /\ failed' = failed /\ workResult' = workResult
           \/ /\ workPc' = "ending" /\ failed' = failed + 1
              /\ workResult' = "encoder_error"
    BY <1>5 DEF Transform, ReadSlotFree
  <2>2. \A s \in Slot : Ready(s)' <=> Ready(s)
    BY <1>t, <2>1 DEF Controls, ReadPcs
  <2>3. /\ workSlot \in PendingSlots /\ DepthSlots' = DepthSlots
        /\ PendingSlots' = PendingSlots \ {workSlot}
    BY <1>0, <1>t, <2>1, <2>2
    DEF SubOwnPcs, ReadPcs, DepthSlots, PendingSlots, InDepth, InReading
  <2>4. /\ Cardinality(PendingSlots') = Cardinality(PendingSlots) - 1
        /\ Cardinality(PendingSlots) \in Nat
    <3>1. PendingSlots \in SUBSET Slot
      BY DEF PendingSlots
    <3> QED
      BY ONLY <2>3, <3>1, SlotRemoved, SlotSets
  <2>5. Counted /\ (Counted' => \A s \in Slot : payload'[s] # NoFrame =>
            s \in PendingSlots' \/ (subPc' = "reserve" /\ s = subSlot'))
    <3>1. \A s \in Slot : payload'[s] # NoFrame =>
            s # workSlot /\ payload[s] # NoFrame
      BY <2>1 DEF RingTyped
    <3>2. Counted => \A s \in Slot : payload[s] # NoFrame =>
            s \in PendingSlots \/ (subPc = "reserve" /\ s = subSlot)
      BY DEF Accounts
    <3>3. Counted
      BY <2>1 DEF Ends, WorkerOwns, RingPcs, ReadPcs
    <3> QED
      BY <1>0, <2>1, <2>3, <3>1, <3>2, <3>3
  <2> QED
    BY <1>0, <2>1, <2>3, <2>4, <2>5 DEF Accounts, Encoding
<1>6. CASE Encode
  <2>1. /\ UNCHANGED <<control, payload, readyDepth, overwritten, workSlot,
                       workAt>>
        /\ workPc = "encode"
        /\ \/ /\ workPc' = "loop" /\ processed' = processed + 1
              /\ failed' = failed /\ workResult' = workResult
           \/ /\ workPc' = "ending" /\ failed' = failed + 1
              /\ processed' = processed /\ workResult' = "encoder_error"
    BY <1>6 DEF Encode
  <2>2. DepthSlots' = DepthSlots /\ PendingSlots' = PendingSlots
    BY <1>0, <2>1
    DEF ReadPcs, DepthSlots, PendingSlots, InDepth, InReading
  <2>3. Counted
    BY <2>1 DEF Ends, WorkerOwns, RingPcs
  <2>4. Cardinality(PendingSlots) \in Nat
    BY SlotSets DEF PendingSlots
  <2> QED
    BY <1>0, <2>1, <2>2, <2>3, <2>4 DEF Accounts, Encoding
<1> QED
  BY <1>1, <1>2, <1>3, <1>4, <1>5, <1>6

\* finish_worker retires every frame that is left.
LEMMA FinishAccounts ==
  ASSUME RingInv, Accounts, Ends, FinishReject
  PROVE  Accounts'
<1>1. /\ subPc = "idle" /\ subPc' = "idle"
      /\ workPc = "finish" /\ workPc' = "publish"
      /\ readyDepth' = readyDepth - Cardinality(ReadySlots)
      /\ overwritten' = overwritten + Cardinality(ReadySlots)
      /\ UNCHANGED <<accepted, processed, failed, workResult, sourceMode>>
      /\ control' = [s \in Slot |-> IF s \in ReadySlots
                        THEN [control[s] EXCEPT !.st = "free"]
                        ELSE control[s]]
      /\ payload' = [s \in Slot |-> IF s \in ReadySlots
                        THEN NoFrame ELSE payload[s]]
  BY DEF FinishReject, subVars, workLocals
<1>2. DepthSlots = ReadySlots /\ PendingSlots = ReadySlots
  BY <1>1 DEF DepthSlots, PendingSlots, InDepth, InReading, ReadPcs, ReadySlots
<1>3. \A s \in Slot : [control[s] EXCEPT !.st = "free"].st = "free"
  BY DEF RingInv, RingTyped, Controls
<1>4. \A s \in Slot : ~Ready(s)'
  BY <1>1, <1>3 DEF Ready, ReadySlots
<1>5. DepthSlots' = {} /\ PendingSlots' = {}
  BY <1>1, <1>4 DEF DepthSlots, PendingSlots, InDepth, InReading, ReadPcs
<1>6. /\ Cardinality(DepthSlots') = 0 /\ Cardinality(PendingSlots') = 0
      /\ Cardinality(ReadySlots) \in Nat
  BY <1>5, SlotSets, FS_EmptySet DEF ReadySlots
<1>7. Counted' => Counted
  BY <1>1 DEF Counted, SharedBus
<1>8. Counted => \A s \in Slot : payload'[s] = NoFrame
  BY <1>1, <1>2 DEF Accounts
<1> QED
  BY <1>1, <1>2, <1>6, <1>7, <1>8 DEF Accounts, Encoding

\* create, drain and close; when close returns nothing is left.
LEMMA LifecycleAccounts ==
  ASSUME RingInv, Accounts, Ends, Lifecycle
  PROVE  Accounts'
<1> USE DEF SharedBus, ringVars, flagVars, errorVars, statVars, subVars,
        workVars, workLocals, Counted
<1>1. CASE CloseJoin
  <2>1. /\ workPc = "done" /\ readyDepth' = 0 /\ subPc = "idle"
        /\ UNCHANGED <<accepted, processed, overwritten, failed, workPc,
                       subPc, workResult, sourceMode>>
        /\ control' = [s \in Slot |-> [control[s] EXCEPT !.st = "free"]]
        /\ payload' = [s \in Slot |-> NoFrame]
    BY <1>1 DEF CloseJoin, RingInv, CloseQuiet
  <2>2. \A s \in Slot : [control[s] EXCEPT !.st = "free"].st = "free"
    BY DEF RingInv, RingTyped, Controls
  <2>3. DepthSlots' = {} /\ PendingSlots' = {}
    BY <2>1, <2>2
    DEF DepthSlots, PendingSlots, InDepth, InReading, ReadPcs, Ready
  <2>4. Counted => PendingSlots = {}
    BY <2>1 DEF PendingSlots, InDepth, InReading, ReadPcs, Ends
  <2> QED
    BY <2>1, <2>3, <2>4, FS_EmptySet DEF Accounts, Encoding
<1>2. CASE \/ Create \/ DrainRequest \/ DrainNotify \/ DrainReturn
           \/ CloseRequest \/ CloseNotify
  <2>1. /\ UNCHANGED <<control, payload, readyDepth, accepted, processed,
                       overwritten, failed, subPc, subSlot, workAt, workSlot,
                       sourceMode, workResult>>
        /\ \/ workPc' = workPc
           \/ workPc = "wait" /\ workPc' = "evaluate"
    BY <1>2 DEF Create, DrainRequest, DrainNotify, DrainReturn, CloseRequest,
       CloseNotify, Notify
  <2> QED
    BY <2>1, AccountsKept
    DEF DepthSlots, PendingSlots, InDepth, InReading, ReadPcs, Ready, Encoding
<1> QED
  BY <1>1, <1>2 DEF Lifecycle

-----------------------------------------------------------------------------
\* Every step keeps the accounts.
LEMMA AccountStep == AccountInv /\ [Next]_vars => AccountInv'
<1> SUFFICES ASSUME AccountInv, [Next]_vars
             PROVE  AccountInv'
  OBVIOUS
<1>0. RingInv /\ Accounts /\ Ends /\ Starts /\ RingInv'
  BY RingStep DEF AccountInv
<1>1. CASE SubmitEnter \/ Submit
  BY <1>0, <1>1, SubmitterAccounts, SubmitterEnds DEF Submit, AccountInv
<1>2. CASE Worker
  BY <1>0, <1>2, WorkerQuietAccounts, WorkerFrameAccounts, FinishAccounts,
     WorkerEnds DEF Worker, AccountInv
<1>3. CASE Lifecycle
  BY <1>0, <1>3, LifecycleAccounts, LifecycleEnds DEF Lifecycle, AccountInv
<1>4. CASE UNCHANGED vars
  <2>1. Accounts'
    BY <1>0, <1>4, AccountsKept
    DEF vars, ringVars, flagVars, errorVars, statVars, subVars, workVars,
        workLocals, DepthSlots, PendingSlots, InDepth, InReading, Ready,
        Encoding, Counted, SharedBus
  <2>2. Ends' /\ Starts'
    BY <1>0, <1>4
    DEF vars, ringVars, flagVars, errorVars, statVars, subVars, workVars,
        workLocals, Ends, Starts, Ready, SharedBus
  <2> QED
    BY <1>0, <2>1, <2>2 DEF AccountInv
<1> QED
  BY <1>1, <1>2, <1>3, <1>4 DEF Next

\* At first there is nothing to account for.
LEMMA InitAccounts == Init => AccountInv
<1> SUFFICES ASSUME Init
             PROVE  Accounts /\ Ends /\ Starts
  BY InitRingInv DEF AccountInv
<1>1. DepthSlots = {} /\ PendingSlots = {}
  BY DEF Init, DepthSlots, PendingSlots, InDepth, InReading, ReadPcs, Ready
<1>2. Accounts
  BY <1>1, FS_EmptySet DEF Init, Accounts, Encoding
<1> QED
  BY <1>2 DEF Init, Ends, Starts, Ready

\* The accounts always balance.
LEMMA AccountInvariant == Spec => []AccountInv
<1> QED
  BY InitAccounts, AccountStep, PTL DEF Spec

(* However deep the ring, and however submitters, the worker and its end   *)
(* interleave, every frame submit_frame accepted has been counted exactly  *)
(* once, and no slot keeps a lease, when the worker has finished without   *)
(* an exception (publish_slot, acquire_write_slot, acquire_latest_ready,   *)
(* process_one, finish_worker).                                            *)
THEOREM AllAccounted == Spec => []FramesAccounted
<1>1. AccountInv => FramesAccounted
  <2> SUFFICES ASSUME AccountInv, ~SharedBus, workerFinished,
                      lastError # "system_error"
               PROVE  /\ accepted = processed + overwritten + failed
                      /\ \A s \in Slot : payload[s] = NoFrame
    BY DEF FramesAccounted
  <2>1. /\ workPc = "done" /\ Counted /\ subPc = "idle"
        /\ \A s \in Slot : ~Ready(s)
    BY DEF AccountInv, Ends, Counted
  <2>2. PendingSlots = {} /\ Encoding = 0
    BY <2>1 DEF PendingSlots, InDepth, InReading, ReadPcs, Encoding
  <2> QED
    BY <2>1, <2>2, FS_EmptySet DEF AccountInv, Accounts
<1> QED
  BY <1>1, AccountInvariant, PTL

(* ready_depth_, an unsigned counter that three threads adjust apart from  *)
(* the control words it counts, never wraps below zero, and never exceeds  *)
(* the ring (publish_slot, acquire_write_slot, acquire_latest_ready,       *)
(* finish_worker).                                                         *)
THEOREM DepthInRange == Spec => [](readyDepth \in 0 .. QueueDepth)
<1>1. AccountInv => readyDepth \in 0 .. QueueDepth
  BY SlotSets DEF AccountInv, Accounts, DepthSlots
<1> QED
  BY <1>1, AccountInvariant, PTL
=============================================================================
