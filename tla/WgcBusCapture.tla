---------------------------- MODULE WgcBusCapture ----------------------------
(***************************************************************************)
(* A Windows Graphics Capture in either mode (src/gpu/wgc_capture.cpp).    *)
(* WgcCapture describes the one with a private ring; a bus-only capture    *)
(* writes each frame into a slot of the shared frame bus, publishes the    *)
(* cursor's shape beside it (BusCursorShapes) and, asynchronously, the     *)
(* moves inferred between two frames (GpuMoveInference), which a worker    *)
(* thread reads back.                                                      *)
(*                                                                         *)
(* The bus's slots are those of SharedFrameBus; here a claim succeeds or   *)
(* not.  writer is where the holder of callback_mutex is, on_frame or the  *)
(* worker.                                                                 *)
(***************************************************************************)
EXTENDS WgcCapture, GpuMoveInference, BusCursorShapes

CONSTANT BusConfigs   \* buses, and the capture's side-data options

ASSUME BusConfigsAssumption ==
    /\ \A b \in BusConfigs : b.moves => b.native
    /\ BusConfigs \subseteq [only : {TRUE}, planar : BOOLEAN,
                             width : 1..MaxSize, native : BOOLEAN,
                             moves : BOOLEAN, cursor : BOOLEAN]

VARIABLES
    producer,     \* the capture holds the bus's producer reservation
    engine,       \* move_inference
    worker,       \* where move_result_worker_main is
    workerWake,   \* move_result_wake
    workerStop,   \* the worker's stop token
    cursorShape,  \* last_cursor_shape_sequence
    busShape,     \* last_bus_cursor_shape_sequence
    committed,    \* the frames on the bus, in sequence
    awaited,      \* committed frames whose move result is still to come
    moveResult    \* the last result published

busVars == <<producer, engine, worker, workerWake, workerStop, cursorShape,
             busShape, committed, awaited, moveResult, shapeVars>>
allVars == <<vars, busVars>>

workerVars == <<worker, workerWake, workerStop>>
cursorVars == <<cursorShape, busShape, shapeVars>>
moveVars == <<engine, awaited, moveResult>>

\* Bound: one more frame where the cursor-shape ring is to wrap round.
MaxBusSequence == IF bus.cursor THEN MaxSequence + 1 ELSE MaxSequence

NoResult == [sequence |-> 0]

-----------------------------------------------------------------------------
(* Life cycle.                                                             *)

\* create_for_window_to_bus and create_for_monitor_to_bus, on a new bus.
BusInit ==
    /\ bus \in BusConfigs
    /\ \E config \in MailboxConfigs : CaptureInit(config)

Unstarted ==
    /\ producer = bus.only
    /\ engine = NoEngine
    /\ worker = "none" /\ workerWake = FALSE /\ workerStop = FALSE
    /\ cursorShape = 0 /\ busShape = 0
    /\ committed = <<>> /\ awaited = {} /\ moveResult = NoResult
    /\ ShapesInit

Init == (RingInit \/ BusInit) /\ Unstarted

BusStart ==
    /\ Start
    /\ worker' = IF bus.moves THEN "check" ELSE "none"
    /\ UNCHANGED <<producer, workerWake, workerStop, cursorVars, moveVars,
                   committed>>

BusStopBegin == StopBegin /\ UNCHANGED busVars

\* stop_move_result_worker: request_stop and notify_all, without
\* move_result_mutex.
StopWorker ==
    /\ stopped /\ ~workerStop
    /\ workerStop' = TRUE
    /\ worker' = IF worker = "wait" THEN "check" ELSE worker
    /\ UNCHANGED <<vars, producer, workerWake, cursorVars, moveVars,
                   committed>>

\* After the join, the frame pool is closed and the reservation given back.
StopRelease ==
    /\ workerStop /\ worker \in {"none", "done"} /\ writer = Idle
    /\ producer
    /\ producer' = FALSE
    /\ UNCHANGED <<vars, workerVars, cursorVars, moveVars, committed>>

-----------------------------------------------------------------------------
(* Draining inferred moves, under callback_mutex.                          *)

Drain(next) == [at |-> "drain", next |-> next]

Scaled(region) == bus.width # region.width

\* normalize_move_result and the checks of publish_move_result.
Acceptable(readback) ==
    /\ readback.base # 0 /\ readback.base < readback.sequence
    /\ readback.sequence <= Len(committed)
    /\ readback.sequence > moveResult.sequence

\* drain_move_results_locked, one readback.  A scaled frame's moves, and more
\* moves than fit, are published as fail-closed.
DrainOne ==
    /\ writer.at = "drain" /\ Resolvable(engine)
    /\ LET readback == Head(engine.readbacks)
       IN  /\ engine' = PopReadback(engine)
           /\ IF readback.discard
              THEN UNCHANGED <<awaited, moveResult>>
              ELSE /\ Acceptable(readback)
                   /\ \E capacityExceeded \in BOOLEAN :
                        moveResult' =
                          [sequence |-> readback.sequence,
                           base |-> readback.base,
                           from |-> readback.from, to |-> readback.to,
                           failClosed |-> capacityExceeded
                                             \/ bus.width # engine.width]
                   /\ awaited' = awaited \ {readback.sequence}
    /\ UNCHANGED <<vars, producer, workerVars, cursorVars, committed>>

\* Mutant of NeedsWake: the worker is never woken for a read-back.
NeverWakes(left) == FALSE
\* Results that nobody has read back yet are left to the worker.
NeedsWake(left) == PendingCount(left) # 0

\* Where the caller of drain_move_results_locked goes on, with the engine it
\* is left with.
DrainEnds(left) ==
    /\ writer.at = "drain"
    /\ engine' = left
    /\ CASE writer.next = "worker" ->
              /\ worker' = IF workerStop \/ PendingCount(left) = 0
                           THEN "check" ELSE "pause"
              /\ writer' = Idle
              /\ UNCHANGED workerWake
         [] writer.next = "wake" ->
              /\ NeedsWake(left) => worker # "block"
              /\ workerWake' = (workerWake \/ NeedsWake(left))
              /\ worker' = IF NeedsWake(left) /\ worker = "wait"
                           THEN "check" ELSE worker
              /\ writer' = Idle
         [] OTHER ->
              /\ writer' = [at |-> "begin"]
              /\ UNCHANGED <<worker, workerWake>>
    /\ UNCHANGED <<ringVars, boxVars, eventMutex, reader, lease, sourceVars,
                   published, producer, workerStop, cursorVars, moveResult,
                   committed>>

\* Nothing more is ready.
DrainDone ==
    ~Resolvable(engine) /\ DrainEnds(engine) /\ UNCHANGED <<lifeVars, awaited>>

\* The query or the map fails, and the readback stays; or the result cannot
\* be made for want of memory, or the bus is shutting down and refuses it,
\* and it is lost, whether or not the capture goes on.  Only a lost device
\* ends the capture.
DrainFails ==
    /\ engine.initialized /\ engine.readbacks # <<>>
    /\ \/ DrainEnds(engine) /\ UNCHANGED awaited
       \/ /\ Resolvable(engine) /\ ~Head(engine.readbacks).discard
          /\ DrainEnds(PopReadback(engine))
          /\ awaited' = awaited \ {Head(engine.readbacks).sequence}
    /\ running' \in {running, FALSE}
    /\ UNCHANGED <<started, stopped, closed, bus>>

-----------------------------------------------------------------------------
(* A frame of a bus-only capture.                                          *)

\* sample_cursor may refresh the shape, or lose it; a refreshed shape is in
\* cursor_shapes.
SampleCursor ==
    cursorShape' \in IF bus.cursor THEN Shapes \cup {0, cursorShape} ELSE {0}

BusFrameAccepted ==
    /\ FrameAccepted(IF bus.moves THEN Drain("begin") ELSE [at |-> "begin"])
    /\ SampleCursor
    /\ UNCHANGED <<producer, workerVars, moveVars, busShape, shapeVars,
                   committed>>

\* What a step of on_frame's bus branch leaves alone.
busFrameUnchanged ==
    <<started, stopped, closed, bus, control, slotMailbox, frame, boxVars,
      eventMutex, reader, lease, poolSize, producer, cursorShape>>

\* begin_shared_frame_bus_publish finds no slot (timeout), or fails.  So may
\* the transform of a planar bus, earlier.
BusBeginFails ==
    /\ writer.at = "begin"
    /\ running' \in {running, FALSE}
    /\ writer' = Idle
    /\ UNCHANGED <<busFrameUnchanged, sequence, pending, changed, published,
                   workerVars, moveVars, busShape, shapeVars, committed>>

BusBegin ==
    /\ writer.at = "begin" /\ sequence < MaxBusSequence
    /\ writer' = [at |-> IF bus.moves THEN "submit" ELSE "write",
                  scheduled |-> FALSE]
    /\ UNCHANGED <<busFrameUnchanged, running, sequence, pending, changed, published,
                   workerVars, moveVars, busShape, shapeVars, committed>>

\* current_damage of the frame: a scaled planar frame is wholly damaged.
BusDamage ==
    IF bus.planar /\ Scaled(Region)
    THEN FullDamage(pending, Region, FALSE)
    ELSE CurrentDamage(pending, Region, sequence)

Source == [size |-> poolSize, x |-> Region.x]

\* ensure_move_inference.  An engine of another size is replaced, which is
\* refused while it has readbacks.
Ensured ==
    IF ~engine.initialized THEN CreateEngine(Region.width, Source)
    ELSE IF engine.width = Region.width
    THEN ReconfigureSource(engine, Source)
    ELSE CreateEngine(Region.width, Source)

EnsureRefused ==
    engine.initialized /\ engine.width # Region.width
        /\ PendingCount(engine) # 0

BaselineReset ==
    IF engine.initialized /\ BusDamage.discontinuity
    THEN ResetBaseline(Ensured) ELSE Ensured

\* current_inference_dirty_rects
InferenceDirty ==
    IF BusDamage.full \/ pending.full \/ sequence = 0
    THEN RegionColumns(Region)
    ELSE pending.dirty \cap RegionColumns(Region)

BusSubmit ==
    /\ writer.at = "submit"
    /\ ~EnsureRefused /\ MaySubmit(BaselineReset, sequence + 1)
    /\ \E overflow \in BOOLEAN :
         LET scheduled == Scheduled(BaselineReset, InferenceDirty, overflow)
         IN  /\ engine' = Submit(BaselineReset, sequence + 1, scheduled)
             /\ writer' = [at |-> "write", scheduled |-> scheduled]
    /\ UNCHANGED <<busFrameUnchanged, running, sequence, pending, changed, published,
                   workerVars, awaited, moveResult, busShape, shapeVars,
                   committed>>

\* The engine is refused, cannot be created, or submit fails.
BusSubmitFails ==
    /\ writer.at = "submit"
    /\ running' = FALSE
    /\ writer' = Idle
    /\ engine' \in IF EnsureRefused THEN {engine}
                   ELSE {engine, BaselineReset}
    /\ UNCHANGED <<busFrameUnchanged, sequence, pending, changed, published,
                   workerVars, awaited, moveResult, busShape, shapeVars,
                   committed>>

\* The conversion or the commit fails: the write lease is dropped and the
\* submission cancelled, which wakes the worker.
BusCommitFails ==
    /\ writer.at = "write"
    /\ running' \in {running, FALSE}
    /\ IF bus.moves
       THEN /\ worker # "block"
            /\ engine' = CancelSubmission(engine)
            /\ workerWake' = TRUE
            /\ worker' = IF worker = "wait" THEN "check" ELSE worker
       ELSE UNCHANGED <<engine, workerWake, worker>>
    /\ writer' = Idle
    /\ UNCHANGED <<busFrameUnchanged, sequence, pending, changed, published,
                   workerStop, awaited, moveResult, busShape, shapeVars,
                   committed>>

ShapeUnpublished == cursorShape # 0 /\ cursorShape # busShape

\* The frame is committed; its shape, if it is new, is not yet published.
BusCommit ==
    /\ writer.at = "write"
    /\ PublishesFrame(sequence + 1, Region, BusDamage)
    /\ committed' = Append(committed,
          [base |-> BusDamage.base, shape |-> cursorShape,
           shapePending |-> ShapeUnpublished])
    /\ engine' = IF bus.moves THEN CommitSubmission(engine) ELSE engine
    /\ awaited' = IF writer.scheduled THEN awaited \cup {sequence + 1}
                  ELSE awaited
    /\ writer' = [writer EXCEPT !.at = IF ShapeUnpublished THEN "shape"
                                       ELSE "finish"]
    /\ UNCHANGED <<busFrameUnchanged, running, sequence, pending, workerVars,
                   moveResult, busShape, shapeVars>>

\* publish_cursor_shape, or its refusal.
BusShape ==
    /\ \/ /\ writer.at = "shape"
          /\ \/ ShapeBegin /\ writer' = [writer EXCEPT !.at = "header"]
             \/ UNCHANGED shapeVars
                /\ writer' = [writer EXCEPT !.at = "finish"]
          /\ UNCHANGED busShape
       \/ /\ writer.at = "header" /\ ShapeStoreHeader(cursorShape)
          /\ writer' = [writer EXCEPT !.at = "data"]
          /\ UNCHANGED busShape
       \/ /\ writer.at = "data" /\ ShapeStoreData(cursorShape)
          /\ writer' = [writer EXCEPT !.at = "even"]
          /\ UNCHANGED busShape
       \/ /\ writer.at = "even" /\ ShapeCommit
          /\ busShape' = cursorShape
          /\ writer' = [writer EXCEPT !.at = "finish"]
    /\ UNCHANGED <<busFrameUnchanged, running, sequence, pending, changed, published,
                   workerVars, moveVars, committed>>

BusFinish ==
    /\ writer.at = "finish"
    /\ sequence' = sequence + 1
    /\ pending' = CompleteDamagePublish(pending, sequence + 1)
    /\ writer' = IF writer.scheduled THEN Drain("wake") ELSE Idle
    /\ UNCHANGED <<busFrameUnchanged, running, changed, published, workerVars,
                   moveVars, busShape, shapeVars, committed>>

-----------------------------------------------------------------------------
(* The worker, and the GPU.                                                *)

\* Under move_result_mutex.
WorkerCheck ==
    /\ worker = "check"
    /\ worker' = IF workerStop THEN "done"
                 ELSE IF workerWake THEN "loop" ELSE "block"
    /\ workerWake' = (workerWake /\ workerStop)
    /\ UNCHANGED <<vars, producer, workerStop, cursorVars, moveVars,
                   committed>>

WorkerBlock ==
    /\ worker = "block"
    /\ worker' = "wait"
    /\ UNCHANGED <<vars, producer, workerWake, workerStop, cursorVars,
                   moveVars, committed>>

WorkerDrain ==
    /\ worker = "loop" /\ writer = Idle
    /\ worker' = "drain" /\ writer' = Drain("worker")
    /\ UNCHANGED <<lifeVars, ringVars, boxVars, eventMutex, reader, lease,
                   sourceVars, published, producer, workerWake, workerStop,
                   cursorVars, moveVars, committed>>

\* The pause of a millisecond.
WorkerPause ==
    /\ worker = "pause"
    /\ worker' = IF workerStop THEN "done" ELSE "loop"
    /\ UNCHANGED <<vars, producer, workerWake, workerStop, cursorVars,
                   moveVars, committed>>

GpuCompletes ==
    /\ \E i \in NextCompleted(engine) : engine' = Complete(engine, i)
    /\ UNCHANGED <<vars, producer, workerVars, cursorVars, awaited,
                   moveResult, committed>>

-----------------------------------------------------------------------------
WorkerStep == WorkerCheck \/ WorkerBlock \/ WorkerDrain \/ WorkerPause

BusFrameStep ==
    \/ DrainOne \/ DrainDone \/ DrainFails
    \/ BusBeginFails \/ BusBegin \/ BusSubmit \/ BusSubmitFails
    \/ BusCommitFails \/ BusCommit \/ BusShape \/ BusFinish

BusStep ==
    \/ BusStart \/ BusStopBegin \/ StopWorker \/ StopRelease
    \/ BusFrameAccepted \/ BusFrameStep
    \/ WorkerStep \/ GpuCompletes
    \/ /\ \/ \E n \in 1..Len(committed) :
                /\ committed[n].shape # 0
                /\ ShapeReadCall(committed[n].shape)
          \/ ShapeReading
       /\ UNCHANGED <<vars, producer, workerVars, moveVars, cursorShape,
                      busShape, committed>>

Next ==
    \/ CommonStep /\ UNCHANGED busVars
    \/ ~bus.only /\ RingStep /\ UNCHANGED busVars
    \/ bus.only /\ BusStep

Spec == Init /\ [][Next]_allVars

-----------------------------------------------------------------------------
(* Properties.                                                             *)

(* A move result belongs to the frame it names: its base is the frame the  *)
(* damage of that frame is relative to, and the hashes compared are those  *)
(* of these two frames, although submissions are cancelled, baselines      *)
(* reset and results read back late (submit, cancel_submission,            *)
(* drain_move_results_locked).                                             *)
MovesMatchDamage ==
    moveResult # NoResult =>
        /\ moveResult.base = committed[moveResult.sequence].base
        /\ moveResult.from = moveResult.base
        /\ moveResult.to = moveResult.sequence

(* A frame committed with the move_pending flag gets its result though no  *)
(* further frame arrives: until it is published, its readback is queued    *)
(* and the worker is awake, about to wake, or about to be woken, unless    *)
(* the capture has failed or is stopped, or memory ran out while the       *)
(* result was made (on_frame, move_result_worker_main).                    *)
MoveResultPursued ==
    running /\ awaited # {} =>
        /\ \A n \in awaited : \E i \in 1..PendingCount(engine) :
              engine.readbacks[i].sequence = n
                  /\ ~engine.readbacks[i].discard
        /\ \/ worker \in {"loop", "drain", "pause"} \/ workerWake
           \/ writer.at \in {"shape", "header", "data", "even", "finish"}
           \/ writer.at = "drain" /\ writer.next = "wake"

=============================================================================
