-------------------------- MODULE AsyncGpuPipeline --------------------------
(***************************************************************************)
(* The bounded latest-wins pipeline of src/gpu/async_gpu_pipeline.cpp.     *)
(* Capture threads hand frames to a ring of slots, each guarded by one     *)
(* atomic control word (generation, state); a single worker takes the      *)
(* newest frame, discards the older ones, transforms and encodes.  A       *)
(* pipeline made from a shared frame bus has no ring: its worker pulls     *)
(* frames from the bus.                                                    *)
(*                                                                         *)
(* Three threads are modelled: whoever holds submit_mutex_ to submit (all  *)
(* submitters are alike and the mutex admits one), the worker, and whoever *)
(* holds lifecycle_mutex_ to create, drain or close.  Each atomic          *)
(* operation another thread can observe is a step of its own.              *)
(***************************************************************************)
EXTENDS Integers, FiniteSets

CONSTANTS
    QueueDepth,    \* config.queue_depth, 2..32 in the code
    MaxSequence,   \* bound: frames submitted, or taken from the bus
    SourceModes,   \* the pipelines considered: fed by submissions, by a bus
    Faults         \* which of FaultKinds may happen

FaultKinds == {"startup", "copy", "encoder", "exception"}

ASSUME PipelineAssumption ==
    /\ QueueDepth \in Nat /\ QueueDepth >= 2
    /\ MaxSequence \in Nat
    /\ SourceModes \subseteq {"submissions", "shared_bus"}
    /\ Faults \subseteq FaultKinds

Slot == 0 .. QueueDepth - 1
NoSlot == QueueDepth
NoFrame == 0

VARIABLES
    \* The ring.
    control,         \* per slot: control, as [gen, st]
    payload,         \* per slot: the frame in lease or copy_texture
    readyDepth,      \* ready_depth_
    nextSequence,    \* next_sequence_
    \* Flags and results.
    sourceMode,      \* source_mode_, fixed at creation
    initialized, accepting, drainRequested, stopRequested,
    startup,         \* startup_complete_ and startup_result_
    failureSet,      \* submission_failure_set_
    lastError,       \* last_error_
    workerFinished,  \* worker_finished_
    \* Statistics the documentation makes promises about.
    accepted, overwritten, processed, failed,
    lastProcessed,   \* last_processed_sequence_
    \* The thread holding submit_mutex_ and its locals.
    subPc, subAt, subSlot, subGen,
    \* The worker and its locals.
    workPc, workAt, workSlot, workSeq, workResult,
    workDraining,    \* bus worker: the draining it read before acquiring
    \* The thread holding lifecycle_mutex_.
    lifePc

ringVars == <<control, payload, readyDepth>>
flagVars ==
    <<sourceMode, initialized, accepting, drainRequested, stopRequested>>
errorVars == <<startup, failureSet, lastError, workerFinished>>
statVars == <<accepted, overwritten, processed, failed, lastProcessed>>
subVars == <<subPc, subAt, subSlot, subGen, nextSequence>>
workLocals == <<workAt, workSlot, workSeq, workResult, workDraining>>
workVars == <<workPc, workLocals>>
vars == <<ringVars, flagVars, errorVars, statVars, subVars, workVars, lifePc>>

SubPcs == {"idle", "free", "oldest", "steal", "evict", "write", "reserve",
           "store", "record", "reject", "stop", "notify"}
WorkPcs == {"starting", "loop", "depth", "pick", "take", "took", "purge",
            "purged", "transform", "encode", "drain", "evaluate", "block",
            "wait", "acquire", "ending", "finish", "publish", "done"}
LifePcs == {"creating", "opening", "idle", "drainNotify", "drainWait",
            "closeNotify", "closeJoin", "closed"}
Results == {"ok", "timeout", "device_lost", "encoder_error", "system_error"}

(* Every variable stays in its range; ready_depth_, an unsigned counter    *)
(* that three threads adjust, never goes below zero or above the ring.     *)
TypeOK ==
    /\ control \in [Slot -> [gen : 0 .. MaxSequence,
                             st : {"free", "writing", "ready", "reading"}]]
    /\ payload \in [Slot -> 0 .. MaxSequence]
    /\ readyDepth \in 0 .. QueueDepth
    /\ nextSequence \in 0 .. MaxSequence
    /\ sourceMode \in SourceModes
    /\ initialized \in BOOLEAN /\ accepting \in BOOLEAN
    /\ drainRequested \in BOOLEAN /\ stopRequested \in BOOLEAN
    /\ failureSet \in BOOLEAN /\ workerFinished \in BOOLEAN
    /\ startup \in {"pending", "ok", "failed"}
    /\ lastError \in Results
    /\ accepted \in Nat /\ overwritten \in Nat
    /\ processed \in Nat /\ failed \in Nat /\ lastProcessed \in Nat
    /\ subPc \in SubPcs /\ subAt \in 0 .. QueueDepth
    /\ subSlot \in Slot \cup {NoSlot} /\ subGen \in 0 .. MaxSequence
    /\ workPc \in WorkPcs /\ workAt \in 0 .. QueueDepth
    /\ workSlot \in Slot \cup {NoSlot} /\ workSeq \in 0 .. MaxSequence
    /\ workResult \in Results /\ workDraining \in BOOLEAN
    /\ lifePc \in LifePcs

-----------------------------------------------------------------------------
\* create_from_shared_bus made the pipeline, not create.
SharedBus == sourceMode = "shared_bus"

Ready(s) == control[s].st = "ready"

\* Mutants of Unchanged: the generation is not compared; nothing is.
StillReady(s, gen) == Ready(s)

AssumedUnchanged(s, gen) == TRUE

\* compare_exchange_strong on a remembered ready control word.
Unchanged(s, gen) == control[s] = [gen |-> gen, st |-> "ready"]

SetState(s, state) == control' = [control EXCEPT ![s].st = state]

\* Mutant of WorkMutexFree: flags are stored without work_mutex_.
WorkMutexIgnored == TRUE

\* work_mutex_ is held by the submitter while it publishes and by the worker
\* while it evaluates its wait condition.
WorkMutexFree == subPc # "store" /\ workPc # "block"

\* notify_one and notify_all have one possible waiter, the worker.
Notify == workPc' = IF workPc = "wait" THEN "evaluate" ELSE workPc

-----------------------------------------------------------------------------
(* submit_frame and submit_texture, under submit_mutex_.                   *)

SubmitEnter ==
    /\ ~SharedBus
    /\ subPc = "idle"
    /\ lifePc \notin {"creating", "opening", "closed"}
    /\ accepting
    /\ nextSequence < MaxSequence
    /\ nextSequence' = nextSequence + 1
    /\ subPc' = "free" /\ subAt' = 0
    /\ UNCHANGED <<ringVars, flagVars, errorVars, statVars, subSlot, subGen,
                   workVars, lifePc>>

\* acquire_write_slot, first scan: a free slot is claimed on sight.
ScanFree ==
    /\ subPc = "free"
    /\ \/ /\ subAt = QueueDepth
          /\ subPc' = "oldest" /\ subAt' = 0
          /\ subSlot' = NoSlot /\ subGen' = 0
          /\ UNCHANGED control
       \/ /\ subAt < QueueDepth
          /\ control[subAt].st = "free"
          /\ SetState(subAt, "writing")
          /\ subPc' = "write" /\ subSlot' = subAt
          /\ UNCHANGED <<subAt, subGen>>
       \/ /\ subAt < QueueDepth
          /\ control[subAt].st # "free"
          /\ subAt' = subAt + 1
          /\ UNCHANGED <<control, subPc, subSlot, subGen>>
    /\ UNCHANGED <<payload, readyDepth, flagVars, errorVars, statVars,
                   nextSequence, workVars, lifePc>>

\* Second scan: remember the oldest ready slot, or start over.
ScanOldest ==
    /\ subPc = "oldest"
    /\ \/ /\ subAt = QueueDepth
          /\ subPc' = IF subSlot = NoSlot THEN "free" ELSE "steal"
          /\ subAt' = 0
          /\ UNCHANGED <<subSlot, subGen>>
       \/ /\ subAt < QueueDepth
          /\ subAt' = subAt + 1
          /\ IF Ready(subAt)
                /\ (subSlot = NoSlot \/ control[subAt].gen < subGen)
             THEN subSlot' = subAt /\ subGen' = control[subAt].gen
             ELSE UNCHANGED <<subSlot, subGen>>
          /\ UNCHANGED subPc
    /\ UNCHANGED <<ringVars, flagVars, errorVars, statVars, nextSequence,
                   workVars, lifePc>>

StealOldest ==
    /\ subPc = "steal"
    /\ IF Unchanged(subSlot, subGen)
       THEN SetState(subSlot, "writing") /\ subPc' = "evict"
       ELSE UNCHANGED control /\ subPc' = "free"
    /\ UNCHANGED <<payload, readyDepth, flagVars, errorVars, statVars, subAt,
                   subSlot, subGen, nextSequence, workVars, lifePc>>

EvictOldest ==
    /\ subPc = "evict"
    /\ readyDepth' = readyDepth - 1
    /\ payload' = [payload EXCEPT ![subSlot] = NoFrame]
    /\ overwritten' = overwritten + 1
    /\ subPc' = "write"
    /\ UNCHANGED <<control, flagVars, errorVars, accepted, processed, failed,
                   lastProcessed, subAt, subSlot, subGen, nextSequence,
                   workVars, lifePc>>

\* Move the lease in, or copy the texture.
WriteSlot ==
    /\ subPc = "write"
    /\ payload' = [payload EXCEPT ![subSlot] = nextSequence]
    /\ subPc' = "reserve"
    /\ UNCHANGED <<control, readyDepth, flagVars, errorVars, statVars, subAt,
                   subSlot, subGen, nextSequence, workVars, lifePc>>

\* submit_texture finds the device removed after its copy.
CopyFails ==
    /\ "copy" \in Faults
    /\ subPc = "write"
    /\ control' = [control EXCEPT ![subSlot] =
                      [gen |-> nextSequence, st |-> "free"]]
    /\ subPc' = "record"
    /\ UNCHANGED <<payload, readyDepth, flagVars, errorVars, statVars, subAt,
                   subSlot, subGen, nextSequence, workVars, lifePc>>

Reserved == readyDepth + 1

\* publish_slot: the depth is raised before the slot becomes ready.
PublishReserve ==
    /\ subPc = "reserve"
    /\ WorkMutexFree
    /\ accepted' = accepted + 1
    /\ readyDepth' = Reserved
    /\ subPc' = "store"
    /\ UNCHANGED <<control, payload, flagVars, errorVars, overwritten,
                   processed, failed, lastProcessed, subAt, subSlot, subGen,
                   nextSequence, workVars, lifePc>>

PublishStore ==
    /\ subPc = "store"
    /\ control' = [control EXCEPT ![subSlot] =
                      [gen |-> nextSequence, st |-> "ready"]]
    /\ Notify
    /\ subPc' = "idle"
    /\ UNCHANGED <<payload, readyDepth, flagVars, errorVars, statVars, subAt,
                   subSlot, subGen, nextSequence, workLocals, lifePc>>

\* record_submission_failure: the error, then accepting_, then
\* stop_requested_, then the wake-up; work_mutex_ is not taken.
RecordFailure ==
    /\ \/ /\ subPc = "record" /\ subPc' = "reject"
          /\ failureSet' = TRUE /\ lastError' = "device_lost"
          /\ UNCHANGED <<accepting, stopRequested, workPc>>
       \/ /\ subPc = "reject" /\ subPc' = "stop"
          /\ accepting' = FALSE
          /\ UNCHANGED <<failureSet, lastError, stopRequested, workPc>>
       \/ /\ subPc = "stop" /\ subPc' = "notify"
          /\ stopRequested' = TRUE
          /\ UNCHANGED <<failureSet, lastError, accepting, workPc>>
       \/ /\ subPc = "notify" /\ subPc' = "idle"
          /\ Notify
          /\ UNCHANGED <<failureSet, lastError, accepting, stopRequested>>
    /\ UNCHANGED <<ringVars, sourceMode, initialized, drainRequested, startup,
                   workerFinished, statVars, subAt, subSlot, subGen,
                   nextSequence, workLocals, lifePc>>

-----------------------------------------------------------------------------
(* The worker.                                                             *)

WorkerFinal(r) == workPc' = "finish" /\ workResult' = r

\* worker_main up to publish_startup.
WorkerStart ==
    /\ workPc = "starting"
    /\ \/ startup' = "ok" /\ workPc' = "loop" /\ UNCHANGED workResult
       \/ /\ "startup" \in Faults
          /\ startup' = "failed" /\ WorkerFinal("encoder_error")
    /\ UNCHANGED <<ringVars, flagVars, failureSet, lastError,
                   workerFinished, statVars, subVars, workAt, workSlot,
                   workSeq, workDraining, lifePc>>

\* The head of the loop; the bus worker also reads drain_requested_.
WorkerLoop ==
    /\ workPc = "loop"
    /\ workPc' = IF stopRequested THEN "ending"
                 ELSE IF SharedBus THEN "acquire" ELSE "depth"
    /\ workDraining' = drainRequested
    /\ UNCHANGED <<ringVars, flagVars, errorVars, statVars, subVars, workAt,
                   workSlot, workSeq, workResult, lifePc>>

WorkerDepth ==
    /\ workPc = "depth"
    /\ workPc' = IF readyDepth # 0 THEN "pick" ELSE "drain"
    /\ workAt' = 0 /\ workSlot' = NoSlot /\ workSeq' = 0
    /\ UNCHANGED <<ringVars, flagVars, errorVars, statVars, subVars,
                   workResult, workDraining, lifePc>>

\* acquire_latest_ready: remember the newest ready slot.
PickNewest ==
    /\ workPc = "pick"
    /\ \/ /\ workAt = QueueDepth
          /\ workPc' = IF workSlot = NoSlot THEN "drain" ELSE "take"
          /\ UNCHANGED <<workAt, workSlot, workSeq>>
       \/ /\ workAt < QueueDepth
          /\ workAt' = workAt + 1
          /\ IF Ready(workAt) /\ control[workAt].gen >= workSeq
             THEN workSlot' = workAt /\ workSeq' = control[workAt].gen
             ELSE UNCHANGED <<workSlot, workSeq>>
          /\ UNCHANGED workPc
    /\ UNCHANGED <<ringVars, flagVars, errorVars, statVars, subVars,
                   workResult, workDraining, lifePc>>

TakeNewest ==
    /\ workPc = "take"
    /\ IF Unchanged(workSlot, workSeq)
       THEN /\ SetState(workSlot, "reading")
            /\ workPc' = "took"
            /\ UNCHANGED <<workSlot, workSeq>>
       ELSE /\ workPc' = "pick" /\ workSlot' = NoSlot /\ workSeq' = 0
            /\ UNCHANGED control
    /\ workAt' = 0
    /\ UNCHANGED <<payload, readyDepth, flagVars, errorVars, statVars,
                   subVars, workResult, workDraining, lifePc>>

TookNewest ==
    /\ workPc = "took"
    /\ readyDepth' = readyDepth - 1
    /\ workPc' = "purge"
    /\ UNCHANGED <<control, payload, flagVars, errorVars, statVars, subVars,
                   workLocals, lifePc>>

\* Mutant of Superseded: older ready frames are left in the ring.
SupersededNever(s) == FALSE

Superseded(s) == Ready(s) /\ control[s].gen < workSeq

\* Older ready frames are dropped one slot at a time.
PurgeOlder ==
    /\ workPc = "purge"
    /\ \/ /\ workAt = QueueDepth
          /\ workPc' = "transform"
          /\ UNCHANGED <<control, workAt>>
       \/ /\ workAt < QueueDepth
          /\ workAt # workSlot /\ Superseded(workAt)
          /\ SetState(workAt, "writing")
          /\ workPc' = "purged"
          /\ UNCHANGED workAt
       \/ /\ workAt < QueueDepth
          /\ ~(workAt # workSlot /\ Superseded(workAt))
          /\ workAt' = workAt + 1
          /\ UNCHANGED <<control, workPc>>
    /\ UNCHANGED <<payload, readyDepth, flagVars, errorVars, statVars,
                   subVars, workSlot, workSeq, workResult, workDraining,
                   lifePc>>

PurgedOlder ==
    /\ workPc = "purged"
    /\ readyDepth' = readyDepth - 1
    /\ payload' = [payload EXCEPT ![workAt] = NoFrame]
    /\ SetState(workAt, "free")
    /\ overwritten' = overwritten + 1
    /\ workAt' = workAt + 1
    /\ workPc' = "purge"
    /\ UNCHANGED <<flagVars, errorVars, accepted, processed, failed,
                   lastProcessed, subVars, workSlot, workSeq, workResult,
                   workDraining, lifePc>>

\* release_read_slot.
ReadSlotFree == [control EXCEPT ![workSlot] = [gen |-> workSeq, st |-> "free"]]

\* process_one until release_read_slot: the encoder gives an input surface
\* and the transform's read of the slot is queued, or the frame fails.
Transform ==
    /\ workPc = "transform"
    /\ control' = ReadSlotFree
    /\ payload' = [payload EXCEPT ![workSlot] = NoFrame]
    /\ \/ workPc' = "encode" /\ UNCHANGED <<failed, workResult>>
       \/ /\ "encoder" \in Faults
          /\ failed' = failed + 1
          /\ workPc' = "ending" /\ workResult' = "encoder_error"
    /\ UNCHANGED <<readyDepth, flagVars, errorVars, accepted, overwritten,
                   processed, lastProcessed, subVars, workAt, workSlot,
                   workSeq, workDraining, lifePc>>

\* submit_input accepts the frame or fails.
Encode ==
    /\ workPc = "encode"
    /\ \/ /\ processed' = processed + 1
          /\ lastProcessed' = workSeq
          /\ workPc' = "loop"
          /\ UNCHANGED <<failed, workResult>>
       \/ /\ "encoder" \in Faults
          /\ failed' = failed + 1
          /\ workPc' = "ending" /\ workResult' = "encoder_error"
          /\ UNCHANGED <<processed, lastProcessed>>
    /\ UNCHANGED <<ringVars, flagVars, errorVars, accepted, overwritten,
                   subVars, workAt, workSlot, workSeq, workDraining, lifePc>>

\* An exception in process_one, or in the packet callback that encoding and
\* draining call, leaves by the handlers at the end of worker_main.
WorkerThrows ==
    /\ "exception" \in Faults
    /\ \/ workPc \in {"transform", "encode"}
       \/ workPc = "drain" /\ drainRequested
    /\ WorkerFinal("system_error")
    /\ UNCHANGED <<ringVars, flagVars, errorVars, statVars, subVars, workAt,
                   workSlot, workSeq, workDraining, lifePc>>

\* Nothing was taken: drain the encoder if asked to, else wait.
WorkerDrain ==
    /\ workPc = "drain"
    /\ \/ ~drainRequested /\ workPc' = "evaluate" /\ UNCHANGED workResult
       \/ drainRequested /\ workPc' = "ending" /\ UNCHANGED workResult
       \/ /\ drainRequested /\ "encoder" \in Faults
          /\ workPc' = "ending" /\ workResult' = "encoder_error"
    /\ UNCHANGED <<ringVars, flagVars, errorVars, statVars, subVars, workAt,
                   workSlot, workSeq, workDraining, lifePc>>

\* work_cv_.wait: the condition is evaluated under work_mutex_, and the
\* mutex is given up only when the thread blocks.
WorkerWait ==
    /\ \/ /\ workPc = "evaluate"
          /\ subPc # "store"
          /\ workPc' = IF readyDepth # 0 \/ drainRequested \/ stopRequested
                       THEN "loop" ELSE "block"
       \/ workPc = "block" /\ workPc' = "wait"
    /\ UNCHANGED <<ringVars, flagVars, errorVars, statVars, subVars,
                   workLocals, lifePc>>

\* process_bus_frame finds nothing new within its timeout.  The worker of a
\* draining pipeline then drains the encoder; otherwise it goes round again,
\* with the timeout as its result so far.
BusTimeout ==
    /\ workPc = "acquire"
    /\ \/ ~workDraining /\ workPc' = "loop" /\ workResult' = "timeout"
       \/ workDraining /\ workPc' = "ending" /\ workResult' = "ok"
       \/ /\ workDraining /\ "encoder" \in Faults
          /\ workPc' = "ending" /\ workResult' = "encoder_error"
    /\ UNCHANGED <<ringVars, flagVars, errorVars, statVars, subVars, workAt,
                   workSlot, workSeq, workDraining, lifePc>>

\* The bus fails, or its frame does not fit the pipeline.
BusReject ==
    /\ "encoder" \in Faults
    /\ workPc = "acquire"
    /\ failed' \in {failed, failed + 1}
    /\ workPc' = "ending" /\ workResult' = "encoder_error"
    /\ UNCHANGED <<ringVars, flagVars, errorVars, accepted, overwritten,
                   processed, lastProcessed, subVars, workAt, workSlot,
                   workSeq, workDraining, lifePc>>

\* process_bus_frame takes a frame: the sequences it skipped count as
\* overwritten, and the frame is encoded, fails or throws.
BusFrame ==
    /\ workPc = "acquire"
    /\ \E seq \in workSeq + 1 .. MaxSequence :
         /\ workSeq' = seq
         /\ overwritten' = overwritten
                + (IF workSeq = 0 THEN 0 ELSE seq - workSeq - 1)
    /\ accepted' = accepted + 1
    /\ \/ /\ processed' = processed + 1 /\ lastProcessed' = workSeq'
          /\ workPc' = "loop" /\ workResult' = "ok"
          /\ UNCHANGED failed
       \/ /\ "encoder" \in Faults
          /\ failed' = failed + 1
          /\ workPc' = "ending" /\ workResult' = "encoder_error"
          /\ UNCHANGED <<processed, lastProcessed>>
       \/ /\ "exception" \in Faults
          /\ WorkerFinal("system_error")
          /\ UNCHANGED <<processed, failed, lastProcessed>>
    /\ UNCHANGED <<ringVars, flagVars, errorVars, subVars, workAt, workSlot,
                   workDraining, lifePc>>

\* A submission failure takes precedence over the worker's own result.
FailureKept == IF failureSet THEN "device_lost" ELSE workResult

\* Closing the bus consumer may turn success into a failure.
WorkerEnding ==
    /\ workPc = "ending"
    /\ \/ WorkerFinal(FailureKept)
       \/ /\ SharedBus /\ "encoder" \in Faults
          /\ FailureKept = "ok" /\ WorkerFinal("encoder_error")
    /\ UNCHANGED <<ringVars, flagVars, errorVars, statVars, subVars, workAt,
                   workSlot, workSeq, workDraining, lifePc>>

\* Mutant of ReadySlots: frames left in the ring at the end are not counted.
NoReadySlots == {}

ReadySlots == {s \in Slot : Ready(s)}

\* finish_worker, first half, under submit_mutex_: what a submit published
\* before the worker saw its failure is retired.
FinishReject ==
    /\ workPc = "finish"
    /\ subPc = "idle"
    /\ accepting' = FALSE
    /\ LET dropped == ReadySlots
       IN  /\ control' = [s \in Slot |-> IF s \in dropped
                             THEN [control[s] EXCEPT !.st = "free"]
                             ELSE control[s]]
           /\ payload' = [s \in Slot |-> IF s \in dropped
                             THEN NoFrame ELSE payload[s]]
           /\ readyDepth' = readyDepth - Cardinality(dropped)
           /\ overwritten' = overwritten + Cardinality(dropped)
    /\ workPc' = "publish"
    /\ UNCHANGED <<sourceMode, initialized, drainRequested, stopRequested,
                   errorVars, accepted, processed, failed, lastProcessed, subVars,
                   workLocals, lifePc>>

\* finish_worker, second half: the result, under state_mutex_.
FinishPublish ==
    /\ workPc = "publish"
    /\ lastError' = workResult
    /\ workerFinished' = TRUE
    /\ workPc' = "done"
    /\ UNCHANGED <<ringVars, flagVars, startup, failureSet, statVars,
                   subVars, workLocals, lifePc>>

-----------------------------------------------------------------------------
(* create, drain and close, under lifecycle_mutex_.                        *)

\* initialize_common after it started the worker: wait for startup, then
\* initialized_, then accepting_.
Create ==
    /\ \/ /\ lifePc = "creating" /\ startup = "ok"
          /\ lifePc' = "opening" /\ initialized' = TRUE
          /\ UNCHANGED accepting
       \/ /\ lifePc = "opening"
          /\ lifePc' = "idle" /\ accepting' = TRUE
          /\ UNCHANGED initialized
    /\ UNCHANGED <<ringVars, sourceMode, drainRequested, stopRequested,
                   errorVars, statVars, subVars, workVars>>

DrainRequest ==
    /\ lifePc = "idle"
    /\ subPc = "idle" /\ WorkMutexFree
    /\ accepting' = FALSE
    /\ drainRequested' = TRUE
    /\ lifePc' = "drainNotify"
    /\ UNCHANGED <<ringVars, sourceMode, initialized, stopRequested,
                   errorVars, statVars, subVars, workVars>>

DrainNotify ==
    /\ lifePc = "drainNotify"
    /\ Notify
    /\ lifePc' = "drainWait"
    /\ UNCHANGED <<ringVars, flagVars, errorVars, statVars, subVars,
                   workLocals>>

\* drain returns when the worker has finished, or when its timeout elapses.
DrainReturn ==
    /\ lifePc = "drainWait"
    /\ lifePc' = "idle"
    /\ UNCHANGED <<ringVars, flagVars, errorVars, statVars, subVars,
                   workVars>>

\* close, also called when startup failed.
CloseRequest ==
    /\ lifePc = "idle" \/ (lifePc = "creating" /\ startup = "failed")
    /\ subPc = "idle" /\ WorkMutexFree
    /\ accepting' = FALSE
    /\ stopRequested' = TRUE
    /\ lifePc' = "closeNotify"
    /\ UNCHANGED <<ringVars, sourceMode, initialized, drainRequested,
                   errorVars, statVars, subVars, workVars>>

CloseNotify ==
    /\ lifePc = "closeNotify"
    /\ Notify
    /\ lifePc' = "closeJoin"
    /\ UNCHANGED <<ringVars, flagVars, errorVars, statVars, subVars,
                   workLocals>>

CloseJoin ==
    /\ lifePc = "closeJoin"
    /\ workPc = "done"
    /\ control' = [s \in Slot |-> [control[s] EXCEPT !.st = "free"]]
    /\ payload' = [s \in Slot |-> NoFrame]
    /\ readyDepth' = 0
    /\ initialized' = FALSE
    /\ lifePc' = "closed"
    /\ UNCHANGED <<sourceMode, accepting, drainRequested, stopRequested,
                   errorVars, statVars, subVars, workVars>>

-----------------------------------------------------------------------------
Init ==
    /\ control = [s \in Slot |-> [gen |-> 0, st |-> "free"]]
    /\ payload = [s \in Slot |-> NoFrame]
    /\ readyDepth = 0 /\ nextSequence = 0
    /\ sourceMode \in SourceModes
    /\ initialized = FALSE /\ accepting = FALSE
    /\ drainRequested = FALSE /\ stopRequested = FALSE
    /\ startup = "pending" /\ failureSet = FALSE
    /\ lastError = "ok" /\ workerFinished = FALSE
    /\ accepted = 0 /\ overwritten = 0 /\ processed = 0 /\ failed = 0
    /\ lastProcessed = 0
    /\ subPc = "idle" /\ subAt = 0 /\ subSlot = NoSlot /\ subGen = 0
    /\ workPc = "starting" /\ workAt = 0 /\ workSlot = NoSlot /\ workSeq = 0
    /\ workResult = "ok" /\ workDraining = FALSE
    /\ lifePc = "creating"

\* The submitter past its entry.
Submit ==
    ScanFree \/ ScanOldest \/ StealOldest \/ EvictOldest \/ WriteSlot
        \/ CopyFails \/ PublishReserve \/ PublishStore \/ RecordFailure

Worker ==
    \/ WorkerStart \/ WorkerLoop
    \/ WorkerDepth \/ PickNewest \/ TakeNewest \/ TookNewest
    \/ PurgeOlder \/ PurgedOlder \/ Transform \/ Encode \/ WorkerThrows
    \/ WorkerDrain \/ WorkerWait \/ BusTimeout \/ BusReject \/ BusFrame
    \/ WorkerEnding \/ FinishReject \/ FinishPublish

Lifecycle ==
    Create \/ DrainRequest \/ DrainNotify \/ DrainReturn
        \/ CloseRequest \/ CloseNotify \/ CloseJoin

Next == SubmitEnter \/ Submit \/ Worker \/ Lifecycle

Spec == Init /\ [][Next]_vars

(* The scheduler runs every thread that can run, and the encoder and the   *)
(* transform return.  Nobody is obliged to submit, drain or close.         *)
FairSpec ==
    /\ Spec
    /\ WF_vars(Submit)
    /\ WF_vars(Worker)
    /\ WF_vars(Create) /\ WF_vars(DrainNotify)
    /\ WF_vars(CloseNotify) /\ WF_vars(CloseJoin)

-----------------------------------------------------------------------------
(* Properties.                                                             *)

(* From taking a frame to queueing its transform, the worker's slot stays  *)
(* marked as being read and holds the very frame whose sequence the worker *)
(* took, whatever submitters steal meanwhile (acquire_latest_ready,        *)
(* acquire_write_slot, process_one).                                       *)
ReadsOwnFrame ==
    workPc \in {"took", "purge", "purged", "transform"} =>
        /\ control[workSlot] = [gen |-> workSeq, st |-> "reading"]
        /\ payload[workSlot] = workSeq

(* Two threads never write one slot at the same time: while the worker     *)
(* empties a superseded slot the submitter is not filling it.              *)
OneWriter ==
    workPc = "purged" /\ subPc \in {"evict", "write", "reserve", "store"}
        => workAt # subSlot

(* Latest wins: frames are encoded in the order they were submitted, and   *)
(* none comes after a newer one.                                           *)
EncodesInOrder ==
    [][lastProcessed' # lastProcessed => lastProcessed' > lastProcessed]_vars

(* Once the worker has finished, every submitted frame that was accepted   *)
(* is accounted for exactly once as processed, overwritten or failed, and  *)
(* no slot keeps a lease; only an exception inside process_one is exempt.  *)
(* (A bus worker counts the sequences it skips as overwritten although it  *)
(* never accepted them.)                                                   *)
FramesAccounted ==
    ~SharedBus /\ workerFinished /\ lastError # "system_error" =>
        /\ accepted = processed + overwritten + failed
        /\ \A s \in Slot : payload[s] = NoFrame

(* A requested drain or close is followed by the end of the worker.        *)
DrainFinishes ==
    (drainRequested \/ lifePc \in {"closeNotify", "closeJoin"})
        ~> workerFinished

=============================================================================
