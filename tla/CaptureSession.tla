---------------------------- MODULE CaptureSession ----------------------------
(***************************************************************************)
(* A CPU capture session (src/fluxcap.cpp): a pool of frame slots, each    *)
(* with one atomic control word (state and generation), a worker that      *)
(* captures into them, and the calls of any number of threads.             *)
(*                                                                         *)
(* One action is one access to shared state.  While event_mutex_ is held   *)
(* no slot becomes ready, so the scan of acquire_latest with the           *)
(* compare-exchange that ends it is one action too: a slot it misses stays *)
(* missed, and a failed exchange starts the scan again.                    *)
(*                                                                         *)
(* An image stands for all pixels, and a frame's dirty regions for whether *)
(* it differs from its base; hashes are taken not to collide.  Time, the   *)
(* cursor and statistics are left out.                                     *)
(***************************************************************************)
EXTENDS Naturals, FiniteSets, Sequences

CONSTANTS
    BufferCount,   \* config_.buffer_count
    Threads,       \* the callers
    Calls,         \* the calls each of them makes
    Images,        \* what the screen may show
    MaxSequence    \* bound, and the code's own: the last generation

Worker == "worker"
Nobody == "nobody"
NoImage == "no image"   \* nothing, or what a failed capture leaves

ASSUME SessionAssumption ==
    /\ BufferCount \in Nat \ {0} /\ MaxSequence \in Nat
    /\ NoImage \notin Images
    /\ {Worker, Nobody} \cap Threads = {}
    /\ \A t \in Threads :
          Calls[t] \subseteq {"capture", "start", "stop", "acquire"}

VARIABLES
    slot,          \* slots_
    sequence,      \* sequence_
    baseline,      \* dirty_tracker_: the image last analysed, or NoImage
    producer,      \* the holder of producer_mutex_
    control,       \* the holder of control_mutex_
    running, stopRequested,
    joinable,      \* worker_.joinable()
    acquiring,     \* the threads active_acquires_ counts
    pc,            \* where the worker and each thread are
    at,            \* the slot index of each one's loop
    write,         \* the producer's slot, and acquire_write_slot's scan
    asleep,        \* the threads waiting in event_cv_
    lease,         \* the frame of each thread
    history,       \* ghost: the image of every captured frame
    cleared        \* worker_main's copy of a control word, at its end

frameVars == <<slot, sequence, baseline, history>>
lifeVars == <<running, stopRequested, joinable>>
callVars == <<acquiring, lease>>
produceVars == <<producer, write>>
vars == <<frameVars, lifeVars, callVars, produceVars, control, pc, at,
          asleep, cleared>>

Slots == 0..(BufferCount - 1)
NoFrame == [sequence |-> 0]
NoWrite == [slot |-> BufferCount, preserve |-> FALSE, oldest |-> BufferCount,
            generation |-> 0, attempt |-> 0]

Has(i, state) == slot[i].state = state
Ready == {i \in Slots : Has(i, "ready")}
GenerationOf(i) == slot[i].generation

Init ==
    /\ slot = [i \in Slots |-> [state |-> "free", generation |-> 0,
                                image |-> NoImage, base |-> 0,
                                dirty |-> TRUE]]
    /\ sequence = 0 /\ baseline = NoImage /\ history = <<>>
    /\ producer = Nobody /\ control = Nobody
    /\ running = FALSE /\ stopRequested = FALSE /\ joinable = FALSE
    /\ acquiring = {}
    /\ pc = [p \in Threads \cup {Worker} |-> "idle"]
    /\ at = [p \in Threads \cup {Worker} |-> 0]
    /\ write = NoWrite
    /\ asleep = {}
    /\ lease = [t \in Threads |-> NoFrame]
    /\ cleared = 0

Goto(p, place) == pc' = [pc EXCEPT ![p] = place]
SetState(i, state) == slot' = [slot EXCEPT ![i].state = state]

\* fill_frame
Frame(i, number) == [sequence |-> number, slot |-> i, image |-> slot[i].image]

-----------------------------------------------------------------------------
(* acquire_write_slot and capture_into, under producer_mutex_, for capture *)
(* and for the worker.                                                     *)

\* The first free slot, one at a time: a slot given back behind the scan is
\* missed.
FindFree(p) ==
    /\ pc[p] = "free" /\ at[p] < BufferCount
    /\ IF Has(at[p], "free")
       THEN /\ SetState(at[p], "writing")
            /\ write' = [write EXCEPT !.slot = at[p]]
            /\ Goto(p, "write") /\ at' = [at EXCEPT ![p] = 0]
       ELSE /\ at' = [at EXCEPT ![p] = @ + 1]
            /\ UNCHANGED <<slot, write, pc>>
    /\ UNCHANGED <<sequence, baseline, history, lifeVars, callVars, producer,
                   control, asleep, cleared>>

Oldest == {i \in Ready : \A j \in Ready : GenerationOf(i) <= GenerationOf(j)}

\* No free slot: the oldest ready one, read here and taken in StealOldest.
FindOldest(p) ==
    /\ pc[p] = "free" /\ at[p] = BufferCount
    /\ LET kept == IF write.preserve THEN 1 ELSE 0
       IN  IF write.attempt < BufferCount /\ Cardinality(Ready) > kept
           THEN /\ \E i \in Oldest :
                      write' = [write EXCEPT !.oldest = i,
                                             !.generation = GenerationOf(i),
                                             !.attempt = @ + 1]
                /\ Goto(p, "steal")
           ELSE Goto(p, "nobuffer") /\ UNCHANGED write
    /\ UNCHANGED <<frameVars, lifeVars, callVars, producer, control, at,
                   asleep, cleared>>

\* Mutant of StealOldest: a slot is taken whatever leases it has by now.
StealBlindly(p) ==
    /\ pc[p] = "steal"
    /\ SetState(write.oldest, "writing")
    /\ write' = [write EXCEPT !.slot = write.oldest]
    /\ Goto(p, "write")
    /\ UNCHANGED <<sequence, baseline, history, lifeVars, callVars, producer,
                   control, at, asleep, cleared>>

StealOldest(p) ==
    /\ pc[p] = "steal"
    /\ IF /\ Has(write.oldest, "ready")
          /\ GenerationOf(write.oldest) = write.generation
       THEN /\ SetState(write.oldest, "writing")
            /\ write' = [write EXCEPT !.slot = write.oldest]
            /\ Goto(p, "write")
       ELSE Goto(p, "free") /\ UNCHANGED <<slot, write>>
    /\ UNCHANGED <<sequence, baseline, history, lifeVars, callVars, producer,
                   control, at, asleep, cleared>>

\* dirty_base_sequence
BaseOf == IF baseline = NoImage THEN 0 ELSE sequence

\* BitBlt, the analysis and the number of the frame (slot.sequence, which the
\* control word takes over when the frame is published).
CaptureInto(p) ==
    /\ pc[p] = "write"
    /\ \E image \in Images :
         LET i == write.slot
         IN  /\ baseline' = image
             /\ IF sequence < MaxSequence
                THEN /\ sequence' = sequence + 1
                     /\ slot' = [slot EXCEPT ![i].image = image,
                                             ![i].base = BaseOf,
                                             ![i].dirty = baseline # image]
                     /\ history' = Append(history, image)
                     /\ Goto(p, "captured")
                ELSE /\ slot' = [slot EXCEPT ![i].image = NoImage]
                     /\ Goto(p, "failed")
                     /\ UNCHANGED <<sequence, history>>
    /\ UNCHANGED <<lifeVars, callVars, producer, control, at, write, asleep, cleared>>

\* Mutant of CaptureFails: the tracker keeps the frame that was never published.
CaptureFailsLate(p) ==
    /\ pc[p] = "write"
    /\ \E image \in Images :
          /\ slot' = [slot EXCEPT ![write.slot].image = NoImage]
          /\ baseline' = image
    /\ Goto(p, "failed")
    /\ UNCHANGED <<sequence, history, lifeVars, callVars, producer, control,
                   at, write, asleep, cleared>>

\* BitBlt, GdiFlush or the analysis fails; pixels may have been written.
CaptureFails(p) ==
    /\ pc[p] = "write"
    /\ slot' = [slot EXCEPT ![write.slot].image = NoImage]
    /\ Goto(p, "failed")
    /\ UNCHANGED <<sequence, baseline, history, lifeVars, callVars, producer,
                   control, at, write, asleep, cleared>>

\* release_write_slot, and out of producer_mutex_.
GiveUp(p, next) ==
    /\ pc[p] \in {"failed", "nobuffer"}
    /\ IF pc[p] = "failed" THEN SetState(write.slot, "free")
       ELSE UNCHANGED slot
    /\ producer' = Nobody /\ write' = NoWrite
    /\ Goto(p, next)
    /\ UNCHANGED <<sequence, baseline, history, lifeVars, callVars, control,
                   at, asleep, cleared>>

Produces(p) ==
    \/ FindFree(p) \/ FindOldest(p) \/ StealOldest(p)
    \/ CaptureInto(p) \/ CaptureFails(p)

-----------------------------------------------------------------------------
(* capture().                                                              *)

EnterCapture(t) ==
    /\ "capture" \in Calls[t] /\ pc[t] = "idle" /\ lease[t] = NoFrame
    /\ producer = Nobody /\ ~running
    /\ producer' = t
    /\ Goto(t, "free") /\ at' = [at EXCEPT ![t] = 0]
    /\ UNCHANGED <<frameVars, lifeVars, callVars, control, write, asleep,
                   cleared>>

LeaveCapture(t) ==
    /\ pc[t] = "captured"
    /\ slot' = [slot EXCEPT ![write.slot].state = "reading",
                            ![write.slot].generation = sequence]
    /\ lease' = [lease EXCEPT ![t] = Frame(write.slot, sequence)]
    /\ producer' = Nobody /\ write' = NoWrite
    /\ Goto(t, "idle")
    /\ UNCHANGED <<sequence, baseline, history, lifeVars, acquiring,
                   control, at, asleep, cleared>>

\* Mutant of Throws: producer_mutex_ stays locked.
ThrowsLocked(p, next) ==
    /\ pc[p] = "write"
    /\ write' = NoWrite
    /\ Goto(p, next) /\ at' = [at EXCEPT ![p] = 0]
    /\ UNCHANGED <<frameVars, lifeVars, callVars, producer, control, asleep,
                   cleared>>

\* Out of memory while an error is described: the slot stays as it is.
Throws(p, next) ==
    /\ pc[p] = "write"
    /\ producer' = Nobody /\ write' = NoWrite
    /\ Goto(p, next) /\ at' = [at EXCEPT ![p] = 0]
    /\ UNCHANGED <<frameVars, lifeVars, callVars, control, asleep, cleared>>

-----------------------------------------------------------------------------
(* start() and stop(), under control_mutex_.                               *)

EnterStart(t) ==
    /\ "start" \in Calls[t] /\ pc[t] = "idle"
    /\ control = Nobody /\ ~joinable /\ ~running
    /\ control' = t
    /\ Goto(t, "start") /\ at' = [at EXCEPT ![t] = 0]
    /\ UNCHANGED <<frameVars, lifeVars, callVars, produceVars, asleep,
                   cleared>>

DiscardReady(t) ==
    /\ pc[t] = "start" /\ at[t] < BufferCount
    /\ IF Has(at[t], "ready") THEN SetState(at[t], "free")
       ELSE UNCHANGED slot
    /\ at' = [at EXCEPT ![t] = @ + 1]
    /\ UNCHANGED <<sequence, baseline, history, lifeVars, callVars,
                   produceVars, control, pc, asleep, cleared>>

Launch(t) ==
    /\ pc[t] = "start" /\ at[t] = BufferCount
    /\ stopRequested' = FALSE /\ running' = TRUE
    /\ \/ /\ joinable' = TRUE /\ control' = Nobody
          /\ pc' = [pc EXCEPT ![t] = "idle", ![Worker] = "begin"]
       \/ /\ UNCHANGED <<joinable, control>>
          /\ Goto(t, "nothread")
    /\ UNCHANGED <<frameVars, callVars, produceVars, at, asleep, cleared>>

LaunchFailed(t) ==
    /\ pc[t] = "nothread"
    /\ running' = FALSE /\ asleep' = {}
    /\ control' = Nobody /\ Goto(t, "idle")
    /\ UNCHANGED <<frameVars, stopRequested, joinable, callVars, produceVars,
                   at, cleared>>

EnterStop(t) ==
    /\ "stop" \in Calls[t] /\ pc[t] = "idle" /\ control = Nobody
    /\ control' = t
    /\ stopRequested' = TRUE /\ asleep' = {}
    /\ Goto(t, "join")
    /\ UNCHANGED <<frameVars, running, joinable, callVars, produceVars, at,
                   cleared>>

Join(t) ==
    /\ pc[t] = "join" /\ pc[Worker] \in {"idle", "done"}
    /\ joinable' = FALSE /\ running' = FALSE /\ asleep' = {}
    /\ control' = Nobody
    /\ pc' = [pc EXCEPT ![t] = "idle", ![Worker] = "idle"]
    /\ UNCHANGED <<frameVars, stopRequested, callVars, produceVars, at,
                   cleared>>

-----------------------------------------------------------------------------
(* acquire_latest, and release.  A call without a timeout is one that does *)
(* not time out.                                                           *)

EnterAcquire(t) ==
    /\ "acquire" \in Calls[t] /\ pc[t] = "idle" /\ lease[t] = NoFrame
    /\ acquiring' = acquiring \cup {t}
    /\ Goto(t, "acquire")
    /\ UNCHANGED <<frameVars, lifeVars, lease, produceVars,
                   control, at, asleep, cleared>>

Newest == {i \in Ready : \A j \in Ready : GenerationOf(j) <= GenerationOf(i)}

Acquires(t) == pc[t] = "acquire" /\ t \notin asleep

TakeNewest(t) ==
    /\ Acquires(t)
    /\ \E i \in Newest :
          /\ SetState(i, "reading")
          /\ lease' = [lease EXCEPT ![t] = Frame(i, GenerationOf(i))]
    /\ Goto(t, "discard") /\ at' = [at EXCEPT ![t] = 0]
    /\ UNCHANGED <<sequence, baseline, history, lifeVars, acquiring,
                   produceVars, control, asleep,
                   cleared>>

Sleep(t) ==
    /\ Acquires(t) /\ Ready = {} /\ running
    /\ asleep' = asleep \cup {t}
    /\ UNCHANGED <<frameVars, lifeVars, callVars, produceVars, control, pc,
                   at, cleared>>

\* Not running, and no frame.
NotRunning(t) ==
    /\ Acquires(t) /\ Ready = {} /\ ~running
    /\ Goto(t, "leave")
    /\ UNCHANGED <<frameVars, lifeVars, callVars, produceVars, control, at,
                   asleep, cleared>>

\* Also with a frame ready, when others have won the exchange.
TimedOut(t) ==
    /\ pc[t] = "acquire"
    /\ asleep' = asleep \ {t}
    /\ Goto(t, "leave")
    /\ UNCHANGED <<frameVars, lifeVars, callVars, produceVars, control, at,
                   cleared>>

\* Older frames than the one acquired, of the other slots, are discarded.
Outdated(i, t) ==
    /\ i # lease[t].slot /\ Has(i, "ready")
    /\ GenerationOf(i) < lease[t].sequence

DiscardOlder(t) ==
    /\ pc[t] = "discard" /\ at[t] < BufferCount
    /\ IF Outdated(at[t], t) THEN SetState(at[t], "free")
       ELSE UNCHANGED slot
    /\ at' = [at EXCEPT ![t] = @ + 1]
    /\ UNCHANGED <<sequence, baseline, history, lifeVars, callVars,
                   produceVars, control, pc, asleep, cleared>>

LeaveAcquire(t) ==
    /\ pc[t] = "leave" \/ (pc[t] = "discard" /\ at[t] = BufferCount)
    /\ acquiring' = acquiring \ {t}
    /\ Goto(t, "idle") /\ at' = [at EXCEPT ![t] = 0]
    /\ UNCHANGED <<frameVars, lifeVars, lease, produceVars,
                   control, asleep, cleared>>

\* The control word a release expects.
Leased(frame) ==
    /\ Has(frame.slot, "reading")
    /\ GenerationOf(frame.slot) = frame.sequence

Release(t) ==
    /\ pc[t] = "idle" /\ lease[t] # NoFrame /\ Leased(lease[t])
    /\ SetState(lease[t].slot, "free")
    /\ lease' = [lease EXCEPT ![t] = NoFrame]
    /\ UNCHANGED <<sequence, baseline, history, lifeVars, acquiring,
                   produceVars, control, pc, at, asleep, cleared>>

-----------------------------------------------------------------------------
(* The worker.                                                             *)

\* No screen DC, no worker.
WorkerBegins ==
    /\ pc[Worker] = "begin"
    /\ Goto(Worker, "loop") \/ Goto(Worker, "end")
    /\ at' = [at EXCEPT ![Worker] = 0]
    /\ UNCHANGED <<frameVars, lifeVars, callVars, produceVars, control,
                   asleep, cleared>>

WorkerGoesOn ==
    /\ pc[Worker] = "loop" /\ ~stopRequested
    /\ Goto(Worker, "lock")
    /\ UNCHANGED <<frameVars, lifeVars, callVars, produceVars, control, at,
                   asleep, cleared>>

WorkerLocks ==
    /\ pc[Worker] = "lock" /\ producer = Nobody
    /\ producer' = Worker
    /\ write' = [NoWrite EXCEPT !.preserve = acquiring # {}]
    /\ Goto(Worker, "free") /\ at' = [at EXCEPT ![Worker] = 0]
    /\ UNCHANGED <<frameVars, lifeVars, callVars, control, asleep, cleared>>

WorkerStops ==
    /\ pc[Worker] = "loop" /\ stopRequested
    /\ Goto(Worker, "end") /\ at' = [at EXCEPT ![Worker] = 0]
    /\ UNCHANGED <<frameVars, lifeVars, callVars, produceVars, control,
                   asleep, cleared>>

WorkerPublishes ==
    /\ pc[Worker] = "captured"
    /\ slot' = [slot EXCEPT ![write.slot].state = "ready",
                            ![write.slot].generation = sequence]
    /\ asleep' = {}
    /\ producer' = Nobody /\ write' = NoWrite
    /\ Goto(Worker, "loop")
    /\ UNCHANGED <<sequence, baseline, history, lifeVars, callVars, control,
                   at, cleared>>

\* At its end worker_main frees the slots it finds being written: it reads
\* the control word, and writes it.
WorkerLooks ==
    /\ pc[Worker] = "end" /\ at[Worker] < BufferCount
    /\ IF Has(at[Worker], "writing")
       THEN /\ cleared' = GenerationOf(at[Worker])
            /\ Goto(Worker, "clear") /\ UNCHANGED at
       ELSE /\ at' = [at EXCEPT ![Worker] = @ + 1]
            /\ UNCHANGED <<cleared, pc>>
    /\ UNCHANGED <<frameVars, lifeVars, callVars, produceVars, control,
                   asleep>>

WorkerClears ==
    /\ pc[Worker] = "clear"
    /\ slot' = [slot EXCEPT ![at[Worker]].state = "free",
                            ![at[Worker]].generation = cleared]
    /\ cleared' = 0
    /\ Goto(Worker, "end") /\ at' = [at EXCEPT ![Worker] = @ + 1]
    /\ UNCHANGED <<sequence, baseline, history, lifeVars, callVars,
                   produceVars, control, asleep>>

\* Mutant of WorkerEnds: the waiting consumers are not notified.
EndsSilently ==
    /\ pc[Worker] = "end" /\ at[Worker] = BufferCount
    /\ running' = FALSE
    /\ Goto(Worker, "done")
    /\ UNCHANGED <<frameVars, stopRequested, joinable, callVars, produceVars,
                   control, at, asleep, cleared>>

WorkerEnds ==
    /\ pc[Worker] = "end" /\ at[Worker] = BufferCount
    /\ running' = FALSE /\ asleep' = {}
    /\ Goto(Worker, "done")
    /\ UNCHANGED <<frameVars, stopRequested, joinable, callVars, produceVars,
                   control, at, cleared>>

-----------------------------------------------------------------------------
WorkerStep ==
    \/ WorkerBegins \/ WorkerGoesOn \/ WorkerStops \/ WorkerLocks
    \/ WorkerPublishes \/ WorkerLooks \/ WorkerClears \/ WorkerEnds
    \/ Produces(Worker) \/ GiveUp(Worker, "loop") \/ Throws(Worker, "end")

Enter(t) ==
    \/ EnterCapture(t) \/ EnterStart(t) \/ EnterStop(t)
    \/ EnterAcquire(t)
    \/ Release(t)

\* A call that was entered goes on.
Continue(t) ==
    \/ t \in Threads /\ (Produces(t) \/ GiveUp(t, "idle") \/ Throws(t, "idle"))
    \/ LeaveCapture(t)
    \/ DiscardReady(t) \/ Launch(t) \/ LaunchFailed(t) \/ Join(t)
    \/ TakeNewest(t) \/ Sleep(t) \/ NotRunning(t)
    \/ DiscardOlder(t) \/ LeaveAcquire(t)

Next ==
    \/ WorkerStep
    \/ \E t \in Threads : Enter(t) \/ Continue(t) \/ TimedOut(t)

Spec == Init /\ [][Next]_vars

\* Threads run; a call without a timeout may sleep for ever.
FairSpec ==
    Spec /\ WF_vars(WorkerStep) /\ \A t \in Threads : WF_vars(Continue(t))

-----------------------------------------------------------------------------
(* Properties.                                                             *)

\* No thread captures by itself while another may start the worker: start()
\* does not take producer_mutex_.
OneController ==
    \A s, t \in Threads :
        "capture" \in Calls[s] /\ "start" \in Calls[t] => s = t

(* A frame a caller holds is its own until it is released: its slot is     *)
(* neither given away nor written, whatever the worker and other callers   *)
(* do (acquire_write_slot, acquire_latest, release, worker_main).  It      *)
(* needs OneController.                                                    *)
LeaseIntact ==
    \A t \in Threads : lease[t] # NoFrame =>
        /\ Leased(lease[t])
        /\ slot[lease[t].slot].image = lease[t].image

(* A consumer that has the frame a frame's dirty regions are relative to   *)
(* can rebuild it: what is not dirty has not changed, also after captures  *)
(* that failed and frames that were overwritten (capture_into).            *)
DirtyComplete ==
    \A i \in Slots : slot[i].state \in {"ready", "reading"} =>
        slot[i].dirty \/ (slot[i].base # 0
                             /\ slot[i].image = history[slot[i].base])

(* Nobody waits for a frame that is there, or of a session that has ended  *)
(* (event_mutex_ and event_cv_).                                           *)
NoMissedWakeup == asleep # {} => running /\ Ready = {}

(* stop() ends: the worker can always be joined.                           *)
StopEnds == (\E t \in Threads : pc[t] = "join")
                ~> (\A t \in Threads : pc[t] # "join")
=============================================================================
