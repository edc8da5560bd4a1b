# A TLA+ model of fluxcap

fluxcap is a Windows screen-capture library: frames come from Windows Graphics
Capture, Desktop Duplication or GDI, stay on the GPU, are shared with other
processes through a frame bus, and are encoded by a hardware encoder; a recovery
layer rebuilds the GPU graph when a device is lost. A separate CPU session gives
frames to C callers. The models here are translated from the source under
`src/`; `PROJECT.json` maps each definition to the lines it stands for.

## 1. Inventory

| Component | State | Operations | Interacts with | Hard behaviour |
|---|---|---|---|---|
| Shared frame bus (`gpu/shared_frame_bus.cpp`) | a control page shared by processes: per slot an ownership word (writer bit, quarantine bit, reader bits), sequence and metadata; per consumer a token and an access word; private records of publisher and consumers; one done fence per consumer; a ring of cursor shapes and one of move results | publish / begin_publish / commit / cancel, register, unregister, destroy; open, acquire_latest, release, close; publish and read a shape or result | captures (producer), pipeline and other processes (consumers), the GPU queues | lock-free across processes, processes that die anywhere, GPU work that outlives them, reused indices, removed devices, readers overtaken by the writer |
| Epoch supervisor (`gpu/pipeline_epoch_supervisor.cpp`) | state, ticket (epoch, nonce), participants, registration counter, first-frame flag | register, unregister, report_device_lost, acknowledge_*, retire, begin_build, abandon_build, mark_ready, resume, frame_contract, acknowledge_frame_published | recovery control thread, participants in other processes | delayed, repeated, obsolete messages; participants that disappear |
| Asynchronous pipeline (`gpu/async_gpu_pipeline.cpp`) | ring of slots with atomic control words, ready depth, flags, last error, statistics | create, submit_frame, submit_texture, drain, close; worker loop | capture, bus, transform, encoder | atomics across three threads, condition variable, failures on both sides |
| Recoverable pipeline (`gpu/recoverable_gpu_pipeline.cpp`) | current graph, stop flag, fault, retry counters | start, stop, control thread: build, activate, detect, recover | all of the above | stop during build, retry limits, reading another thread's two flags |
| WGC capture (`gpu/wgc_capture.cpp`) | a private texture ring with leases, or a lease of a bus slot; mailbox configuration and generation; pending damage | start, stop, frame arrival, acquire_latest, set_mailbox_config, closed event, resize | WinRT callbacks, bus, move inference | callbacks against leases and reconfiguration, damage of frames that were never published |
| Move inference (`gpu/gpu_move_inference.cpp`) | two hash textures that swap, a provisional submission, a queue of read-backs | submit, commit, cancel, poll, reset | WGC capture, its worker | results that arrive after a cancellation |
| Desktop Duplication (`gpu/desktop_duplication_capture.cpp`, `..._controller.cpp`) | the duplication session, the last texture and its metadata, pending damage, rebuild counters | worker loop: acquire, build damage and cursor, claim, commit, heartbeat, rebuild; start, stop | DXGI, bus, session monitor | frames given back without being published, lost sessions, events between frames |
| GDI (`gpu/gdi_capture.cpp`) | last cursor and its shape | worker: blit, claim, commit, publish shape | GDI, bus | shape published after the frame that names it |
| Session monitor (`gpu/session_event_monitor.cpp`) | a generation counter, a window thread | start, report, stop | the captures' workers | events at any time, a thread that may not start |
| CPU session (`fluxcap.cpp`) | slots with one atomic control word, running flag, worker, dirty tracker | start, stop, capture, acquire_latest, release | GDI, dirty tracker, C API | leases against overwriting, several mutexes, exceptions |
| Dirty tracker, side-data geometry (`dirty_tracker.cpp`, `gpu/side_data_geometry.hpp`) | hashes of the previous frame | configure, analyze; map rectangles, moves, cursors | captures | rounding, chroma phase, fixed capacities |
| Encoder, transform, crop, image encoder, shared texture, bitstream metadata, Win32 cursor shape | little beside GPU and Media Foundation objects | per-frame calls | | pixel and byte work |

What makes each component correct: a texture is never rewritten while some GPU
may still read it, and nothing is leaked for ever (bus); an epoch is closed only
when nobody uses it and opened only when everybody is ready (supervisor); a
frame is read by one thread and written by one thread, newest first, and every
accepted frame is accounted for (pipeline); one graph lives at a time, a stop
ends it wherever the control thread is, and a fault leads to a sound graph or to
a reported failure (recovery); a consumer that has the base of a frame and its
damage has the frame, whatever was dropped, skipped, rebuilt or reconfigured in
between (all captures); a leased frame is left alone (WGC, CPU); what a frame
promises beside its pixels, a cursor shape or a move result, is delivered and is
the right one (bus captures); a stop ends.

The hazards, at their lines, are in `PROJECT.json`.

## 2. Modules

| Module | Content |
|---|---|
| `SharedFrameBus` | the bus: publisher, consumers, their GPU queues |
| `SharedFrameBusProofs` | type correctness and gate safety; no overwrite, metadata, leases, the implementation of `FrameExchange` |
| `FrameExchange` | what the bus promises: frames shown in slots, newer and newer acquisitions, leases and reads; `SharedFrameBus` implements it |
| `PipelineEpochSupervisor`, `...Proofs` | the recovery protocol |
| `AsyncGpuPipeline`, `...Proofs` | the slot ring, worker and life cycle |
| `RecoverableGpuPipeline`, `...Proofs` | start, stop and the recovery control thread, composed with `PipelineEpochSupervisor` |
| `WgcDamage` | mailbox regions and the accumulation of damage, as operators |
| `WgcCapture` | WGC capture with its private ring; extends `WgcDamage` |
| `GpuMoveInference` | the move engine, as operators on a record |
| `BusCursorShapes` | the bus's cursor-shape ring, writer and reader |
| `WgcBusCapture` | the bus-only WGC capture and its move-result worker; extends `WgcCapture`, `GpuMoveInference`, `BusCursorShapes` |
| `WgcCaptureProofs` | WGC in both modes: leases, damage, shapes, move results |
| `SessionEventMonitor` | the generation counter and its window thread |
| `MonitorCapture` | what the three monitor captures share: life cycle, frames, damage, cursor, the desktop; extends `SessionEventMonitor` |
| `DesktopDuplicationCapture`, `DesktopDuplicationController`, `GdiCapture` | the three workers; each extends `MonitorCapture` |
| `MonitorBackends`, `...Proofs` | the three monitor captures side by side, and their properties |
| `CaptureSession`, `...Proofs` | the CPU session; its leases, damage and wake-ups |
| `SideDataGeometry` | mapping of rectangles, moves, cursors and the transform's sampling taps, as operators |
| `DisplayRotation` | rectangles of rotated outputs |
| `DuplicationDamage` | a frame's damage from DXGI's or WinRT's rectangles |
| `DirtyTracker` | dirty tiles of CPU frames |
| `DamageReplay`, `...Proofs` | a consumer that replays the damage of the three; that it has the image of every frame |
| `MC...` | instances for TLC of `SharedFrameBus`, `PipelineEpochSupervisor`, `AsyncGpuPipeline`, `RecoverableGpuPipeline`, `WgcBusCapture` (`MCWgcCapture`), `MonitorBackends`, `CaptureSession` and `DamageReplay` |

An operator with the comment "Mutant of ..." is a plausible mistake; it is not
used in the specification. `PROJECT.json` names the property that exposes it.

### 2.1 SharedFrameBus

*State.* The control page (`sequence`, `slotSeq`, `stamp`, `payload`, `writing`,
`quarantine`, `readers`, `access`, `shuttingDown`), the publisher's memory
(`record`, `poisoned`, `nextToken`, `writerSlot`), one record of variables per
consumer handle, and the GPU: `signals` queued, `completed` fence value, and
`reads`, the texture reads that may still execute. `reads` is a ghost of what
the fence stands for. The ownership word is split into three variables; every
action updates the parts the code's interlocked operation updates.

*Grain.* Processes share no lock, so an action is one interlocked operation.
Loads and stores are merged only where no other process can tell: the sweep over
slots (`SweepSlots`) uses the publisher's private sample and clears bits one
consumer owns; the scan's two loads of a slot; the stores of a commit, which the
writer bit hides until `CommitClear`; entering the gate and leaving it at once.
`publish` keeps the mutex from claim to commit, `begin_publish` does not; the
model takes the weaker. Whole operations: claim = `BeginPublish`, `SweepProbe`,
`SweepSlots`, `SweepFinalize`, `ClaimScan`, `ClaimSlot` or `ClaimRetry`;
acquire = `AcquireCall`, `EnterAccess`, `ScanSlot`, `SetReaderBit`,
`CheckStable`, `TakeFrame` (or `UndoReaderBit`, `WaitFails`), `LeaveAccess`;
release = `ReleaseFrame`, or `ReleaseFails` followed by `QuarantineTest/Or/And`.

*Abstractions.* A handle is named by its token, which the code never reuses.
`acquisition_order` is implied, because the sequences a handle acquires only
grow. Frame contents are the sequence number of the frame that was described.
The destructor of a consumer cannot run while a frame lease refers to it, so its
branch for active acquisitions is not reachable. Two handles opened from one
registration and corruption of the page from outside are out of scope, and so is
a `WAIT_FAILED` on the process handle, which returns an error and changes
nothing. The producer reservation is seen from the captures only. The
cursor-shape ring is `BusCursorShapes`; it shares no state with the slots. The
ring of move results has the same protocol with 16 entries, and is not modelled
again.

*Bounds.* `MaxSequence` and `MaxGeneration` stand for the code's own exhaustion
checks. Faults are switched on per run so that each run spends its states on its
question.

### 2.2 PipelineEpochSupervisor

Each member function holds the mutex throughout and is one action. The callers
are other threads and processes: `tickets`, `issued` and `sent` remember
everything ever handed out or acknowledged, and any of it may be used at any
later time, again and again. `working` and `failed` record what is really so
(who holds GPU objects, which graph failed), against which the supervisor's
decisions are judged. A rejected call only increments a diagnostic counter and
is a stuttering step. An acknowledgement sent before the loss is reported is
answered `invalid_state`; its sender has to repeat it.

The run does not check deadlock: at `MaxEpoch`, the code's `epoch_exhausted`, the
supervisor stays retired. No symmetry is used, since the run also checks
liveness.

### 2.3 AsyncGpuPipeline

Three threads: the holder of `submit_mutex_`, the worker, the holder of
`lifecycle_mutex_`. A slot's atomic control word is a record of generation and
state. Because only the holder of `submit_mutex_` takes a slot out of `free`,
the compare-exchange on a free slot cannot fail. The condition variable is
explicit: `evaluate` (predicate, under `work_mutex_`), `block` (still holding
it), `wait`; `Notify` wakes a waiter and nobody else. Spurious wake-ups only
add behaviours in which the worker makes progress, so none is assumed. The
packet callback must not call back into the pipeline (`gpu.hpp` says so).
Statistics that no document relates to each other are left out.

A pipeline whose `sourceMode` is the bus has a worker that polls it instead; the
bus gives a newer frame, nothing, or an error. Its worker counts skipped
sequences as overwritten without having accepted them, so `FramesAccounted` is
stated for submissions.

### 2.4 RecoverableGpuPipeline

*State.* What the threads share (`lifecycle`, `stopRequested`, `state`,
`lastError`, `startComplete`, `startResult`, `thread`, `graph`,
`planarDisabled`), one program counter each for the thread in `start()`, the
threads in `stop()`, the encoder worker inside the packet callback and the
control thread (`ctl`), the control thread's locals, and the supervisor's
variables.

*Composition.* The supervisor is an INSTANCE of `PipelineEpochSupervisor` over
this module's variables, with no participants, as the code registers none; the
control thread's calls are its actions. The code's branches for a call the
supervisor refuses are left out, and `SupervisorAgrees` shows that none is ever
taken: the control thread always holds the current ticket and the supervisor is
in the state the next call needs. The pipeline and capture of a graph appear as
what `detect_fault` can read of them: the faults that befell the graph, and
whether the pipeline's worker accepts, rejects, or has published its error
(`finish_worker`, whose two stores are two steps).

*Grain.* A step of the control thread ends at each read of `stop_requested_`, at
the start and at the end of a tear-down (which waits for the worker, and so for
the packet callback), and between the reads of `detect_fault`. `start()` sets
`stop_requested_` to false in one step and makes the thread in the next; `stop()`
sets the flag before it asks for the mutex.

*Abstractions.* A build fails with one of four kinds of error, chosen so that
`retryable_initial_build_error`, `automatic_planar_fallback_error` and
`infrastructure_failure_hresult` tell them apart. Exceptions are one action,
`Throw`. Not modelled: validation of the configuration, the choice of the capture
back end inside a build, the length of the backoff, destruction of the owner
while a call runs (a precondition), and a bus worker that fails before
`initialize_common` sets `accepting_` (section 5).

### 2.5 Windows Graphics Capture: WgcDamage, WgcCapture, GpuMoveInference, BusCursorShapes, WgcBusCapture

*State.* The life cycle (`started`, `stopped`, `running`, `closed`), the ring
(`control`, the atomic word of each slot; its mailbox generation; its contents),
the mailbox under `event_mutex`, the frame callback (`writer`, `pending`,
`poolSize`), and per consumer the place in `acquire_latest` and its leases. The
bus mode adds the producer reservation, the move engine, the worker that reads
results back, and what is on the bus (`committed`, `awaited`, `moveResult`, the
ring of shapes). `changed` and `published` are ghosts: what has really changed
since the last frame, and that frame.

*Grain.* `callback_mutex` is implicit: one `writer` at a time, the callback or
the move worker. In the ring mode the callback and the consumers meet only in
the control words, so each access to one is an action, except that a scan over
all slots is one step where the others can only take slots out of the state it
looks for. `event_mutex` is explicit, since it is released between the steps of
`set_mailbox_config`. The shape ring is modelled word by word for the writer
(odd header, data, even header) and for one reader, whom the writer may overtake
any number of times.

*Abstractions.* Rows and columns are independent and alike in this code, so a
frame is one row of columns. A move engine's hash of a frame is the frame's
sequence, so a result says which two frames were really compared. A claim of a
bus slot succeeds or fails; what happens in the bus is `SharedFrameBus`. GPU
read-backs complete in any order the engine's queue allows and at any time. A
drain that fails either keeps the read-back or, when memory runs out while its
result is made or the bus refuses it, loses the result; `awaited` are the frames
whose result is still to come. `running` may be cleared by any failure: the code
does so for a lost device only.

### 2.6 Monitors: SessionEventMonitor, MonitorCapture, DesktopDuplicationCapture, DesktopDuplicationController, GdiCapture, MonitorBackends

*State.* `MonitorCapture` has what the three back ends share: life cycle, stop
token, the program counter of the worker, the observed session generation,
`forceFull`, the cursor last seen and the shape last announced; the desktop and
the pointer, which change at any time; and the last two frames on the bus. Each
back end adds its own: the frame acquired from DXGI, the heartbeat texture and
the access-loss counters; the texture of the whole desktop with its accumulated
damage; the image of one blit.

*Grain.* The worker shares little with other threads: the stop token, the
session generation, the bus and the desktop. A step ends at each access to one
of these, and where a system call may fail: acquiring, building the damage,
claiming a bus slot, the commit (from which the frame is visible), the
publication of its shape, the heartbeat, the loss of a session and each step of
its rebuilding. A behaviour is one back end with one set of options
(`Configurations`), chosen at the start.

*Environment.* DXGI reports, with a frame, everything that changed since the
last one acquired, moved or dirty; the first frame of a session reports the
whole output. `DuplicateOutput` may be refused for ever: then the worker keeps
trying until it is told to stop, which ends it with an error; a stop during the
delay before a rebuild ends it, or the controller's iteration, without one.
`GetCursorInfo` and the extraction of a shape may fail. A frame's damage is built
from true reports in all ways they can be written; whether the mapping of
rectangles is right is the subject of 2.8, and a `scaled` frame stands for those
whose damage cannot be mapped.

*Left out.* Lengths of waits (a wait ends at any time), the pixel formats, the
composition of rotated outputs, statistics.

### 2.7 CaptureSession

*State.* Per slot the control word (state, generation), the image and the dirty
information; the mutexes as their holder; `pc`, `at` (the index of a loop) and
`write` (the locals of `acquire_write_slot`) for the worker and each thread; the
threads asleep in `event_cv_`; the frame each thread holds.

*Grain.* One access to shared state is one action. A scan for a free slot goes
slot by slot; the choice of the oldest slot and the compare-exchange that takes
it are two actions; `acquire_latest` chooses and takes the newest slot in one,
because no slot becomes ready while it holds `event_mutex_` and a failed
exchange repeats the scan. The load and the store with which `worker_main` frees
slots at its end are two actions (section 5).

*Threads.* `Calls` says which calls a thread makes. A session whose threads
capture and start it independently breaks its leases (section 5), so the run and
the theorem are about sessions with `OneController`: whoever captures is the
only one who starts.

*Abstractions.* An image is one value; dirty regions are whether the frame
differs from its base. BitBlt, the pointer and the analysis either succeed or
fail; memory may run out while an error is described, which is an exception.

### 2.8 Geometry: SideDataGeometry, DisplayRotation, DuplicationDamage, DirtyTracker, DamageReplay

Pure operators, one per function of the code, and one small state machine. In
`DamageReplay` a screen changes as DXGI, WinRT or a CPU capture reports it, the
transform draws the output (`Render`: which source pixels an output pixel, or a
chroma sample, is made of), and a consumer keeps a copy up to date from the
damage alone: moves from its copy of the base frame, dirty rectangles from the
new frame. The reference definition is thus not another formula for the
rectangles but the image: `copy = Render(config, screen)`. The three loops over
a report's rectangles, the binary search of a tap and the scan of the tiles are
recursive functions, so that they can be proved about.

*Assumptions.* All moves of one duplicated frame read the image before it, as
`build_damage` uses them. Tile hashes do not collide. The video processor at
scale 1 copies; when it scales, the driver chooses how, and the code reports
full damage. Extents are far below 2^31. What captures and reports may be is
stated by `CapturesAssumption` and `ReportsAssumption`, which the instance of the
run satisfies: regions lie in the desktop, DXGI's rectangles in the surface and
its moves keep their size, WGC's rectangles may lie anywhere.

## 3. Runs

| Run | Instance | Distinct states | Shows |
|---|---|---|---|
| `bus_lifecycle` | 2 slots, 1 index, 2 registrations, 3 frames, process exits, device and registration faults | 1.9 M | no overwrite under a reader, a frame is described by its own metadata, the gate pins the index, the bus implements `FrameExchange` |
| `bus_readers` | 2 slots, 2 consumers, 2 frames, fence faults | 4.4 M | two readers on one slot, leases released out of order, lost signals and fences: done values never cover a held frame |
| `bus_progress` | 2 slots, 1 index, 2 registrations, 1 frame, process exits, fairness | 46 k | acquire ends, bits drain, indices come back |
| `bus_index_reuse` | 2 slots, 1 index, 2 registrations, 3 frames, fence faults | violation | section 5 |
| `epoch` | 2 participants, 2 epochs, 2 registrations, frame contracts, fairness | 129 k | quiet retirement, ready resumption, forced first frame, obsolete messages are inert, quiescing ends |
| `pipeline_ring` | 3 slots, 5 frames, both source modes, all faults, fairness | 400 k | ownership, order, counters; drain and close end |
| `recovery_control` | 1 stopping thread and a stopping callback, 1 retry, 1 fault of a running graph, automatic and forced planar bus, all build failures and exceptions, fairness | 294 k | the supervisor never refuses, one graph alive, the retry budget holds, a stop ends the control thread, faults are handled |
| `wgc` | 2 slots, 2 consumers, sizes 0 to 2, 2 mailbox configurations, 2 buses or none, 2 frames (3 with a shape each), 2 generations, 2 read-backs, 3 shapes | 2.8 M | leases intact, ready frames are of the current mailbox, damage complete, move results right and pursued, no torn shape |
| `monitor` | a desktop of 3 columns, frames of 2, 10 sets of options, 3 frames, 1 session event, 1 access loss, 1 topology rebuild, fairness | 2.1 M | damage complete, session events answered, shapes announced, stop ends |
| `monitor_rebuild` | the same | violation | section 5 |
| `cpu` | 2 slots, a thread that controls and captures, a thread that acquires, 2 images, 3 frames, fairness | 601 k | leases intact, dirty regions complete, no missed wake-up, stop ends |
| `geometry` | 12 captures of surfaces up to 8x4, every move and dirty rectangle of them, one frame after the first | 130 k | damage replays to the image, the bus accepts it, the scaled cursor covers the right pixels |

*Why the bounds are enough.* Two slots are the minimum the code accepts and make
every conflict over a slot happen, and two leases of one consumer released in
the wrong order. Two registrations of one index are what reuse needs. Three
frames on two bus slots overwrite a slot; five on three ring slots fill the
ring, evict and start over. The supervisor's second epoch meets every message of
the first; that an old nonce returns takes three epochs, is not in the run, and
is covered by the proofs. One retry lets a build fail, be retried and exhaust
the budget, both for the first graph and after a fault; `MaxEpoch` lies above
every epoch these bounds can reach. With one fault per run the order in which
`detect_fault` prefers simultaneous faults is not exercised. In `wgc`, sizes 0
to 2 with a box at column 1 let the box lie inside, leave and re-enter the
source; two read-backs with two frames let one be cancelled while the other is
read; three shapes go once and a half round a ring of two. In `monitor`, a frame
narrower than the desktop lets a move come from outside the region, and three
frames let one be published between an event, a loss or a dropped frame and the
next. In `cpu`, three frames on two slots evict. In `geometry`, damage is a
matter of one frame and its base, and the surfaces are large enough for a move
with strips on both sides, in both phases of a chroma sample.

Runs say `CHECK_DEADLOCK FALSE` because every one of these systems may stop: the
bounds are reached, the bus is destroyed, the pipeline or the capture is closed.

*Fairness.* Threads inside a call and the GPU run (weak fairness of their
steps). For the bus, `ApplicationFairness` says that applications keep
publishing, finish write leases, release frames and use finite acquire timeouts,
with strong fairness where an application's own calls alternate. It is the
hypothesis of `ReaderBitsDrain` and `IndexReclaimed`; `AcquireStops` holds by
scheduling alone. For the supervisor, participants stop once told, repeat their
message until it is accepted, and dead ones are unregistered by whoever watches
them, which is how the tests and the header use it. For the pipeline, transform
and encoder calls return; nobody is obliged to submit, drain or close. For the
recovery, the threads run, the packet callback returns, a failing worker reaches
its end, and a thread waiting for `lifecycle_mutex_` is not starved (strong
fairness). Nobody must call `start` or `stop`, and a source may stay without a
size for ever, during which `build_epoch` polls without retry debt: that it gets
one is the hypothesis of `FaultHandled` alone. `MaxSequence` also bounds what the
bus publishes: a draining bus worker ends only at a poll that finds nothing, so
with a publisher that is always faster than the encoder `drain()` would not
finish. For the monitors, the worker runs and `stop()` runs on, but a new
duplication session may never be granted. For the CPU session, the worker and
calls that were entered run on; nobody must make a call, and a call without a
timeout may sleep for ever. `wgc` states no liveness; `MoveResultPursued` is the
invariant from which the delivery of results would follow.

## 4. Proofs

All theorems hold for every value of the constants allowed by the assumptions
in the modules (at least two bus or ring slots, at least one consumer, any
bounds, any faults, any set of nonces, any width of frame). A bound such as
`MaxSequence` is a constant like the others, so a theorem covers behaviours of
every length. Each invariant was checked by TLC on the instance of its run
before it was proved.

* `SharedFrameBusProofs.TypeCorrect`, `GateSafe`. `GateProtectsIndex` is not
  inductive: the step that could break it is reclamation, whose test reads the
  gate count. `GateInv` therefore adds that tokens are handed out once, that the
  record, the page's token and the tag of a live registration agree, and that
  the count is 1 exactly while the handle is inside the gate; a dead process may
  leave it at 1. `TypeOK` itself needs the gate invariant (a count of 0 must not
  be decremented), so both are proved together, action by action.
* `SharedFrameBusProofs`, on frames: `FramesKept`, `ReadersHeld`, `MetadataAgrees`,
  `LeasesKept`, `FencesSuffice`, `FramesSafeWithFences`. The invariant follows a
  read from its beginning to its end. From `SetReaderBit` to `TakeFrame` the bit,
  or a quarantine in its place, is there if the slot still holds the selected
  frame (`BitHeld`); a texture that is read holds the acquired frame,
  beyond the fence's value, under the reader's own bit or a quarantine
  (`ReadsCovered`); a held frame is read and no queued signal covers it
  (`LeasesRead`); signals only grow (`SignalsOrdered`); a scan only selects
  frames newer than every one acquired before (`ScanSound`), which is why the
  fence value a sweep sampled earlier cannot clear the bit of a frame just taken
  (`ProvenFinished`). The publisher's side says that the writer bit excludes
  readers (`SlotSound`, `WriterSound`) and that a dead consumer's slots are in
  quarantine before its index is free (`SweepKnows`). In
  `quarantine_all_readers_locked` the quarantine bit is set before the reader bit
  is cleared (`Quarantined`). Every fault is allowed, fence faults included, under
  one hypothesis, `[]QuarantineOwn`: no index is given to another consumer while
  its old holder is inside that quarantine. It is used in one step, the And that
  clears the bit, and `bus_index_reuse` (section 5) is a counterexample without
  it. `FencesSuffice` shows that it holds while the fences work, so
  `FramesSafeWithFences` has no condition on the behaviour; in `bus_readers`,
  whose consumers are registered once, it holds with fence faults too.
* `SharedFrameBusProofs.BusExchanges`: `SharedFrameBus` implements
  `FrameExchange` (property `Exchanges`), under the same hypothesis. A slot shows
  its frame unless its writer bit is set (`Shown`); the newest frame shown is
  `sequence`, less one while a number is stored and its writer bit not yet
  cleared (`ShownSequence`); a consumer's leases are those it has acquired and
  not released (`Leases`); `last` is `observed`, and `reads` is itself. A claim is
  `Empty`, and nobody reads the slot because it has neither reader bits nor
  quarantine (`ReadsCovered`); clearing the writer bit is `Publish`, which needs that the number
  stored in the slot is the newest (`StoreSound`); taking a frame is `Acquire`,
  which needs that only acquired slots await their release (`ReleasedHeld`); the
  GPU executing a signal is `Finish`, which needs that the signal covers no held
  frame (`LeasesRead`); the end of a quarantine is `Revoke`. Releases
  and exits map to theirs, all other steps stutter. `FramesSafeWithFences` includes this result.
* `PipelineEpochSupervisorProofs`: `RetiresQuietly`, `ResumesReady`,
  `ForcesFirstFrame`, `RecoversOnlyOwn`. `EpochInv` says that everything issued
  or sent belongs to the current or an earlier epoch and to an already used
  registration nonce; that whoever works for the current epoch is registered; and
  that a participant marked quiesced (while quiescing) or ready (while building)
  has itself stopped or sent its message. Epochs, not nonces, separate the past
  from the present: nonces may repeat.
* `RecoverableGpuPipelineProofs`: `NeverRefused`, `OneGraph`, `BudgetHolds`,
  `BoundUnreached`. `RecoveryInv` ties each place of the control thread to the
  state and ticket of the supervisor there, to the graph that is installed and
  the candidate being built or torn down, and to what the threads in `start()`,
  `stop()` and the packet callback may be doing. `BudgetKept` counts, at each place
  of a recovery, the epochs against `MaxRetry + 1` for the first graph and for
  each fault so far, and the failed builds that are still to be charged. Hence
  the bound `MaxEpoch` of the model, if it is that large, never stops a rebuild.
* `AsyncGpuPipelineProofs`: `ReadsOwn`, `SingleWriter`, `InOrder`,
  `AllAccounted`, `DepthInRange`. `RingInv` ties
  each program counter to the slot state its thread owns, says that a ready slot
  holds the frame of its generation, that a slot is ready with a generation only
  once, and that after a take every ready frame not yet purged over is newer
  than anything processed; and that close finds both other threads at rest.
  `AccountInv` counts: `ready_depth_` is the number of slots made ready and not
  yet taken out, as seen through the steps in between (`DepthSlots`), and what was
  accepted is what was processed, overwritten or failed, and the slots still
  pending (`PendingSlots`).
* `CaptureSessionProofs.LeasesIntact`: `OneController` implies `LeaseIntact`, for
  any number of threads. The invariant says that the holder of a place inside a
  capture holds `producer_mutex_` and its slot is marked `writing`
  (`ProducerInv`); that a thread captures only while there is no worker, and is
  inside `start()` only before there is one (`WorkerInv`, the one part that needs
  `OneController`, when the worker is born); that the slot the worker is about to
  free is still being written (`ClearInv`); and that no two leases share a slot.
  A steal cannot hit a lease because its compare-exchange sees the state change,
  whatever the generation.
* `CaptureSessionProofs.DirtyRegionsComplete`, `NoWakeupMissed`, for all callers,
  without `OneController`. `ConsumerInv` says that the tracker's baseline is the
  image of the last frame numbered, or none (`HistoryInv`), and that a ready or
  leased slot, and one about to become ready, is wholly dirty or shows the image
  of its base. Without `OneController` a slot may be freed under its producer, so
  the invariant says of a producer's slot only that no consumer can take it
  (`ProducerOwns`). It needs that the mark for "no image" is no image
  (`NoImage \notin Images`). `NoMissedWakeup` is inductive with the types.
* `WgcCaptureProofs`, on the composition of WGC with its bus, move engine and
  shape ring (`WgcBusCapture`); in the ring mode the rest stands still.
  `LeasesHeld`, `ReadyFramesCurrent`: `RingInv` says which slot the callback and
  each consumer are at, that no two leases share a slot, and that a ready slot
  shows the present region in the present generation: a callback or a consumer
  under way finds out by the compare-exchange. `DamageTellsAll`: `DamageInv` says
  that what really changed since the last published frame is in `pending`, unless
  it is full, and relates the two at each place of the callback; a commit to the
  bus is published before `pending` is reset (`PendingKnows`). `ShapesWhole`: `ShapesInv`
  gives the words of each slot of the ring during a store, and what a reader that
  has read some of them may hold; headers only grow. `MovesAreOfFrames`:
  `MovesInv` says which frame each hash texture, queued submission and read-back
  stands for, and that a cancelled one leaves the baseline alone.
  `ResultsPursued`: `PursuitInv` says that an awaited result is queued or in the
  worker's hands and that the worker's condition is re-evaluated (`Queued`,
  `Awake`), while the capture runs.
* `MonitorBackendsProofs`: `ShapesAnnounced`, `EventsRefresh`, `DamageTold`.
  What the worker remembers as the published shape is the published one
  (`ShapesInv`); a full frame is owed only while one will be forced
  (`RefreshInv`). `DamageInv` has a part for each way of capturing: with one
  output, unless a full frame will be forced, the frame on the bus shows the
  region as the session last delivered it (`OutputShown`), and a frame that is
  held differs from it only where its metadata says (`Delivered`); with every
  output, the composition differs from the frame on the bus only in the outputs
  marked dirty (`Collected`), and not at all between iterations, unless a rebuild
  was cancelled, after which nothing is published.

* `DamageReplayProofs`: `FramesReplayed`, `DamageIsAccepted`, `CursorIsFollowed`,
  for every surface, region, output, rotation, tile size, limit on rectangles and
  sequence of frames. `ReplayInv` says that the consumer's copy is what the
  screen renders to, that the CPU tracker has the hashes of the last frame, that
  the damage is one the bus takes, and, while a move may still be inferred, that
  it made the screen what it is from an image the consumer had (`MovedInv`).
  Beneath it, everything is a statement about one output pixel and the pixel of
  the surface it shows (`ShownSurface`). A dirty rectangle maps to all the pixels
  that show a pixel of it: by `FirstTapAtLeast`, whose binary search finds the
  first tap past an edge (`SearchFinds`), or by rounding outwards to blocks. What
  `MoveAxis` finds moves whole runs of taps (`MoveAxisMoves`), and the strips
  around the interior of a move cover the rest of it (`StripsCover`).
  `BuildDamageAccounts`: after any number of moves and dirty rectangles the
  damage is whole, or every pixel it does not name dirty shows, after its moves,
  what the surface's moves bring there; the last move into a pixel counts on
  both sides (`MovesFollow`). `AnalyzeCovers`: the rectangles of a CPU frame cover
  every pixel that changed; the rectangle of a run of the row above ends where
  the row begins (`RowRuns`), which is why extending it covers the same run
  again. Chroma follows luma, because every rectangle and displacement is of
  whole blocks (`BlockCovered`, `BlockBrought`).

Every invariant that a passing run checks is proved. The recursive functions of the
geometry are proved about by induction in the form of a statement on sets of
naturals (`SetInduction`), which needs no operator parameter, after each function
has been shown to satisfy its own definition (`SearchExists`, `MovedUnfolds`,
`RowUnfolds` and their like).

Only model-checked: everything about fairness (`ReaderBitsDrain`,
`IndexReclaimed`, `AcquireStops`, the ends of `drain`, `close` and `stop`,
`FaultHandled`), which the prover cannot handle.

## 5. Where code and documents disagree, and other observations

Two runs end in a violation.

* `bus_index_reuse`: a consumer whose device is removed during `release` runs
  test, Or and And on the ownership word outside the gate. Interleaved with a
  sweep that reclaims its index, the And clears the reader bit of the next
  holder of the index (`shared_frame_bus.cpp:1998-2007`). It takes an
  unregistration by the publisher and a stall of the old consumer inside
  `release`. `GateProtectsIndex` is unaffected: the quarantine runs outside the
  gate. Without index reuse `bus_readers` shows the same code to be safe, and
  without fence faults `bus_lifecycle` does. On the way a quarantine set during
  a write is erased by commit.
* `monitor_rebuild`: `access_lost_retry_limit` is documented as a number of
  attempts to rebuild a lost session, zero meaning no limit. The worker makes
  one attempt; a failure ends it, a success resets the counter, so the limit is
  never reached (`desktop_duplication_capture.cpp:2832-2865`).

Seen while modelling, without a run of their own:

* `drain()` may drop the newest accepted frame: it is requested between the
  worker's reads of `ready_depth_` and `drain_requested_`
  (`async_gpu_pipeline.cpp:1143`). `FramesAccounted` shows that it is counted.
* The wake-up after a submission failure may be lost: the flag is stored and
  notified without the mutex of the wait (`async_gpu_pipeline.cpp:1033`). A later
  drain or close wakes the worker (`DrainFinishes`).
* The worker of a bus pipeline can fail before `initialize_common` stores
  `accepting_ = true`, which then stays (`async_gpu_pipeline.cpp:336`); closing
  an idle bus pipeline reports the timeout of its last poll in `last_error()`.
* A `stop()` from another thread during `start()` sets `stop_requested_` outside
  the mutex, before `start()` clears it, and then joins a control thread that
  was never told to stop (`recoverable_gpu_pipeline.cpp:726`). A stop that comes
  after the thread exists always ends it (`StopEndsControl`).
* A worker that fails stores `accepting_ = false` before its error, and
  `detect_fault` reads `accepting()` and then `last_error()`
  (`async_gpu_pipeline.cpp:1040`, `recoverable_gpu_pipeline.cpp:1532`). In between
  it reads `ok`, which is no infrastructure failure, and automatic mode gives up
  the planar bus although memory, not the bus, had failed.
* When memory runs out while a read-back's result is made, the read-back is
  already popped (`gpu_move_inference.cpp:1057-1071`) and the capture goes on
  (`wgc_capture.cpp:646-652`): the frame was committed with the promise of a move
  result that nobody will publish. `MoveResultPursued` exempts it.
* WGC's `on_closed` notifies without `event_mutex` (`wgc_capture.cpp:1098`), so an
  `acquire_latest` without a timeout may miss it and sleep on.
* A duplicated frame that is given back because no bus slot is free takes with
  it the pointer shape reported with it.
* The controller's full damage has the desktop's dimensions, so a scaled planar
  bus refuses it and no such capture publishes its first frame (`Refused`);
  after a topology rebuild its heartbeat may publish a texture without content,
  with full damage, before any output has delivered a frame.
* The flags word of the session monitor is read nowhere.
* CPU session: `capture()` checks `running_` under `producer_mutex_`, which
  `start()` does not take (`fluxcap.cpp:419`). If one thread captures while
  another starts and stops the session, the worker's closing loop
  (`fluxcap.cpp:1002-1009`, a load and a store) frees the slot the capture is
  writing or has just leased. `LeaseIntact` therefore needs `OneController`. A
  capture that throws leaves its slot `writing` until a worker next ends.

## 6. Not modelled, and the plan

The coverage of the implementation by the definitions is about a third; the
rest is Direct3D, Media Foundation and WinRT set-up, pixel and byte work,
statistics, validation of options, and the parts listed here.

1. `EncoderInputPool`: the encoder's surfaces and the one-shot completion of an
   external input, called by the sample callback and by shutdown.
2. The token hand-over of the producer reservation; the keyed mutex of
   `shared_texture.cpp`.
3. The captures composed with `FrameExchange` instead of with a claim that
   succeeds or fails.

Not planned, because there is no state or nothing interleaves: bitstream
metadata, crop and image encoder, cursor-shape extraction, failure
classification, the rebuild policy's delays, transform shaders, examples,
benchmarks and tools.

Out of reach: pixel and bitstream contents, Direct3D, Media Foundation and WinRT
themselves, timing. Liveness and `ENABLED` stay with TLC.
