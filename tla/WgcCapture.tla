----------------------------- MODULE WgcCapture -----------------------------
(***************************************************************************)
(* A Windows Graphics Capture with its private frame ring                  *)
(* (src/gpu/wgc_capture.cpp, bus_only = false).  The frame callback writes *)
(* ring slots under callback_mutex; consumers take the newest ready slot   *)
(* under event_mutex and lease it; the two meet only in the slots' atomic  *)
(* control words.  The mailbox may be reconfigured, the source resized,    *)
(* the target closed and the capture stopped at any time.                  *)
(*                                                                         *)
(* callback_mutex is implicit: set_mailbox_config and the end of stop run  *)
(* only between two frames.  A scan over the slots is one step, as other   *)
(* threads only take slots out of the state it looks for, except the scan  *)
(* for a free slot, which goes slot by slot.  Statistics and last_error    *)
(* are left out.                                                           *)
(***************************************************************************)
EXTENDS WgcDamage

CONSTANTS
    SlotCount,       \* options.buffer_count
    Consumers,       \* threads that call acquire_latest
    MailboxConfigs,  \* configurations the application uses
    Sizes,           \* sizes the source may have; 0 while it is minimised
    MaxSequence,     \* bound: published frames
    MaxGeneration    \* bound: mailbox generations

ASSUME CaptureAssumption ==
    /\ SlotCount \in Nat /\ SlotCount >= 2
    /\ MailboxConfigs \subseteq ValidMailboxConfigs
    /\ FullFrame \in MailboxConfigs
    /\ Sizes \subseteq 0..MaxSize
    /\ MaxSequence \in Nat /\ MaxGeneration \in Nat

Slots == 1..SlotCount

VARIABLES
    \* Life cycle and configuration.
    started, stopped, running, closed,
    bus,            \* bus_config, bus_only and the side-data options
    \* The ring.
    control,        \* Slot::control: state and generation, an atomic word
    slotMailbox,    \* Slot::mailbox_generation, an atomic
    frame,          \* Slot::texture, info and mailbox
    sequence,
    \* The mailbox, under event_mutex.
    mailbox,        \* configuration, generation, whether it has a region
    sourceSize,     \* mailbox_source_width
    eventMutex,     \* holder of event_mutex
    \* The frame callback.
    writer,         \* where on_frame is
    pending,        \* pending_damage_*
    poolSize,       \* pool_size
    \* The consumers.
    reader,         \* where each is in acquire_latest
    lease,          \* the leases each holds
    \* For the properties: the columns that have changed since the last
    \* frame published, and that frame.
    changed, published

lifeVars == <<started, stopped, running, closed, bus>>
ringVars == <<control, slotMailbox, frame, sequence>>
boxVars == <<mailbox, sourceSize>>
sourceVars == <<changed, pending, poolSize>>
vars == <<lifeVars, ringVars, boxVars, eventMutex, writer, reader, lease,
          sourceVars, published>>

-----------------------------------------------------------------------------
(* Values.                                                                 *)

Control(generation, state) == [generation |-> generation, state |-> state]

Idle == [at |-> "idle"]
NoFrame == [sequence |-> 0, region |-> NoRegion]
Nothing == [sequence |-> 0, region |-> NoRegion, complete |-> TRUE]

InSlot(state) == {s \in Slots : control[s].state = state}

\* Slots acquire_latest may return.
Current ==
    {s \in InSlot("ready") : slotMailbox[s] = mailbox.generation}

\* has_ready_frame
HasReadyFrame == Current # {}

NoBus == [only |-> FALSE, native |-> TRUE]

\* bus_output_matches: a direct bus has the region's size, a planar one that
\* carries the cursor a multiple of it (phase_invariant_cursor_geometry).
BusOutputMatches(width) ==
    bus.only => IF ~bus.planar THEN bus.width = width
                ELSE bus.cursor => bus.width % width = 0

\* mailbox_dimensions_match_bus
MailboxMatchesBus(config, size) ==
    LET width == IF config = FullFrame THEN size ELSE config.width
    IN  bus.only => width # 0 /\ BusOutputMatches(width)

\* resolve_output_region
OutputRegion(config, size) ==
    LET region == ResolveRegion(config, size)
    IN  IF region # NoRegion /\ BusOutputMatches(region.width) THEN region
        ELSE NoRegion

Newest(S) == CHOOSE s \in S :
                \A t \in S : control[t].generation <= control[s].generation
Oldest(S) == CHOOSE s \in S :
                \A t \in S : control[t].generation >= control[s].generation

\* event_cv.notify_all
Notify == [c \in Consumers |->
              IF reader[c].at = "wait" THEN [at |-> "lock"] ELSE reader[c]]

\* active_acquires # 0
ActiveAcquires == \E c \in Consumers : reader[c].at # "idle"

\* Mutant of DiscardReady: ready frames outlive a new configuration.
DiscardNothing(s) == control[s]

\* discard_ready_slots_locked, for one slot.
DiscardReady(s) ==
    IF control[s].state = "ready" THEN [control[s] EXCEPT !.state = "free"]
    ELSE control[s]

DiscardReadySlots == control' = [s \in Slots |-> DiscardReady(s)]

-----------------------------------------------------------------------------
(* start, stop, the Closed event and set_mailbox_config.                   *)

\* A start that throws leaves everything as it was.
Start ==
    /\ ~started /\ ~stopped
    /\ started' = TRUE /\ running' = TRUE
    /\ UNCHANGED <<stopped, closed, bus, ringVars, boxVars, eventMutex, writer,
                   reader, lease, sourceVars, published>>

StopBegin ==
    /\ ~stopped
    /\ stopped' = TRUE /\ running' = FALSE
    /\ UNCHANGED <<started, closed, bus, ringVars, boxVars, eventMutex, writer,
                   reader, lease, sourceVars, published>>

\* stop() closes the frame pool between two callbacks and notifies, without
\* event_mutex.
StopNotify ==
    /\ stopped /\ writer = Idle
    /\ reader' = Notify
    /\ UNCHANGED <<lifeVars, ringVars, boxVars, eventMutex, writer, lease,
                   sourceVars, published>>

OnClosed ==
    /\ started /\ ~closed
    /\ closed' = TRUE /\ running' = FALSE
    /\ reader' = Notify
    /\ UNCHANGED <<started, stopped, bus, ringVars, boxVars, eventMutex, writer,
                   lease, sourceVars, published>>

SetMailboxConfig(config) ==
    /\ writer = Idle /\ eventMutex = "none"
    /\ ~stopped /\ config # mailbox.config
    /\ MailboxMatchesBus(config, sourceSize)
    /\ mailbox.generation < MaxGeneration
    /\ mailbox' = [config |-> config,
                   generation |-> mailbox.generation + 1,
                   available |-> OutputRegion(config, sourceSize)
                                     # NoRegion]
    /\ DiscardReadySlots
    /\ pending' = [ForceFullDamage(pending, TRUE) EXCEPT !.base = sequence]
    /\ reader' = Notify
    /\ UNCHANGED <<lifeVars, slotMailbox, frame, sequence, sourceSize,
                   eventMutex, writer, lease, changed, poolSize, published>>

-----------------------------------------------------------------------------
(* The frame callback.                                                     *)

\* The frames waiting in the pool are drained: their damage is collected
\* and the newest is kept.  Without native damage any column may differ.
FrameDrained(dirty, native) ==
    /\ writer = Idle /\ running
    /\ native => bus.native
    /\ changed' = IF native THEN changed \cup dirty ELSE Columns
    /\ pending' = CollectFrameDamage(pending, dirty, native)

\* The surface cannot be unwrapped, has the wrong format, or something throws.
FrameFails ==
    /\ \/ FrameDrained(Columns, FALSE)
       \/ \E dirty \in SUBSET Columns : FrameDrained(dirty, TRUE)
    /\ UNCHANGED <<lifeVars, ringVars, boxVars, eventMutex, writer, reader,
                   lease, poolSize, published>>

\* The content is empty, has another size than the pool, or is larger than
\* the surface it came in: no frame is published.  A pool of another size is
\* recreated, which loses the frames in it together with their damage, unless
\* it fails or the capture has stopped.
FrameResized(size) ==
    /\ writer = Idle /\ running /\ eventMutex = "none"
    /\ changed' = Columns
    /\ pending' = ForceFullDamage(pending, TRUE)
    /\ sourceSize' = size
    /\ mailbox' = [mailbox EXCEPT !.available =
                       OutputRegion(mailbox.config, size) # NoRegion]
    /\ DiscardReadySlots
    /\ reader' = Notify
    /\ poolSize' \in IF size = 0 THEN {poolSize} ELSE {poolSize, size}
    /\ UNCHANGED <<lifeVars, slotMailbox, frame, sequence, eventMutex,
                   writer, lease, published>>

Region == OutputRegion(mailbox.config, poolSize)

\* The region does not fit the source.
FrameUnavailable ==
    /\ poolSize # 0 /\ Region = NoRegion /\ eventMutex = "none"
    /\ writer = Idle /\ running
    /\ changed' = Columns
    /\ pending' = ForceFullDamage(pending, TRUE)
    /\ sourceSize' = poolSize
    /\ mailbox' = [mailbox EXCEPT !.available = FALSE]
    /\ DiscardReadySlots
    /\ reader' = Notify
    /\ UNCHANGED <<lifeVars, slotMailbox, frame, sequence, eventMutex,
                   writer, lease, poolSize, published>>

\* A frame will be published; the rest of on_frame depends on the mode.
FrameAccepted(rest) ==
    /\ poolSize # 0 /\ Region # NoRegion /\ eventMutex = "none"
    /\ \/ FrameDrained(Columns, FALSE)
       \/ \E dirty \in SUBSET Columns : FrameDrained(dirty, TRUE)
    /\ sourceSize' = poolSize
    /\ mailbox' = [mailbox EXCEPT !.available = TRUE]
    /\ writer' = rest
    /\ UNCHANGED <<lifeVars, ringVars, eventMutex, reader, lease, poolSize,
                   published>>

Claim(s) ==
    /\ control' = [control EXCEPT ![s].state = "writing"]
    /\ writer' = [at |-> "copy", slot |-> s]

\* acquire_write_slot, first loop; it ends by reading active_acquires.
ScanFree ==
    /\ writer.at = "claim"
    /\ IF control[writer.slot].state = "free"
       THEN Claim(writer.slot)
       ELSE /\ writer' =
                 IF writer.slot < SlotCount
                 THEN [writer EXCEPT !.slot = @ + 1]
                 ELSE [at |-> "evict", preserve |-> ActiveAcquires,
                       attempt |-> 1]
            /\ UNCHANGED control
    /\ UNCHANGED <<lifeVars, slotMailbox, frame, sequence, boxVars,
                   eventMutex, reader, lease, sourceVars, published>>

\* acquire_write_slot, second loop: the oldest ready slot may be overwritten,
\* the last one not while somebody is acquiring.
ScanReady ==
    /\ writer.at = "evict"
    /\ writer' =
         IF \/ InSlot("ready") = {} \/ writer.attempt > SlotCount
            \/ writer.preserve /\ Cardinality(InSlot("ready")) <= 1
         THEN Idle
         ELSE LET s == Oldest(InSlot("ready"))
              IN  [at |-> "steal", slot |-> s, seen |-> control[s],
                   preserve |-> writer.preserve, attempt |-> writer.attempt]
    /\ UNCHANGED <<lifeVars, ringVars, boxVars, eventMutex, reader, lease,
                   sourceVars, published>>

\* Mutant of StealSucceeds: the compare-exchange is a store.
StealBlindly == TRUE
\* The compare-exchange on the slot's control word.
StealSucceeds == control[writer.slot] = writer.seen

Steal ==
    /\ writer.at = "steal"
    /\ IF StealSucceeds
       THEN Claim(writer.slot)
       ELSE /\ writer' = [at |-> "evict", preserve |-> writer.preserve,
                          attempt |-> writer.attempt + 1]
            /\ UNCHANGED control
    /\ UNCHANGED <<lifeVars, slotMailbox, frame, sequence, boxVars,
                   eventMutex, reader, lease, sourceVars, published>>

\* The texture cannot be allocated, or the sequence is exhausted.
CopyFails ==
    /\ writer.at = "copy"
    /\ control' = [control EXCEPT ![writer.slot].state = "free"]
    /\ writer' = Idle
    /\ UNCHANGED <<lifeVars, slotMailbox, frame, sequence, boxVars,
                   eventMutex, reader, lease, sourceVars, published>>

Copy ==
    /\ writer.at = "copy" /\ sequence < MaxSequence
    /\ sequence' = sequence + 1
    /\ frame' = [frame EXCEPT ![writer.slot] =
                    [sequence |-> sequence + 1, region |-> Region]]
    /\ slotMailbox' = [slotMailbox EXCEPT ![writer.slot] =
                          mailbox.generation]
    /\ writer' = [at |-> "publish", slot |-> writer.slot,
                  damage |-> CurrentDamage(pending, Region, sequence)]
    /\ UNCHANGED <<lifeVars, control, boxVars, eventMutex, reader, lease,
                   sourceVars, published>>

\* The frame is the last one published.
PublishesFrame(number, region, damage) ==
    /\ published' = [sequence |-> number, region |-> region,
                     complete |-> Rebuilds(damage, region, changed,
                                           published)]
    /\ changed' = {}

\* The ready word is stored under event_mutex.
PublishLocked == eventMutex = "none"

Publish ==
    /\ writer.at = "publish" /\ PublishLocked
    /\ control' = [control EXCEPT ![writer.slot] =
                      Control(sequence, "ready")]
    /\ pending' = CompleteDamagePublish(pending, sequence)
    /\ PublishesFrame(sequence, frame[writer.slot].region, writer.damage)
    /\ reader' = Notify
    /\ writer' = Idle
    /\ UNCHANGED <<lifeVars, slotMailbox, frame, sequence, boxVars,
                   eventMutex, lease, poolSize>>

-----------------------------------------------------------------------------
(* acquire_latest and the lease.                                           *)

Goto(c, r) == reader' = [reader EXCEPT ![c] = r]

AcquireCall(c) ==
    /\ reader[c] = Idle
    /\ Goto(c, [at |-> "lock"])
    /\ UNCHANGED <<lifeVars, ringVars, boxVars, eventMutex, writer, lease,
                   sourceVars, published>>

AcquireLock(c) ==
    /\ reader[c].at = "lock" /\ eventMutex = "none"
    /\ eventMutex' = c
    /\ Goto(c, [at |-> "check"])
    /\ UNCHANGED <<lifeVars, ringVars, boxVars, writer, lease, sourceVars,
                   published>>

Finished == closed \/ ~running \/ ~mailbox.available

\* The loop's conditions; a timeout of 0, or a deadline that has passed,
\* makes the call return.
AcquireCheck(c) ==
    /\ reader[c].at = "check"
    /\ \/ /\ HasReadyFrame
          /\ Goto(c, [at |-> "take", slot |-> Newest(Current),
                      seen |-> control[Newest(Current)]])
          /\ UNCHANGED eventMutex
       \/ /\ ~HasReadyFrame
          /\ Goto(c, Idle) /\ eventMutex' = "none"
       \/ /\ ~HasReadyFrame /\ ~Finished
          /\ Goto(c, [at |-> "block"]) /\ UNCHANGED eventMutex
    /\ UNCHANGED <<lifeVars, ringVars, boxVars, writer, lease, sourceVars,
                   published>>

\* The condition variable releases event_mutex and blocks.
AcquireBlock(c) ==
    /\ reader[c].at = "block"
    /\ Goto(c, [at |-> "wait"]) /\ eventMutex' = "none"
    /\ UNCHANGED <<lifeVars, ringVars, boxVars, writer, lease, sourceVars,
                   published>>

\* wait_until at its deadline evaluates the predicate once more.
AcquireTimeout(c) ==
    /\ reader[c].at = "wait" /\ eventMutex = "none"
    /\ IF HasReadyFrame \/ Finished
       THEN Goto(c, [at |-> "check"]) /\ eventMutex' = c
       ELSE Goto(c, Idle) /\ UNCHANGED eventMutex
    /\ UNCHANGED <<lifeVars, ringVars, boxVars, writer, lease, sourceVars,
                   published>>

\* The compare-exchange that leases the slot.  If it fails the call tries
\* again, or returns because its deadline has passed.
AcquireTake(c) ==
    LET s == reader[c].slot
        seen == reader[c].seen
    IN  /\ reader[c].at = "take"
        /\ IF control[s] = seen
           THEN /\ control' = [control EXCEPT ![s].state = "reading"]
                /\ lease' = [lease EXCEPT ![c] = @ \cup
                               {[slot |-> s, token |-> seen.generation,
                                 frame |-> frame[s]]}]
                /\ eventMutex' = "none"
                /\ Goto(c, [at |-> "purge", newest |-> seen.generation])
           ELSE /\ \/ Goto(c, [at |-> "check"]) /\ UNCHANGED eventMutex
                   \/ Goto(c, Idle) /\ eventMutex' = "none"
                /\ UNCHANGED <<control, lease>>
        /\ UNCHANGED <<lifeVars, slotMailbox, frame, sequence, boxVars,
                       writer, sourceVars, published>>

\* Ready frames older than the leased one are freed, without event_mutex.
AcquirePurge(c) ==
    /\ reader[c].at = "purge"
    /\ control' = [s \in Slots |->
          IF control[s].state = "ready"
             /\ control[s].generation < reader[c].newest
          THEN [control[s] EXCEPT !.state = "free"]
          ELSE control[s]]
    /\ Goto(c, Idle)
    /\ UNCHANGED <<lifeVars, slotMailbox, frame, sequence, boxVars,
                   eventMutex, writer, lease, sourceVars, published>>

\* release_lease
Release(c, l) ==
    /\ reader[c] = Idle /\ l \in lease[c]
    /\ lease' = [lease EXCEPT ![c] = @ \ {l}]
    /\ control' = IF control[l.slot] = Control(l.token, "reading")
                  THEN [control EXCEPT ![l.slot].state = "free"]
                  ELSE control
    /\ UNCHANGED <<lifeVars, slotMailbox, frame, sequence, boxVars,
                   eventMutex, writer, reader, sourceVars, published>>

-----------------------------------------------------------------------------
\* create, with initialize_pool, of a capture in either mode.
CaptureInit(config) ==
    /\ started = FALSE /\ stopped = FALSE
    /\ running = FALSE /\ closed = FALSE
    /\ control = [s \in Slots |-> Control(0, "free")]
    /\ slotMailbox = [s \in Slots |-> 0]
    /\ frame = [s \in Slots |-> NoFrame]
    /\ sequence = 0
    /\ sourceSize \in Sizes \ {0} /\ poolSize = sourceSize
    /\ MailboxMatchesBus(config, sourceSize)
    /\ mailbox = [config |-> config, generation |-> 1,
                  available |-> OutputRegion(config, sourceSize) # NoRegion]
    /\ eventMutex = "none" /\ writer = Idle
    /\ reader = [c \in Consumers |-> Idle]
    /\ lease = [c \in Consumers |-> {}]
    /\ changed = Columns
    /\ pending = InitialDamage(0)
    /\ published = Nothing

RingInit == bus = NoBus /\ \E config \in MailboxConfigs : CaptureInit(config)

\* Steps of a frame callback that has accepted a frame.
RingFrameStep ==
    ScanFree \/ ScanReady \/ Steal \/ CopyFails \/ Copy \/ Publish

Acquiring(c) ==
    \/ AcquireLock(c) \/ AcquireCheck(c) \/ AcquireBlock(c)
    \/ AcquireTake(c) \/ AcquirePurge(c)

\* Steps of a capture in either mode.
CommonStep ==
    \/ OnClosed
    \/ \E config \in MailboxConfigs : SetMailboxConfig(config)
    \/ FrameFails \/ FrameUnavailable
    \/ \E size \in Sizes : FrameResized(size)

RingStep ==
    \/ Start \/ StopBegin \/ StopNotify
    \/ FrameAccepted([at |-> "claim", slot |-> 1])
    \/ RingFrameStep
    \/ \E c \in Consumers :
          \/ AcquireCall(c) \/ Acquiring(c) \/ AcquireTimeout(c)
          \/ \E l \in lease[c] : Release(c, l)

-----------------------------------------------------------------------------
(* Properties.                                                             *)

(* A leased frame is the caller's alone: whatever the callback, the other  *)
(* consumers, a mailbox change, a resize or stop do meanwhile, the slot    *)
(* stays marked as read under the lease's token and holds the very frame   *)
(* that was taken (acquire_write_slot, discard_ready_slots_locked,         *)
(* release_lease).                                                         *)
LeaseIntact ==
    \A c \in Consumers : \A l \in lease[c] :
        /\ control[l.slot] = Control(l.token, "reading")
        /\ frame[l.slot] = l.frame /\ l.frame.sequence = l.token

(* set_mailbox_config and a resize leave no frame of the earlier region to *)
(* be taken: a ready slot always shows the current generation and a region *)
(* that exists.                                                            *)
ReadyIsCurrent ==
    \A s \in InSlot("ready") :
        slotMailbox[s] = mailbox.generation /\ mailbox.available

(* The damage of a published frame is complete: patching the frame it      *)
(* names as base_sequence where it is dirty gives the frame, across frames *)
(* that were dropped, skipped for want of a slot, or failed, and across    *)
(* resizes and mailbox changes (collect_frame_damage, current_damage,      *)
(* complete_damage_publish).                                               *)
DamageComplete == published.complete

=============================================================================
