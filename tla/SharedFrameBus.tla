--------------------------- MODULE SharedFrameBus ---------------------------
(***************************************************************************)
(* The cross-process frame bus of src/src/gpu/shared_frame_bus.cpp: one    *)
(* publisher process and up to MaxConsumers consumer processes share       *)
(* SlotCount textures through a control page that is only ever touched     *)
(* with interlocked operations, and one GPU fence per consumer.            *)
(*                                                                         *)
(* The publisher serialises its operations with a mutex, each consumer     *)
(* handle serialises its own with another; across processes there is no    *)
(* lock.  An action is therefore one interlocked operation (or a run of    *)
(* loads and stores no other process can tell apart), and the program      *)
(* counters below name the points where another process may step in.       *)
(*                                                                         *)
(* A consumer handle is identified by its registration's token: tokens are *)
(* never reused, whereas the consumer index (the reader bit) is.           *)
(***************************************************************************)
EXTENDS Integers, FiniteSets

CONSTANTS
  SlotCount,      \* control->slot_count
  MaxConsumers,   \* control->max_consumers
  MaxSequence,    \* bound on control->sequence, the exhaustion check's limit
  MaxGeneration,  \* bound on next_consumer_generation, likewise
  Faults          \* the faults of the environment that may occur

ASSUME SlotCountAssumption == SlotCount \in Nat /\ SlotCount >= 2
ASSUME MaxConsumersAssumption == MaxConsumers \in Nat \ {0}
ASSUME MaxSequenceAssumption == MaxSequence \in Nat
ASSUME MaxGenerationAssumption == MaxGeneration \in Nat
ASSUME FaultsAssumption ==
  Faults \subseteq {"fence",           \* a consumer's Signal or Wait fails, or
                                      \* its device is removed
                   "consumer_exit",   \* a consumer's process ends
                   "publisher_exit",  \* the publisher's process ends
                   "device",          \* the publisher's device is removed
                   "register"}        \* handles cannot be duplicated

Slot == 0 .. SlotCount - 1
NoSlot == SlotCount                       \* invalid_slot
Index == 0 .. MaxConsumers - 1
Sequence == 0 .. MaxSequence              \* 0: no committed frame
Token == 1 .. MaxGeneration
NoToken == 0
Lost == MaxSequence + 1                   \* GetCompletedValue() = UINT64_MAX

VARIABLES
  (* The control page. *)
  sequence,     \* control->sequence, the newest committed frame
  slotSeq,      \* slots[k].sequence
  stamp,        \* metadata[k].sequence and side_data[k].sequence
  payload,      \* the frame that metadata[k] and side_data[k] describe
  writing,      \* slots whose ownership has writer_bit
  quarantine,   \* slots whose ownership has quarantine_bit
  readers,      \* readers[k]: the consumer indices with a bit in ownership
  access,       \* consumers[i]: token and access_state (tag, open bit, refs)
  shuttingDown, \* control->shutting_down
  (* The publisher's private state. *)
  record,       \* consumers[i].token of an active ConsumerRecord, or NoToken
  poisoned,     \* indices whose active record is poisoned
  nextToken,    \* next_consumer_generation
  writerSlot,   \* writer_slot while writer_active, or NoSlot
  pubPc,        \* where the thread that holds the publisher's mutex is
  pubOp,        \* the operation it runs
  sweepAt,      \* sweep_consumers_locked: index
  sweepDead,    \* ... process_wait == WAIT_OBJECT_0
  sweepDone,    \* ... completed
  claimAt,      \* claim_slot_locked: slot
  claimed,      \* ... candidate
  (* The consumer handles. *)
  index,        \* consumer_index
  pc,           \* where the thread that holds the handle's mutex is
  closed,       \* closed
  closeReq,     \* close_requested
  observed,     \* observed_sequence
  scanAt,       \* the slot a loop over slots is at
  candidate,    \* acquire_latest: candidate
  newest,       \* acquire_latest: newest, then stable_sequence
  acquired,     \* acquisitions[k].sequence of an active acquisition, or 0
  released,     \* the slots whose acquisition is released
  (* The consumers' GPU queues. *)
  signals,      \* done-fence signals submitted and not yet executed
  completed,    \* the done fence's value
  reads         \* <<slot, frame>>: texture reads the GPU may still execute

pageVars == <<sequence, slotSeq, stamp, payload, writing, quarantine, readers,
              access, shuttingDown>>
sweepVars == <<sweepAt, sweepDead, sweepDone, claimAt, claimed>>
pubVars == <<record, poisoned, nextToken, writerSlot, pubPc, pubOp,
             sweepVars>>
scanVars == <<scanAt, candidate, newest>>
conVars == <<index, pc, closed, closeReq, observed, scanVars,
             acquired, released>>
gpuVars == <<signals, completed, reads>>
vars == <<pageVars, pubVars, conVars, gpuVars>>

PubPcs == {"idle", "probe", "slots", "finalize", "claim", "cas", "clear",
           "register", "destroyed", "exited"}
PubOps == {"none", "publish", "register", "unregister"}
ConPcs == {"none", "registered", "idle", "loop", "scan", "cas", "check",
           "take", "undo", "leave", "leave_frame", "leave_close",
           "quarantine", "or", "and", "exited"}

NoAccess == [token |-> NoToken, tag |-> NoToken, open |-> FALSE, refs |-> 0]

Init ==
  /\ sequence = 0
  /\ slotSeq = [k \in Slot |-> 0]
  /\ stamp = [k \in Slot |-> 0]
  /\ payload = [k \in Slot |-> 0]
  /\ writing = {}
  /\ quarantine = {}
  /\ readers = [k \in Slot |-> {}]
  /\ access = [i \in Index |-> NoAccess]
  /\ shuttingDown = FALSE
  /\ record = [i \in Index |-> NoToken]
  /\ poisoned = {}
  /\ nextToken = 1
  /\ writerSlot = NoSlot
  /\ pubPc = "idle"
  /\ pubOp = "none"
  /\ sweepAt = 0
  /\ sweepDead = FALSE
  /\ sweepDone = 0
  /\ claimAt = 0
  /\ claimed = NoSlot
  /\ index = [g \in Token |-> 0]
  /\ pc = [g \in Token |-> "none"]
  /\ closed = [g \in Token |-> FALSE]
  /\ closeReq = [g \in Token |-> FALSE]
  /\ observed = [g \in Token |-> 0]
  /\ scanAt = [g \in Token |-> 0]
  /\ candidate = [g \in Token |-> NoSlot]
  /\ newest = [g \in Token |-> 0]
  /\ acquired = [g \in Token |-> [k \in Slot |-> 0]]
  /\ released = [g \in Token |-> {}]
  /\ signals = [g \in Token |-> {}]
  /\ completed = [g \in Token |-> 0]
  /\ reads = [g \in Token |-> {}]

-----------------------------------------------------------------------------
(* Helpers on the control page.                                            *)

\* Mutants of Free: a claim that tests only part of the ownership word.
FreeIgnoringReaders(k) == k \notin writing \cup quarantine

\* ownership = 0
Free(k) == k \notin writing \cup quarantine /\ readers[k] = {}

\* slot_unavailable
SlotUnavailable(k) == k \in writing \cup quarantine

\* close_consumer_access: clear the open bit unless the tag is another's
CloseConsumerAccess(page, i, g) ==
  IF page[i].tag = g THEN [page EXCEPT ![i].open = FALSE] ELSE page

\* registration_active_locked
RegistrationActive(g) ==
  LET a == access[index[g]]
  IN  ~closed[g] /\ a.open /\ a.tag = g /\ a.token = g

\* WaitForSingleObject(record.process, 0) # WAIT_OBJECT_0
Alive(g) == pc[g] # "exited"

\* The publisher's thread returns and drops the mutex.
PubReturn ==
  /\ pubPc' = "idle"
  /\ pubOp' = "none"
  /\ sweepAt' = 0
  /\ sweepDead' = FALSE
  /\ sweepDone' = 0
  /\ claimAt' = 0
  /\ claimed' = NoSlot

-----------------------------------------------------------------------------
(* The publisher: sweep_consumers_locked.                                  *)

\* Start an operation whose first step is a sweep.
StartSweep(op) ==
  /\ pubPc = "idle"
  /\ pubPc' = "probe"
  /\ pubOp' = op
  /\ sweepAt' = 0
  /\ UNCHANGED <<sweepDead, sweepDone, claimAt, claimed>>

\* publish and begin_publish up to claim_slot_locked's first sweep.  A publish
\* whose frame fails validation, or that finds a write lease, changes nothing.
BeginPublish ==
  /\ ~shuttingDown
  /\ writerSlot = NoSlot
  /\ StartSweep("publish")
  /\ UNCHANGED <<pageVars, record, poisoned, nextToken, writerSlot,
                 conVars, gpuVars>>

BeginRegister ==
  /\ ~shuttingDown
  /\ writerSlot = NoSlot
  /\ nextToken <= MaxGeneration
  /\ StartSweep("register")
  /\ UNCHANGED <<pageVars, record, poisoned, nextToken, writerSlot,
                 conVars, gpuVars>>

\* unregister_consumer, first critical section: close the gate.
UnregisterClose(g) ==
  LET i == index[g]
  IN  /\ pubPc = "idle"
      /\ writerSlot = NoSlot
      /\ pc[g] # "none"
      /\ record[i] = g
      /\ access[i].token = g
      /\ access' = CloseConsumerAccess(access, i, g)
      /\ UNCHANGED <<sequence, slotSeq, stamp, payload, writing, quarantine,
                     readers, shuttingDown, pubVars, conVars, gpuVars>>

\* unregister_consumer, one turn of its loop.  The write lease may be active.
UnregisterSweep(g) ==
  LET i == index[g]
  IN  /\ pc[g] # "none"
      /\ record[i] = g
      /\ ~access[i].open
      /\ StartSweep("unregister")
      /\ UNCHANGED <<pageVars, record, poisoned, nextToken, writerSlot,
                     conVars, gpuVars>>

\* The next consumer index, or what the operation does after the sweep:
\* claim a slot (refused when every slot is quarantined), register, or return.
SweepNext(quarantined) ==
  IF sweepAt + 1 < MaxConsumers
  THEN /\ sweepAt' = sweepAt + 1
       /\ pubPc' = "probe"
       /\ sweepDead' = FALSE
       /\ sweepDone' = 0
       /\ UNCHANGED <<pubOp, claimAt, claimed>>
  ELSE IF \/ pubOp = "unregister"
          \/ pubOp = "publish" /\ quarantined = Slot
  THEN PubReturn
  ELSE /\ pubPc' = IF pubOp = "publish" THEN "claim" ELSE "register"
       /\ sweepAt' = 0
       /\ sweepDead' = FALSE
       /\ sweepDone' = 0
       /\ UNCHANGED <<pubOp, claimAt, claimed>>

\* Ask whether the process is gone and sample its done fence.  A removed
\* publisher device ends the bus, for good (shuttingDown is only set while the
\* publisher lives when its device is found removed); a removed consumer device
\* may read as Lost.
SweepProbe ==
  LET g == record[sweepAt]
  IN  /\ pubPc = "probe"
      /\ \/ /\ g = NoToken \/ (sweepAt \in poisoned /\ Alive(g))
            /\ SweepNext(quarantine)
            /\ UNCHANGED shuttingDown
         \/ /\ g # NoToken
            /\ sweepAt \notin poisoned
            /\ shuttingDown \/ "device" \in Faults
            /\ shuttingDown' = TRUE
            /\ PubReturn
         \/ /\ g # NoToken
            /\ IF sweepAt \in poisoned THEN ~Alive(g) ELSE ~shuttingDown
            /\ pubPc' = IF sweepAt \in poisoned THEN "finalize" ELSE "slots"
            /\ sweepDead' = ~Alive(g)
            /\ sweepDone' \in {completed[g]} \cup
                              (IF "fence" \in Faults THEN {Lost} ELSE {})
            /\ UNCHANGED <<shuttingDown, pubOp, sweepAt, claimAt, claimed>>
      /\ UNCHANGED <<sequence, slotSeq, stamp, payload, writing, quarantine,
                     readers, access, record, poisoned, nextToken, writerSlot,
                     conVars, gpuVars>>

\* A mutant of the next: > for >=.
SweepProvenStrict(i) ==
  {k \in Slot : i \in readers[k] /\ sweepDone # Lost /\ sweepDone > slotSeq[k]}

\* The bits of index i that the sampled fence value proves finished.
SweepProven(i) ==
  {k \in Slot : i \in readers[k] /\ sweepDone # Lost /\ sweepDone >= slotSeq[k]}

\* The slots that will never be proved finished: the consumer is dead, or its
\* fence is lost.
SweepGiveUp(i) ==
  {k \in Slot : /\ i \in readers[k]
                /\ sweepDead \/ sweepDone = Lost
                /\ k \notin SweepProven(i)}

\* The loop over slots.  Sequences and the fence sample are the publisher's own
\* while it holds the mutex, so the slots can be taken in one step.
SweepSlots ==
  LET i == sweepAt
      swept == SweepProven(i) \cup SweepGiveUp(i)
  IN  /\ pubPc = "slots"
      /\ readers' = [k \in Slot |->
                       IF k \in swept THEN readers[k] \ {i} ELSE readers[k]]
      /\ quarantine' = quarantine \cup SweepGiveUp(i)
      /\ access' = IF sweepDead \/ sweepDone = Lost
                   THEN CloseConsumerAccess(access, i, record[i]) ELSE access
      /\ pubPc' = "finalize"
      /\ UNCHANGED <<sequence, slotSeq, stamp, payload, writing, shuttingDown,
                     record, poisoned, nextToken, writerSlot,
                     pubOp, sweepVars, conVars, gpuVars>>

\* Mutants of Reclaimable: the gate's count is not looked at, or a process that
\* died inside the gate is waited for.
ReclaimableInsideGate(i) ==
  \/ sweepDead
  \/ /\ ~access[i].open \/ access[i].token # record[i]
     /\ \A k \in Slot : i \notin readers[k]
ReclaimableOutsideGate(i) ==
  /\ ~access[i].open \/ access[i].token # record[i]
  /\ access[i].refs = 0
  /\ \A k \in Slot : i \notin readers[k]

\* May the index be reclaimed?  A live consumer must have been told to close,
\* be outside the gate and hold no reader bit.
Reclaimable(i) ==
  \/ sweepDead
  \/ /\ ~access[i].open \/ access[i].token # record[i]
     /\ access[i].refs = 0
     /\ \A k \in Slot : i \notin readers[k]

\* finalize_consumer_locked
FinalizeConsumer(i) ==
  /\ readers' = [k \in Slot |-> readers[k] \ {i}]
  /\ access' = IF access[i].token = record[i]
               THEN [access EXCEPT ![i] = NoAccess] ELSE access
  /\ record' = [record EXCEPT ![i] = NoToken]
  /\ poisoned' = poisoned \ {i}

SweepFinalize ==
  /\ pubPc = "finalize"
  /\ IF Reclaimable(sweepAt) THEN FinalizeConsumer(sweepAt)
     ELSE UNCHANGED <<readers, access, record, poisoned>>
  /\ SweepNext(quarantine)
  /\ UNCHANGED <<sequence, slotSeq, stamp, payload, writing, quarantine,
                 shuttingDown, nextToken, writerSlot,
                 conVars, gpuVars>>

-----------------------------------------------------------------------------
(* The publisher: claiming, committing and cancelling a write.             *)

\* claim_slot_locked's scan looks at one slot: the oldest free one wins.
ClaimScan ==
  /\ pubPc = "claim"
  /\ claimed' = IF /\ Free(claimAt)
                   /\ claimed = NoSlot \/ slotSeq[claimAt] < slotSeq[claimed]
                THEN claimAt ELSE claimed
  /\ IF claimAt + 1 < SlotCount
     THEN claimAt' = claimAt + 1 /\ pubPc' = "claim"
     ELSE claimAt' = 0 /\ pubPc' = "cas"
  /\ UNCHANGED <<pageVars, record, poisoned, nextToken, writerSlot,
                 pubOp, sweepAt, sweepDead, sweepDone, conVars, gpuVars>>

\* The compare-exchange 0 -> writer_bit, and the stores that empty the slot.
ClaimSlot ==
  /\ pubPc = "cas"
  /\ claimed # NoSlot
  /\ Free(claimed)
  /\ writing' = writing \cup {claimed}
  /\ slotSeq' = [slotSeq EXCEPT ![claimed] = 0]
  /\ stamp' = [stamp EXCEPT ![claimed] = 0]
  /\ writerSlot' = claimed
  /\ PubReturn
  /\ UNCHANGED <<sequence, payload, quarantine, readers, access, shuttingDown,
                 record, poisoned, nextToken, conVars, gpuVars>>

\* No slot, or a reader got there first: time out, or sweep and scan again.
ClaimRetry ==
  /\ pubPc = "cas"
  /\ claimed # NoSlot => ~Free(claimed)
  /\ \/ PubReturn
     \/ /\ pubPc' = "probe"
        /\ claimed' = NoSlot
        /\ UNCHANGED <<pubOp, sweepAt, sweepDead, sweepDone, claimAt>>
  /\ UNCHANGED <<pageVars, record, poisoned, nextToken, writerSlot,
                 conVars, gpuVars>>

\* commit_write_locked up to the store of control->sequence.  The texture's
\* commands and the ready-fence signal are in the publisher's GPU queue.
CommitStore ==
  LET next == sequence + 1
  IN  /\ pubPc = "idle"
      /\ writerSlot # NoSlot
      /\ sequence < MaxSequence
      /\ ~shuttingDown
      /\ payload' = [payload EXCEPT ![writerSlot] = next]
      /\ stamp' = [stamp EXCEPT ![writerSlot] = next]
      /\ slotSeq' = [slotSeq EXCEPT ![writerSlot] = next]
      /\ sequence' = next
      /\ pubPc' = "clear"
      /\ UNCHANGED <<writing, quarantine, readers, access, shuttingDown,
                     record, poisoned, nextToken, writerSlot,
                     pubOp, sweepVars, conVars, gpuVars>>

\* InterlockedExchange(ownership, 0): every bit goes, not only writer_bit.
DropOwnership(k) ==
  /\ writing' = writing \ {k}
  /\ quarantine' = quarantine \ {k}
  /\ readers' = [readers EXCEPT ![k] = {}]
  /\ writerSlot' = NoSlot

CommitClear ==
  /\ pubPc = "clear"
  /\ DropOwnership(writerSlot)
  /\ PubReturn
  /\ UNCHANGED <<sequence, slotSeq, stamp, payload, access, shuttingDown,
                 record, poisoned, nextToken, conVars, gpuVars>>

\* cancel_write_locked: a dropped lease, or a commit that fails validation, is
\* out of sequence numbers, or finds the device removed.
CancelWrite ==
  /\ pubPc = "idle"
  /\ writerSlot # NoSlot
  /\ slotSeq' = [slotSeq EXCEPT ![writerSlot] = 0]
  /\ stamp' = [stamp EXCEPT ![writerSlot] = 0]
  /\ DropOwnership(writerSlot)
  /\ shuttingDown' \in {shuttingDown, shuttingDown \/ "device" \in Faults}
  /\ UNCHANGED <<sequence, payload, access, record, poisoned, nextToken, pubPc,
                 pubOp, sweepVars, conVars, gpuVars>>

-----------------------------------------------------------------------------
(* The publisher: registration and shutdown.                               *)

\* The first index without an active record, if any.
FreeIndex == {i \in Index : /\ record[i] = NoToken
                            /\ \A j \in Index : j < i => record[j] # NoToken}

\* register_consumer after its sweep.  "ok" opens the gate and hands out the
\* registration; "failed" is a duplication failure that was rolled back, or a
\* process that died; "poisoned" one whose remote handles could not be closed.
RegisterConsumer(outcome) ==
  /\ pubPc = "register"
  /\ outcome = "ok" \/ "register" \in Faults
  /\ \E i \in FreeIndex :
       /\ nextToken' = nextToken + 1
       /\ IF outcome = "failed"
          THEN UNCHANGED <<record, poisoned, access, index, pc>>
          ELSE /\ record' = [record EXCEPT ![i] = nextToken]
               /\ poisoned' = IF outcome = "poisoned"
                              THEN poisoned \cup {i} ELSE poisoned
               /\ access' = [access EXCEPT ![i] =
                    [token |-> nextToken,
                     tag |-> IF outcome = "ok" THEN nextToken ELSE NoToken,
                     open |-> outcome = "ok",
                     refs |-> 0]]
               /\ index' = [index EXCEPT ![nextToken] = i]
               /\ pc' = IF outcome = "ok"
                        THEN [pc EXCEPT ![nextToken] = "registered"] ELSE pc
  /\ PubReturn
  /\ UNCHANGED <<sequence, slotSeq, stamp, payload, writing, quarantine,
                 readers, shuttingDown, writerSlot, closed,
                 closeReq, observed, scanVars, acquired, released, gpuVars>>

\* The consumer table is full, or a failure before the generation is taken: no
\* process id, no fence, no fence handle.
RegisterRefused ==
  /\ pubPc = "register"
  /\ FreeIndex = {} \/ "register" \in Faults
  /\ PubReturn
  /\ UNCHANGED <<pageVars, record, poisoned, nextToken, writerSlot,
                 conVars, gpuVars>>

\* ~SharedFrameBusPublisherState: runs once no write lease refers to it.
DestroyPublisher ==
  /\ pubPc = "idle"
  /\ writerSlot = NoSlot
  /\ shuttingDown' = TRUE
  /\ access' = [i \in Index |->
       IF record[i] # NoToken
       THEN CloseConsumerAccess(access, i, record[i])[i] ELSE access[i]]
  /\ pubPc' = "destroyed"
  /\ UNCHANGED <<sequence, slotSeq, stamp, payload, writing, quarantine,
                 readers, record, poisoned, nextToken, writerSlot,
                 pubOp, sweepVars, conVars, gpuVars>>

\* The publisher's process exits, anywhere; its private memory is gone.
PublisherExit ==
  /\ "publisher_exit" \in Faults
  /\ pubPc # "exited"
  /\ pubPc' = "exited"
  /\ pubOp' = "none"
  /\ record' = [i \in Index |-> NoToken]
  /\ poisoned' = {}
  /\ writerSlot' = NoSlot
  /\ sweepAt' = 0
  /\ sweepDead' = FALSE
  /\ sweepDone' = 0
  /\ claimAt' = 0
  /\ claimed' = NoSlot
  /\ UNCHANGED <<pageVars, nextToken, conVars, gpuVars>>

PublisherOp ==
  \/ BeginPublish
  \/ BeginRegister
  \/ \E g \in Token : UnregisterClose(g) \/ UnregisterSweep(g)
  \/ CommitStore
  \/ CancelWrite

PublisherStep ==
  \/ SweepProbe
  \/ SweepSlots
  \/ SweepFinalize
  \/ ClaimScan
  \/ ClaimSlot
  \/ ClaimRetry
  \/ CommitClear
  \/ \E outcome \in {"ok", "failed", "poisoned"} : RegisterConsumer(outcome)
  \/ RegisterRefused

PublisherEnd ==
  \/ DestroyPublisher
  \/ PublisherExit

-----------------------------------------------------------------------------
(* A consumer handle: open and close.                                      *)

\* deactivate_locked: close the gate if it is still this registration's.
Deactivate(g) ==
  /\ access' = IF access[index[g]].token = g
               THEN CloseConsumerAccess(access, index[g], g) ELSE access
  /\ closed' = [closed EXCEPT ![g] = TRUE]

\* SharedFrameBusConsumer::open succeeds.
OpenConsumer(g) ==
  /\ pc[g] = "registered"
  /\ ~shuttingDown
  /\ RegistrationActive(g)
  /\ pubPc # "exited"
  /\ pc' = [pc EXCEPT ![g] = "idle"]
  /\ UNCHANGED <<pageVars, pubVars, index, closed, closeReq, observed,
                 scanVars, acquired, released, gpuVars>>

\* It fails: any of the checks above, or a device or handle that cannot be
\* opened; fail_after_mapping and best_effort_deactivate close the gate.
OpenFails(g) ==
  /\ pc[g] = "registered"
  /\ Deactivate(g)
  /\ pc' = [pc EXCEPT ![g] = "idle"]
  /\ UNCHANGED <<sequence, slotSeq, stamp, payload, writing, quarantine,
                 readers, shuttingDown, pubVars, index, closeReq,
                 observed, scanVars, acquired, released, gpuVars>>

\* close_explicit before it has the handle's mutex.
RequestClose(g) ==
  /\ pc[g] \notin {"none", "registered", "exited"}
  /\ ~closed[g]
  /\ ~closeReq[g]
  /\ closeReq' = [closeReq EXCEPT ![g] = TRUE]
  /\ UNCHANGED <<pageVars, pubVars, index, pc, closed, observed,
                 scanVars, acquired, released, gpuVars>>

Holding(g) == {k \in Slot : acquired[g][k] # 0}

\* close_explicit with the mutex; the destructor, which runs once no frame
\* lease refers to the handle, has the same effect.
CloseConsumer(g) ==
  /\ pc[g] = "idle"
  /\ ~closed[g]
  /\ closeReq[g]
  /\ IF Holding(g) = {}
     THEN Deactivate(g) /\ UNCHANGED closeReq
     ELSE /\ closeReq' = [closeReq EXCEPT ![g] = FALSE]
          /\ UNCHANGED <<access, closed>>
  /\ UNCHANGED <<sequence, slotSeq, stamp, payload, writing, quarantine,
                 readers, shuttingDown, pubVars, index, pc, observed,
                 scanVars, acquired, released, gpuVars>>

\* The consumer's process exits, anywhere; its private memory is gone, its
\* bits, its gate count and its GPU queue are not.
ConsumerExit(g) ==
  /\ "consumer_exit" \in Faults
  /\ Alive(g)
  /\ pc[g] # "none" \/ record[index[g]] = g
  /\ pc' = [pc EXCEPT ![g] = "exited"]
  /\ closed' = [closed EXCEPT ![g] = TRUE]
  /\ closeReq' = [closeReq EXCEPT ![g] = FALSE]
  /\ observed' = [observed EXCEPT ![g] = 0]
  /\ scanAt' = [scanAt EXCEPT ![g] = 0]
  /\ candidate' = [candidate EXCEPT ![g] = NoSlot]
  /\ newest' = [newest EXCEPT ![g] = 0]
  /\ acquired' = [acquired EXCEPT ![g] = [k \in Slot |-> 0]]
  /\ released' = [released EXCEPT ![g] = {}]
  /\ UNCHANGED <<pageVars, pubVars, index, gpuVars>>

-----------------------------------------------------------------------------
(* A consumer handle: acquire_latest.                                      *)

AcquireCall(g) ==
  /\ pc[g] = "idle"
  /\ RegistrationActive(g)
  /\ pc' = [pc EXCEPT ![g] = "loop"]
  /\ UNCHANGED <<pageVars, pubVars, index, closed, closeReq, observed,
                 scanVars, acquired, released, gpuVars>>

\* timeout_elapsed
AcquireTimeout(g) ==
  /\ pc[g] = "loop"
  /\ pc' = [pc EXCEPT ![g] = "idle"]
  /\ UNCHANGED <<pageVars, pubVars, index, closed, closeReq, observed,
                 scanVars, acquired, released, gpuVars>>

\* Mutant of MayEnter: close_requested is not looked at.
MayEnterClosing(g) ==
  LET a == access[index[g]]
  IN  /\ a.token = g /\ a.tag = g /\ a.open
      /\ pubPc # "exited"
      /\ ~shuttingDown

\* The gate is this registration's and open, close_explicit is not waiting, and
\* the publisher is there.
MayEnter(g) ==
  LET a == access[index[g]]
  IN  /\ a.token = g /\ a.tag = g /\ a.open
      /\ ~closeReq[g]
      /\ pubPc # "exited"
      /\ ~shuttingDown

\* enter_consumer_access, then the three reasons to leave at once and fail.
EnterAccess(g) ==
  /\ pc[g] = "loop"
  /\ IF MayEnter(g)
     THEN /\ access' = [access EXCEPT ![index[g]].refs = @ + 1]
          /\ pc' = [pc EXCEPT ![g] = "scan"]
          /\ newest' = [newest EXCEPT ![g] = observed[g]]
     ELSE /\ pc' = [pc EXCEPT ![g] = "idle"]
          /\ UNCHANGED <<access, newest>>
  /\ UNCHANGED <<sequence, slotSeq, stamp, payload, writing, quarantine,
                 readers, shuttingDown, pubVars, index, closed, closeReq,
                 observed, scanAt, candidate, acquired, released, gpuVars>>

\* One slot of the scan for the newest frame.
ScanSlot(g) ==
  LET k == scanAt[g]
      better == ~SlotUnavailable(k) /\ slotSeq[k] > newest[g]
      found == IF better THEN k ELSE candidate[g]
  IN  /\ pc[g] = "scan"
      /\ candidate' = [candidate EXCEPT ![g] = found]
      /\ newest' = [newest EXCEPT ![g] = IF better THEN slotSeq[k] ELSE @]
      /\ IF k + 1 < SlotCount
         THEN scanAt' = [scanAt EXCEPT ![g] = k + 1] /\ UNCHANGED pc
         ELSE /\ scanAt' = [scanAt EXCEPT ![g] = 0]
              /\ pc' = [pc EXCEPT ![g] =
                          IF found = NoSlot THEN "leave" ELSE "cas"]
      /\ UNCHANGED <<pageVars, pubVars, index, closed, closeReq,
                     observed, acquired, released, gpuVars>>

\* The compare-exchange loop that sets the reader bit.
SetReaderBit(g) ==
  LET k == candidate[g]
      i == index[g]
  IN  /\ pc[g] = "cas"
      /\ IF SlotUnavailable(k) \/ i \in readers[k]
         THEN pc' = [pc EXCEPT ![g] = "leave"] /\ UNCHANGED readers
         ELSE /\ readers' = [readers EXCEPT ![k] = @ \cup {i}]
              /\ pc' = [pc EXCEPT ![g] = "check"]
      /\ UNCHANGED <<sequence, slotSeq, stamp, payload, writing, quarantine,
                     access, shuttingDown, pubVars, index, closed,
                     closeReq, observed, scanVars, acquired, released, gpuVars>>

\* Mutant of Stable: the sequence is not read again once the bit is set.
StableUnchecked(g) == RegistrationActive(g)

\* stable_sequence = newest and > observed_sequence, registration_active_locked.
Stable(g) ==
  /\ slotSeq[candidate[g]] = newest[g]
  /\ newest[g] > observed[g]
  /\ RegistrationActive(g)

CheckStable(g) ==
  /\ pc[g] = "check"
  /\ pc' = [pc EXCEPT ![g] = IF Stable(g) THEN "take" ELSE "undo"]
  /\ UNCHANGED <<pageVars, pubVars, index, closed, closeReq, observed,
                 scanVars, acquired, released, gpuVars>>

\* InterlockedAnd(ownership, ~bit)
UndoReaderBit(g) ==
  /\ pc[g] = "undo"
  /\ readers' = [readers EXCEPT ![candidate[g]] = @ \ {index[g]}]
  /\ pc' = [pc EXCEPT ![g] = "leave"]
  /\ UNCHANGED <<sequence, slotSeq, stamp, payload, writing, quarantine,
                 access, shuttingDown, pubVars, index, closed, closeReq,
                 observed, scanVars, acquired, released, gpuVars>>

\* Copy and validate the metadata, queue the ready-fence wait and record the
\* acquisition: from here on the GPU may read the texture.  Metadata of another
\* frame, or a slot that is acquired already, quarantines the slot.
TakeFrame(g) ==
  LET k == candidate[g]
      s == newest[g]
  IN  /\ pc[g] = "take"
      /\ IF stamp[k] = s /\ acquired[g][k] = 0
         THEN /\ acquired' = [acquired EXCEPT ![g][k] = s]
              /\ observed' = [observed EXCEPT ![g] = s]
              /\ reads' = [reads EXCEPT ![g] = @ \cup {<<k, s>>}]
              /\ pc' = [pc EXCEPT ![g] = "leave_frame"]
              /\ UNCHANGED <<quarantine, readers>>
         ELSE /\ quarantine' = quarantine \cup {k}
              /\ readers' = [readers EXCEPT ![k] = @ \ {index[g]}]
              /\ pc' = [pc EXCEPT ![g] = "leave_close"]
              /\ UNCHANGED <<acquired, observed, reads>>
      /\ UNCHANGED <<sequence, slotSeq, stamp, payload, writing, access,
                     shuttingDown, pubVars, index, closed, closeReq,
                     scanVars, released, signals, completed>>

\* The ready-fence wait cannot be queued: nothing will read the texture.
WaitFails(g) ==
  /\ "fence" \in Faults
  /\ pc[g] = "take"
  /\ readers' = [readers EXCEPT ![candidate[g]] = @ \ {index[g]}]
  /\ pc' = [pc EXCEPT ![g] = "leave_close"]
  /\ UNCHANGED <<sequence, slotSeq, stamp, payload, writing, quarantine,
                 access, shuttingDown, pubVars, index, closed, closeReq,
                 observed, scanVars, acquired, released, gpuVars>>

\* leave_consumer_access
LeaveGate(i) == [access EXCEPT ![i].refs = @ - 1]

\* leave_consumer_access, then return the frame, fail for good
\* (deactivate_locked; every slot quarantined), or wait and look again.
LeaveAccess(g) ==
  LET i == index[g]
      left == LeaveGate(i)
  IN  /\ pc[g] \in {"leave", "leave_frame", "leave_close"}
      /\ IF pc[g] = "leave_close"
         THEN /\ access' = IF access[i].token = g
                           THEN CloseConsumerAccess(left, i, g) ELSE left
              /\ closed' = [closed EXCEPT ![g] = TRUE]
         ELSE access' = left /\ UNCHANGED closed
      /\ pc' = [pc EXCEPT ![g] =
                  IF pc[g] = "leave" /\ quarantine # Slot
                  THEN "loop" ELSE "idle"]
      /\ candidate' = [candidate EXCEPT ![g] = NoSlot]
      /\ newest' = [newest EXCEPT ![g] = 0]
      /\ UNCHANGED <<sequence, slotSeq, stamp, payload, writing, quarantine,
                     readers, shuttingDown, pubVars, index, closeReq,
                     observed, scanAt, acquired, released, gpuVars>>

-----------------------------------------------------------------------------
(* A consumer handle: release, and the quarantine when its fence fails.    *)

\* Mutant of Retired: a release signals its own frame, whatever is still held.
RetiredAlone(g, k) == {k}

\* acquisition_order: sequences grow, so the order of acquisition is theirs.
\* Releasing k retires the longest prefix of released acquisitions.
Retired(g, k) ==
  LET done == released[g] \cup {k}
  IN  {j \in Holding(g) : \A m \in Holding(g) :
         acquired[g][m] <= acquired[g][j] => m \in done}

\* Mutant of IsLastRetired: the newest acquisition, retired or not.
IsLastAcquired(g, k, s) == s = observed[g]

\* The retired acquisition with the greatest sequence.
IsLastRetired(g, k, s) ==
  /\ s \in {acquired[g][j] : j \in Retired(g, k)}
  /\ \A j \in Retired(g, k) : acquired[g][j] <= s

Retire(g, k) ==
  /\ acquired' = [acquired EXCEPT ![g] = [j \in Slot |->
        IF j \in Retired(g, k) THEN 0 ELSE acquired[g][j]]]
  /\ released' = [released EXCEPT ![g] = (@ \cup {k}) \ Retired(g, k)]

\* release with a fence that works: the reader bits stay, the done-fence
\* signal of the last retired frame goes into the GPU queue.
ReleaseFrame(g, k) ==
  /\ pc[g] = "idle"
  /\ k \in Holding(g) \ released[g]
  /\ Retire(g, k)
  /\ IF Retired(g, k) = {} THEN UNCHANGED signals
     ELSE \E s \in Sequence :
            /\ IsLastRetired(g, k, s)
            /\ signals' = [signals EXCEPT ![g] = @ \cup {s}]
  /\ UNCHANGED <<pageVars, pubVars, index, pc, closed, closeReq,
                 observed, scanVars, completed, reads>>

\* release when Signal fails, or the device turns out to be removed after a
\* signal that may have been executed.
ReleaseFails(g, k) ==
  /\ "fence" \in Faults
  /\ pc[g] = "idle"
  /\ k \in Holding(g) \ released[g]
  /\ Retired(g, k) # {}
  /\ Retire(g, k)
  /\ \/ UNCHANGED signals
     \/ \E s \in Sequence :
          /\ IsLastRetired(g, k, s)
          /\ signals' = [signals EXCEPT ![g] = @ \cup {s}]
  /\ pc' = [pc EXCEPT ![g] = "quarantine"]
  /\ UNCHANGED <<pageVars, pubVars, index, closed, closeReq, observed,
                 scanVars, completed, reads>>

\* The next slot of quarantine_all_readers_locked; after the last one the
\* acquisitions are forgotten and the handle is deactivated.
QuarantineNext(g) ==
  IF scanAt[g] + 1 < SlotCount
  THEN /\ scanAt' = [scanAt EXCEPT ![g] = @ + 1]
       /\ pc' = [pc EXCEPT ![g] = "quarantine"]
       /\ UNCHANGED <<access, closed, acquired, released>>
  ELSE /\ scanAt' = [scanAt EXCEPT ![g] = 0]
       /\ pc' = [pc EXCEPT ![g] = "idle"]
       /\ acquired' = [acquired EXCEPT ![g] = [k \in Slot |-> 0]]
       /\ released' = [released EXCEPT ![g] = {}]
       /\ Deactivate(g)

\* Is the reader bit set?  The bit is the index's, whoever has it now.
QuarantineTest(g) ==
  /\ pc[g] = "quarantine"
  /\ IF index[g] \in readers[scanAt[g]]
     THEN /\ pc' = [pc EXCEPT ![g] = "or"]
          /\ UNCHANGED <<scanAt, access, closed, acquired, released>>
     ELSE QuarantineNext(g)
  /\ UNCHANGED <<sequence, slotSeq, stamp, payload, writing, quarantine,
                 readers, shuttingDown, pubVars, index, closeReq,
                 observed, candidate, newest, gpuVars>>

QuarantineOr(g) ==
  /\ pc[g] = "or"
  /\ quarantine' = quarantine \cup {scanAt[g]}
  /\ pc' = [pc EXCEPT ![g] = "and"]
  /\ UNCHANGED <<sequence, slotSeq, stamp, payload, writing, readers, access,
                 shuttingDown, pubVars, index, closed, closeReq,
                 observed, scanVars, acquired, released, gpuVars>>

QuarantineAnd(g) ==
  /\ pc[g] = "and"
  /\ readers' = [readers EXCEPT ![scanAt[g]] = @ \ {index[g]}]
  /\ QuarantineNext(g)
  /\ UNCHANGED <<sequence, slotSeq, stamp, payload, writing, quarantine,
                 shuttingDown, pubVars, index, closeReq, observed,
                 candidate, newest, gpuVars>>

\* The GPU executes the consumer's next done-fence signal; the reads queued
\* before it are finished.  It may do so after the process has exited.
GpuSignal(g) ==
  \E s \in signals[g] :
    /\ \A t \in signals[g] : s <= t
    /\ signals' = [signals EXCEPT ![g] = @ \ {s}]
    /\ completed' = [completed EXCEPT ![g] = s]
    /\ reads' = [reads EXCEPT ![g] = {r \in @ : r[2] > s}]
    /\ UNCHANGED <<pageVars, pubVars, conVars>>

ConsumerOp(g) ==
  \/ OpenConsumer(g)
  \/ OpenFails(g)
  \/ RequestClose(g)
  \/ AcquireCall(g)

ConsumerStep(g) ==
  \/ CloseConsumer(g)
  \/ EnterAccess(g)
  \/ ScanSlot(g)
  \/ SetReaderBit(g)
  \/ CheckStable(g)
  \/ UndoReaderBit(g)
  \/ TakeFrame(g)
  \/ LeaveAccess(g)
  \/ QuarantineTest(g)
  \/ QuarantineOr(g)
  \/ QuarantineAnd(g)

ConsumerRelease(g) == \E k \in Slot : ReleaseFrame(g, k)

ConsumerFault(g) ==
  \/ AcquireTimeout(g)
  \/ WaitFails(g)
  \/ \E k \in Slot : ReleaseFails(g, k)
  \/ ConsumerExit(g)

Next ==
  \/ PublisherOp
  \/ PublisherStep
  \/ PublisherEnd
  \/ \E g \in Token :
       \/ ConsumerOp(g)
       \/ ConsumerStep(g)
       \/ ConsumerRelease(g)
       \/ ConsumerFault(g)
       \/ GpuSignal(g)

Spec == Init /\ [][Next]_vars

\* A thread inside a call runs, and the GPU executes what was flushed to it.
SchedulingFairness ==
  /\ WF_vars(PublisherStep)
  /\ \A g \in Token : WF_vars(ConsumerStep(g)) /\ WF_vars(GpuSignal(g))

\* The applications go on publishing, commit or drop every write lease, release
\* every frame they acquire, and never pass INFINITE to acquire_latest: it holds
\* the handle's mutex, which release needs, until its deadline.
ApplicationFairness ==
  /\ WF_vars(BeginPublish)
  /\ WF_vars(CommitStore \/ CancelWrite)
  /\ \A g \in Token :
       SF_vars(AcquireTimeout(g)) /\ SF_vars(ConsumerRelease(g))

FairSpec == Spec /\ SchedulingFairness

-----------------------------------------------------------------------------
(* Properties.                                                             *)

Access == [token : Token \cup {NoToken}, tag : Token \cup {NoToken},
           open : BOOLEAN, refs : 0 .. 1]

PageTypeOK ==
  /\ sequence \in Sequence
  /\ slotSeq \in [Slot -> Sequence]
  /\ stamp \in [Slot -> Sequence]
  /\ payload \in [Slot -> Sequence]
  /\ writing \in SUBSET Slot
  /\ quarantine \in SUBSET Slot
  /\ readers \in [Slot -> SUBSET Index]
  /\ access \in [Index -> Access]
  /\ shuttingDown \in BOOLEAN

PublisherTypeOK ==
  /\ record \in [Index -> Token \cup {NoToken}]
  /\ poisoned \in SUBSET Index
  /\ nextToken \in 1 .. MaxGeneration + 1
  /\ writerSlot \in Slot \cup {NoSlot}
  /\ pubPc \in PubPcs
  /\ pubOp \in PubOps
  /\ sweepAt \in Index
  /\ sweepDead \in BOOLEAN
  /\ sweepDone \in Sequence \cup {Lost}
  /\ claimAt \in Slot
  /\ claimed \in Slot \cup {NoSlot}

ConsumerTypeOK ==
  /\ index \in [Token -> Index]
  /\ pc \in [Token -> ConPcs]
  /\ closed \in [Token -> BOOLEAN]
  /\ closeReq \in [Token -> BOOLEAN]
  /\ observed \in [Token -> Sequence]
  /\ scanAt \in [Token -> Slot]
  /\ candidate \in [Token -> Slot \cup {NoSlot}]
  /\ newest \in [Token -> Sequence]
  /\ acquired \in [Token -> [Slot -> Sequence]]
  /\ released \in [Token -> SUBSET Slot]

GpuTypeOK ==
  /\ signals \in [Token -> SUBSET Sequence]
  /\ completed \in [Token -> Sequence]
  /\ reads \in [Token -> SUBSET (Slot \X Sequence)]

\* Every variable stays in its range; in particular a handle enters the gate
\* at most once at a time and leaves it as often (access_state's ref count).
TypeOK == PageTypeOK /\ PublisherTypeOK /\ ConsumerTypeOK /\ GpuTypeOK

\* A texture the GPU may still read for some consumer, dead or alive, is never
\* handed to the producer and still holds the frame that was acquired: the
\* lifetime rule claim_slot_locked and the sweep exist for.
NoOverwriteWhileRead ==
  \A g \in Token : \A r \in reads[g] :
    r[1] \notin writing /\ slotSeq[r[1]] = r[2]

\* A frame lease the application has not released is good: whatever order the
\* leases are released in, the done fence never covers one that is still held,
\* so its slot is not given away.
LeaseValid ==
  \A g \in Token : \A k \in Holding(g) \ released[g] :
    k \notin writing /\ slotSeq[k] = acquired[g][k]

\* When acquire_latest validates metadata it finds the metadata of the very
\* frame it selected, and a slot it does not hold yet: without outside
\* corruption the "recreate the bus" errors of acquire_latest cannot occur.
MetadataPaired ==
  \A g \in Token : pc[g] = "take" =>
    /\ stamp[candidate[g]] = newest[g]
    /\ payload[candidate[g]] = newest[g]
    /\ acquired[g][candidate[g]] = 0

GatePcs == {"scan", "cas", "check", "take", "undo", "leave", "leave_frame",
            "leave_close"}
InsideGate(g) == pc[g] \in GatePcs

\* While a live consumer is between enter_consumer_access and
\* leave_consumer_access, its index is not reclaimed or given to another one,
\* and the page counts it: the shared bit it sets and clears is its own.
GateProtectsIndex ==
  \A g \in Token : InsideGate(g) =>
    /\ pubPc # "exited" => record[index[g]] = g
    /\ access[index[g]].token = g
    /\ access[index[g]].refs = 1

\* The shared reader bit, or the quarantine that replaces it, protects a texture
\* until the publisher's view of the done fence passes the frame.
ReaderBitHeld ==
  pubPc # "exited" => \A g \in Token : \A r \in reads[g] :
    r[1] \in quarantine \/ index[g] \in readers[r[1]]

BusOver == shuttingDown \/ pubPc \in {"destroyed", "exited"}

\* With applications that do their part no reader bit stays for ever: the
\* frame's fence is signalled and swept, or its consumer is gone and the slot is
\* quarantined, unless the bus ends first.
ReaderBitsDrain ==
  ApplicationFairness =>
    \A k \in Slot, i \in Index :
      i \in readers[k] ~> (i \notin readers[k] \/ BusOver)

\* Likewise, the index of a consumer that has exited, closed or been
\* unregistered becomes free for another registration: no lost gate count or bit
\* pins it.
IndexReclaimed ==
  ApplicationFairness =>
    \A g \in Token :
      /\ record[index[g]] = g
      /\ pc[g] # "none"
      /\ ~Alive(g) \/ ~access[index[g]].open
      ~> record[index[g]] # g \/ BusOver

InAcquire(g) == pc[g] = "loop" \/ InsideGate(g)

\* A waiting acquire_latest gives up once the handle is asked to close, its gate
\* is closed, or the publisher is gone, even when it is never told to time out.
AcquireStops ==
  \A g \in Token :
    /\ InAcquire(g)
    /\ closeReq[g] \/ BusOver \/ ~access[index[g]].open
    ~> ~InAcquire(g)

-----------------------------------------------------------------------------
(* The promise to the applications.                                        *)

\* The frame a slot shows: none while it is being written.
Shown == [k \in Slot |-> IF k \in writing THEN 0 ELSE slotSeq[k]]

\* The newest frame shown so far: a number that has been stored but whose slot
\* has not been let go of is still to be shown.
ShownSequence ==
  IF \E k \in writing : slotSeq[k] # 0 THEN sequence - 1 ELSE sequence

\* The frame leases the application of g has not released.
Held(g) == {<<k, acquired[g][k]>> : k \in Holding(g) \ released[g]}

Living == [g \in Token |-> Alive(g)]
Leases == [g \in Token |-> Held(g)]

Exchange == INSTANCE FrameExchange WITH
  Consumer <- Token,
  published <- ShownSequence,
  content <- Shown,
  live <- Living,
  last <- observed,
  leases <- Leases

\* The bus is a frame exchange: with every ownership word, gate, sweep and fence
\* hidden, each of its steps is one a frame exchange may take, or none.  In
\* particular every consumer acquires newer and newer frames, each whole, and
\* the fence never finishes a frame whose lease the application still holds.
Exchanges == Exchange!Spec
=============================================================================
