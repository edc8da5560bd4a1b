-------------------------- MODULE MCSharedFrameBus --------------------------
(***************************************************************************)
(* Instances of SharedFrameBus for TLC.                                    *)
(***************************************************************************)
EXTENDS SharedFrameBus

\* Every index is registered and its handle is open: the state after
\* MaxConsumers calls of register_consumer and open on a new bus.  The runs that
\* start here spend their states on the frames.
OpenInit ==
  /\ MaxGeneration >= MaxConsumers
  /\ sequence = 0
  /\ slotSeq = [k \in Slot |-> 0]
  /\ stamp = [k \in Slot |-> 0]
  /\ payload = [k \in Slot |-> 0]
  /\ writing = {}
  /\ quarantine = {}
  /\ readers = [k \in Slot |-> {}]
  /\ access = [i \in Index |->
       [token |-> i + 1, tag |-> i + 1, open |-> TRUE, refs |-> 0]]
  /\ shuttingDown = FALSE
  /\ record = [i \in Index |-> i + 1]
  /\ poisoned = {}
  /\ nextToken = MaxConsumers + 1
  /\ writerSlot = NoSlot
  /\ pubPc = "idle"
  /\ pubOp = "none"
  /\ sweepAt = 0
  /\ sweepDead = FALSE
  /\ sweepDone = 0
  /\ claimAt = 0
  /\ claimed = NoSlot
  /\ index = [g \in Token |-> IF g <= MaxConsumers THEN g - 1 ELSE 0]
  /\ pc = [g \in Token |-> IF g <= MaxConsumers THEN "idle" ELSE "none"]
  /\ closed = [g \in Token |-> FALSE]
  /\ closeReq = [g \in Token |-> FALSE]
  /\ observed = [g \in Token |-> 0]
  /\ scanAt = [g \in Token |-> 0]
  /\ candidate = [g \in Token |-> NoSlot]
  /\ newest = [g \in Token |-> 0]
  /\ acquired = [g \in Token |-> [k \in Slot |-> 0]]
  /\ released = [g \in Token |-> {}]
  /\ signals = [g \in Token |-> {}]
  /\ completed = [g \in Token |-> 0]
  /\ reads = [g \in Token |-> {}]

\* Publishing and reading with every consumer registered; no write is given up.
FrameNext ==
  \/ BeginPublish
  \/ CommitStore
  \/ PublisherStep
  \/ \E g \in Token :
       \/ AcquireCall(g)
       \/ ConsumerStep(g)
       \/ ConsumerRelease(g)
       \/ ConsumerFault(g)
       \/ GpuSignal(g)

FrameSpec == OpenInit /\ [][FrameNext]_vars

\* The same with consumers that are unregistered, and their index given to a
\* new one, while they work; nobody times out or gives up a write.
ReuseNext ==
  \/ BeginPublish
  \/ CommitStore
  \/ PublisherStep
  \/ BeginRegister
  \/ \E g \in Token :
       \/ UnregisterClose(g)
       \/ UnregisterSweep(g)
       \/ OpenConsumer(g)
       \/ AcquireCall(g)
       \/ ConsumerStep(g)
       \/ ConsumerRelease(g)
       \/ \E k \in Slot : ReleaseFails(g, k)
       \/ GpuSignal(g)

ReuseSpec == OpenInit /\ [][ReuseNext]_vars
=============================================================================
