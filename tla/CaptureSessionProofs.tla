------------------------ MODULE CaptureSessionProofs ------------------------
(***************************************************************************)
(* Proof that a leased frame of a CPU session is the caller's alone, for   *)
(* any number of slots, threads, frames and images, provided that no       *)
(* thread captures by itself while another may start the worker; and, with *)
(* no such proviso, that dirty regions are complete and no wakeup is       *)
(* missed.                                                                 *)
(***************************************************************************)
EXTENDS CaptureSession, TLAPS

Processes == Threads \cup {Worker}
Pictures == Images \cup {NoImage}
Places == {"idle", "free", "steal", "write", "captured", "failed", "nobuffer",
           "start", "nothread", "join", "acquire", "discard", "leave",
           "begin", "loop", "lock", "end", "clear", "done"}

SlotType == [state : {"free", "writing", "ready", "reading"},
             generation : Nat, image : Pictures, base : Nat, dirty : BOOLEAN]
WriteType == [slot : Nat, preserve : BOOLEAN, oldest : Nat,
              generation : Nat, attempt : Nat]
LeaseType == {NoFrame}
                \cup [sequence : Nat, slot : Slots, image : Pictures]

TypeInv ==
    /\ slot \in [Slots -> SlotType]
    /\ sequence \in Nat /\ baseline \in Pictures /\ cleared \in Nat
    /\ pc \in [Processes -> Places]
    /\ at \in [Processes -> Nat]
    /\ write \in WriteType
    /\ lease \in [Threads -> LeaseType]

\* Where a thread or the worker holds producer_mutex_, and where it has a
\* slot to write.
Producing == {"free", "steal", "write", "captured", "failed", "nobuffer"}
Writing == {"write", "captured", "failed"}

\* One producer at a time, and its slot is marked.
ProducerInv ==
    \A p \in Processes :
        /\ pc[p] \in Producing => producer = p
        /\ pc[p] = "steal" => write.oldest \in Slots
        /\ pc[p] \in Writing =>
              write.slot \in Slots /\ Has(write.slot, "writing")

\* While the worker runs no thread captures by itself; while a thread is in
\* start there is no worker.
WorkerAlive == pc[Worker] \notin {"idle", "done"}
WorkerInv ==
    /\ WorkerAlive => running
    /\ pc[Worker] # "idle" => joinable
    /\ pc[Worker] \notin {"start", "nothread", "join"}
    /\ \A t \in Threads :
          /\ pc[t] \in Producing => "capture" \in Calls[t] /\ ~WorkerAlive
          /\ pc[t] \in {"start", "nothread"} =>
                control = t /\ "start" \in Calls[t] /\ pc[Worker] = "idle"
          /\ pc[t] = "join" => control = t

\* What the worker frees at its end is nobody's.
ClearInv == pc[Worker] = "clear" =>
                at[Worker] \in Slots /\ Has(at[Worker], "writing")

\* Nobody else has the slot of a lease.
LeaseInv ==
    /\ LeaseIntact
    /\ \A t, u \in Threads :
          /\ lease[t] # NoFrame /\ lease[u] # NoFrame
          /\ lease[t].slot = lease[u].slot
          => t = u

IInv == TypeInv /\ ProducerInv /\ WorkerInv /\ ClearInv /\ LeaseInv

-----------------------------------------------------------------------------
(* Lemmas about the steps' common forms.                                   *)

\* A slot's new state.
LEMMA StateSet ==
  ASSUME TypeInv, NEW i \in Slots,
         NEW s \in {"free", "writing", "ready", "reading"}, SetState(i, s)
  PROVE  /\ slot' \in [Slots -> SlotType]
         /\ slot'[i] = [slot[i] EXCEPT !.state = s]
         /\ slot'[i].state = s
         /\ slot'[i].generation = slot[i].generation
         /\ slot'[i].image = slot[i].image
         /\ \A j \in Slots : j # i => slot'[j] = slot[j]
  <1>1. slot[i] \in SlotType
    BY DEF TypeInv
  <1>2. [slot[i] EXCEPT !.state = s] \in SlotType
    BY <1>1 DEF SlotType
  <1>3. slot' = [slot EXCEPT ![i] = [slot[i] EXCEPT !.state = s]]
    BY DEF SetState
  <1>. HIDE DEF SlotType
  <1>4. /\ slot' \in [Slots -> SlotType]
        /\ slot'[i] = [slot[i] EXCEPT !.state = s]
        /\ \A j \in Slots : j # i => slot'[j] = slot[j]
    BY <1>2, <1>3 DEF TypeInv
  <1>. QED
    BY <1>1, <1>4 DEF SlotType

\* The same of a slot that is found in the state `old`.
LEMMA StateLeft ==
  ASSUME TypeInv, NEW i \in Slots, NEW old, Has(i, old),
         NEW s \in {"free", "writing", "ready", "reading"}, SetState(i, s)
  PROVE  /\ slot' \in [Slots -> SlotType]
         /\ slot'[i].state = s
         /\ \A j \in Slots : j # i => slot'[j] = slot[j]
         /\ \A j \in Slots : ~Has(j, old) => slot'[j] = slot[j]
  <1>1. /\ slot' \in [Slots -> SlotType]
        /\ slot'[i] = [slot[i] EXCEPT !.state = s]
        /\ slot'[i].state = s
        /\ slot'[i].generation = slot[i].generation
        /\ slot'[i].image = slot[i].image
        /\ \A j \in Slots : j # i => slot'[j] = slot[j]
    BY StateSet
  <1>. QED
    BY <1>1

\* Leases stay what they are while nobody touches a slot being read.
LEMMA LeaseTaken ==
  ASSUME TypeInv, LeaseInv, NEW t \in Threads, NEW i \in Slots, NEW n \in Nat,
         ~Has(i, "reading"),
         lease' = [lease EXCEPT ![t] = [sequence |-> n, slot |-> i,
                                        image |-> slot[i].image]],
         slot'[i].state = "reading", slot'[i].generation = n,
         slot'[i].image = slot[i].image,
         \A j \in Slots : j # i => slot'[j] = slot[j]
  PROVE  lease' \in [Threads -> LeaseType] /\ LeaseInv'
  <1>1. \A u \in Threads : lease[u] # NoFrame =>
            /\ lease[u].slot \in Slots
            /\ Has(lease[u].slot, "reading") /\ lease[u].slot # i
    BY DEF TypeInv, LeaseType, LeaseInv, LeaseIntact, Leased
  <1>2. slot[i].image \in Pictures
    BY DEF TypeInv, SlotType
  <1>3. lease' \in [Threads -> LeaseType]
    BY <1>2 DEF TypeInv, LeaseType
  <1>. QED
    BY <1>1, <1>3 DEF TypeInv, LeaseInv, LeaseIntact, Leased, Has, GenerationOf

\* A slot index is a number.
LEMMA SlotsNat == Slots \subseteq Nat
  BY SessionAssumption DEF Slots

\* What FindOldest leaves in write is well typed.
LEMMA ScanRemembered ==
  ASSUME write \in WriteType, NEW i \in Nat, NEW g \in Nat
  PROVE  [write EXCEPT !.oldest = i, !.generation = g,
                       !.attempt = @ + 1] \in WriteType
  <1>1. write.attempt + 1 \in Nat
    BY DEF WriteType
  <1>. QED
    BY <1>1 DEF WriteType

\* A lease that is given back leaves the others intact.
LEMMA LeaseReturned ==
  ASSUME TypeInv, LeaseInv, NEW t \in Threads, lease[t] # NoFrame,
         lease' = [lease EXCEPT ![t] = NoFrame],
         \A j \in Slots : j # lease[t].slot => slot'[j] = slot[j]
  PROVE  lease' \in [Threads -> LeaseType] /\ LeaseInv'
  <1>1. lease' \in [Threads -> LeaseType]
    BY DEF TypeInv, LeaseType
  <1>2. \A u \in Threads : lease[u] # NoFrame => lease[u].slot \in Slots
    BY DEF TypeInv, LeaseType
  <1>3. \A u \in Threads : lease'[u] # NoFrame =>
            /\ u # t /\ lease[u] # NoFrame /\ lease'[u] = lease[u]
    BY DEF TypeInv
  <1>4. \A u \in Threads : lease[u] # NoFrame /\ u # t =>
            lease[u].slot # lease[t].slot
    BY DEF LeaseInv
  <1>5. \A u \in Threads : lease'[u] # NoFrame =>
            slot'[lease[u].slot] = slot[lease[u].slot]
    BY <1>2, <1>3, <1>4
  <1>. QED
    BY <1>1, <1>3, <1>5
    DEF LeaseInv, LeaseIntact, Leased, Has, GenerationOf

\* A step that touches no slot being read leaves the leases intact.
LEMMA LeasesKept ==
  ASSUME TypeInv, LeaseInv, lease' = lease,
         \A j \in Slots : Has(j, "reading") => slot'[j] = slot[j]
  PROVE  LeaseInv'
  <1>1. \A t \in Threads : lease[t] # NoFrame => lease[t].slot \in Slots
    BY DEF TypeInv, LeaseType
  <1>. QED
    BY <1>1 DEF LeaseInv, LeaseIntact, Leased, Has, GenerationOf

-----------------------------------------------------------------------------
(* Each step preserves the invariant.                                      *)

\* capture() finds no worker running, and takes producer_mutex_.
LEMMA EnterCaptureInv ==
  ASSUME IInv, NEW t \in Threads, EnterCapture(t)
  PROVE  IInv'
  <1>. USE SessionAssumption DEF IInv, EnterCapture, Goto, frameVars,
      lifeVars, callVars, produceVars
  <1>1. TypeInv'
    BY DEF TypeInv, Processes, Places
  <1>2. ProducerInv'
    BY DEF Nobody, Worker, TypeInv, ProducerInv, Processes, Producing,
        Writing, Has, WriteType
  <1>3. WorkerInv'
    BY DEF TypeInv, ProducerInv, WorkerInv, WorkerAlive, Processes, Producing
  <1>4. ClearInv'
    BY DEF TypeInv, WorkerInv, ClearInv, WorkerAlive, Processes, Producing, Has
  <1>5. LeaseInv'
    BY LeasesKept DEF Has
  <1>. QED
    BY <1>1, <1>2, <1>3, <1>4, <1>5

\* start() takes control_mutex_ when there is no worker.
LEMMA EnterStartInv ==
  ASSUME IInv, NEW t \in Threads, EnterStart(t)
  PROVE  IInv'
  <1>. USE SessionAssumption DEF IInv, EnterStart, Goto, frameVars,
      lifeVars, callVars, produceVars
  <1>1. TypeInv'
    BY DEF TypeInv, Processes, Places
  <1>2. ProducerInv'
    BY DEF TypeInv, ProducerInv, Processes, Producing, Writing, Has, WriteType
  <1>3. WorkerInv'
    BY DEF Nobody, Worker, TypeInv, ProducerInv, WorkerInv, WorkerAlive,
        Processes, Producing
  <1>4. ClearInv'
    BY DEF TypeInv, WorkerInv, ClearInv, WorkerAlive, Processes, Producing, Has
  <1>5. LeaseInv'
    BY LeasesKept DEF Has
  <1>. QED
    BY <1>1, <1>2, <1>3, <1>4, <1>5

\* By OneController no thread is capturing when the worker is born.
LEMMA LaunchInv ==
  ASSUME IInv, NEW t \in Threads, Launch(t), OneController
  PROVE  IInv'
  <1>. USE SessionAssumption DEF IInv, Launch, Goto, frameVars, lifeVars,
      callVars, produceVars
  <1>1. TypeInv'
    BY DEF TypeInv, Processes, Places
  <1>2. ProducerInv'
    BY DEF TypeInv, ProducerInv, Processes, Producing, Writing, Has, WriteType
  <1>3. WorkerInv'
    BY OneController DEF TypeInv, ProducerInv, WorkerInv, WorkerAlive,
        OneController, Processes, Producing
  <1>4. ClearInv'
    BY DEF TypeInv, WorkerInv, ClearInv, WorkerAlive, Processes, Producing, Has
  <1>5. LeaseInv'
    BY LeasesKept DEF Has
  <1>. QED
    BY <1>1, <1>2, <1>3, <1>4, <1>5

\* No thread could be made.
LEMMA LaunchFailedInv ==
  ASSUME IInv, NEW t \in Threads, LaunchFailed(t)
  PROVE  IInv'
  <1>. USE SessionAssumption DEF IInv, LaunchFailed, Goto, frameVars,
      lifeVars, callVars, produceVars
  <1>1. TypeInv'
    BY DEF TypeInv, Processes, Places
  <1>2. ProducerInv'
    BY DEF TypeInv, ProducerInv, Processes, Producing, Writing, Has, WriteType
  <1>3. WorkerInv'
    BY DEF TypeInv, ProducerInv, WorkerInv, WorkerAlive, Processes, Producing
  <1>4. ClearInv'
    BY DEF TypeInv, WorkerInv, ClearInv, WorkerAlive, Processes, Producing, Has
  <1>5. LeaseInv'
    BY LeasesKept DEF Has
  <1>. QED
    BY <1>1, <1>2, <1>3, <1>4, <1>5

\* stop() takes control_mutex_.
LEMMA EnterStopInv ==
  ASSUME IInv, NEW t \in Threads, EnterStop(t)
  PROVE  IInv'
  <1>. USE SessionAssumption DEF IInv, EnterStop, Goto, frameVars,
      lifeVars, callVars, produceVars
  <1>1. TypeInv'
    BY DEF TypeInv, Processes, Places
  <1>2. ProducerInv'
    BY DEF TypeInv, ProducerInv, Processes, Producing, Writing, Has, WriteType
  <1>3. WorkerInv'
    BY DEF Nobody, Worker, TypeInv, ProducerInv, WorkerInv, WorkerAlive,
        Processes, Producing
  <1>4. ClearInv'
    BY DEF TypeInv, WorkerInv, ClearInv, WorkerAlive, Processes, Producing, Has
  <1>5. LeaseInv'
    BY LeasesKept DEF Has
  <1>. QED
    BY <1>1, <1>2, <1>3, <1>4, <1>5

\* stop() joins a worker that has ended.
LEMMA JoinInv ==
  ASSUME IInv, NEW t \in Threads, Join(t)
  PROVE  IInv'
  <1>. USE SessionAssumption DEF IInv, Join, Goto, frameVars, lifeVars,
      callVars, produceVars
  <1>1. TypeInv'
    BY DEF TypeInv, Processes, Places
  <1>2. ProducerInv'
    BY DEF TypeInv, ProducerInv, Processes, Producing, Writing, Has, WriteType
  <1>3. WorkerInv'
    BY DEF TypeInv, ProducerInv, WorkerInv, WorkerAlive, Processes, Producing
  <1>4. ClearInv'
    BY DEF TypeInv, WorkerInv, ClearInv, WorkerAlive, Processes, Producing, Has
  <1>5. LeaseInv'
    BY LeasesKept DEF Has
  <1>. QED
    BY <1>1, <1>2, <1>3, <1>4, <1>5

\* acquire_latest() is counted.
LEMMA EnterAcquireInv ==
  ASSUME IInv, NEW t \in Threads, EnterAcquire(t)
  PROVE  IInv'
  <1>. USE SessionAssumption DEF IInv, EnterAcquire, Goto, frameVars,
      lifeVars, callVars, produceVars
  <1>1. TypeInv'
    BY DEF TypeInv, Processes, Places
  <1>2. ProducerInv'
    BY DEF TypeInv, ProducerInv, Processes, Producing, Writing, Has, WriteType
  <1>3. WorkerInv'
    BY DEF TypeInv, ProducerInv, WorkerInv, WorkerAlive, Processes, Producing
  <1>4. ClearInv'
    BY DEF TypeInv, WorkerInv, ClearInv, WorkerAlive, Processes, Producing, Has
  <1>5. LeaseInv'
    BY LeasesKept DEF Has
  <1>. QED
    BY <1>1, <1>2, <1>3, <1>4, <1>5

\* acquire_latest() waits.
LEMMA SleepInv ==
  ASSUME IInv, NEW t \in Threads, Sleep(t)
  PROVE  IInv'
  <1>. USE SessionAssumption DEF IInv, Sleep, Goto, frameVars, lifeVars,
      callVars, produceVars
  <1>1. TypeInv'
    BY DEF TypeInv, Processes, Places
  <1>2. ProducerInv'
    BY DEF TypeInv, ProducerInv, Processes, Producing, Writing, Has, WriteType
  <1>3. WorkerInv'
    BY DEF TypeInv, ProducerInv, WorkerInv, WorkerAlive, Processes, Producing
  <1>4. ClearInv'
    BY DEF TypeInv, WorkerInv, ClearInv, WorkerAlive, Processes, Producing, Has
  <1>5. LeaseInv'
    BY LeasesKept DEF Has
  <1>. QED
    BY <1>1, <1>2, <1>3, <1>4, <1>5

\* acquire_latest() finds no session.
LEMMA NotRunningInv ==
  ASSUME IInv, NEW t \in Threads, NotRunning(t)
  PROVE  IInv'
  <1>. USE SessionAssumption DEF IInv, NotRunning, Goto, frameVars,
      lifeVars, callVars, produceVars
  <1>1. TypeInv'
    BY DEF TypeInv, Processes, Places
  <1>2. ProducerInv'
    BY DEF TypeInv, ProducerInv, Processes, Producing, Writing, Has, WriteType
  <1>3. WorkerInv'
    BY DEF TypeInv, ProducerInv, WorkerInv, WorkerAlive, Processes, Producing
  <1>4. ClearInv'
    BY DEF TypeInv, WorkerInv, ClearInv, WorkerAlive, Processes, Producing, Has
  <1>5. LeaseInv'
    BY LeasesKept DEF Has
  <1>. QED
    BY <1>1, <1>2, <1>3, <1>4, <1>5

\* acquire_latest() has waited long enough.
LEMMA TimedOutInv ==
  ASSUME IInv, NEW t \in Threads, TimedOut(t)
  PROVE  IInv'
  <1>. USE SessionAssumption DEF IInv, TimedOut, Goto, frameVars,
      lifeVars, callVars, produceVars
  <1>1. TypeInv'
    BY DEF TypeInv, Processes, Places
  <1>2. ProducerInv'
    BY DEF TypeInv, ProducerInv, Processes, Producing, Writing, Has, WriteType
  <1>3. WorkerInv'
    BY DEF TypeInv, ProducerInv, WorkerInv, WorkerAlive, Processes, Producing
  <1>4. ClearInv'
    BY DEF TypeInv, WorkerInv, ClearInv, WorkerAlive, Processes, Producing, Has
  <1>5. LeaseInv'
    BY LeasesKept DEF Has
  <1>. QED
    BY <1>1, <1>2, <1>3, <1>4, <1>5

\* acquire_latest() returns.
LEMMA LeaveAcquireInv ==
  ASSUME IInv, NEW t \in Threads, LeaveAcquire(t)
  PROVE  IInv'
  <1>. USE SessionAssumption DEF IInv, LeaveAcquire, Goto, frameVars,
      lifeVars, callVars, produceVars
  <1>1. TypeInv'
    BY DEF TypeInv, Processes, Places
  <1>2. ProducerInv'
    BY DEF TypeInv, ProducerInv, Processes, Producing, Writing, Has, WriteType
  <1>3. WorkerInv'
    BY DEF TypeInv, ProducerInv, WorkerInv, WorkerAlive, Processes, Producing
  <1>4. ClearInv'
    BY DEF TypeInv, WorkerInv, ClearInv, WorkerAlive, Processes, Producing, Has
  <1>5. LeaseInv'
    BY LeasesKept DEF Has
  <1>. QED
    BY <1>1, <1>2, <1>3, <1>4, <1>5

\* The worker has its screen DC, or ends.
LEMMA WorkerBeginsInv ==
  ASSUME IInv, WorkerBegins
  PROVE  IInv'
  <1>. USE SessionAssumption DEF IInv, WorkerBegins, Goto, frameVars,
      lifeVars, callVars, produceVars
  <1>1. TypeInv'
    BY DEF TypeInv, Processes, Places
  <1>2. ProducerInv'
    BY DEF TypeInv, ProducerInv, Processes, Producing, Writing, Has, WriteType
  <1>3. WorkerInv'
    BY DEF TypeInv, ProducerInv, WorkerInv, WorkerAlive, Processes, Producing
  <1>4. ClearInv'
    BY DEF TypeInv, WorkerInv, ClearInv, WorkerAlive, Processes, Producing, Has
  <1>5. LeaseInv'
    BY LeasesKept DEF Has
  <1>. QED
    BY <1>1, <1>2, <1>3, <1>4, <1>5

\* The worker begins a round.
LEMMA WorkerGoesOnInv ==
  ASSUME IInv, WorkerGoesOn
  PROVE  IInv'
  <1>. USE SessionAssumption DEF IInv, WorkerGoesOn, Goto, frameVars,
      lifeVars, callVars, produceVars
  <1>1. TypeInv'
    BY DEF TypeInv, Processes, Places
  <1>2. ProducerInv'
    BY DEF TypeInv, ProducerInv, Processes, Producing, Writing, Has, WriteType
  <1>3. WorkerInv'
    BY DEF TypeInv, ProducerInv, WorkerInv, WorkerAlive, Processes, Producing
  <1>4. ClearInv'
    BY DEF TypeInv, WorkerInv, ClearInv, WorkerAlive, Processes, Producing, Has
  <1>5. LeaseInv'
    BY LeasesKept DEF Has
  <1>. QED
    BY <1>1, <1>2, <1>3, <1>4, <1>5

\* The worker is told to stop.
LEMMA WorkerStopsInv ==
  ASSUME IInv, WorkerStops
  PROVE  IInv'
  <1>. USE SessionAssumption DEF IInv, WorkerStops, Goto, frameVars,
      lifeVars, callVars, produceVars
  <1>1. TypeInv'
    BY DEF TypeInv, Processes, Places
  <1>2. ProducerInv'
    BY DEF TypeInv, ProducerInv, Processes, Producing, Writing, Has, WriteType
  <1>3. WorkerInv'
    BY DEF TypeInv, ProducerInv, WorkerInv, WorkerAlive, Processes, Producing
  <1>4. ClearInv'
    BY DEF TypeInv, WorkerInv, ClearInv, WorkerAlive, Processes, Producing, Has
  <1>5. LeaseInv'
    BY LeasesKept DEF Has
  <1>. QED
    BY <1>1, <1>2, <1>3, <1>4, <1>5

\* The worker ends.
LEMMA WorkerEndsInv ==
  ASSUME IInv, WorkerEnds
  PROVE  IInv'
  <1>. USE SessionAssumption DEF IInv, WorkerEnds, Goto, frameVars,
      lifeVars, callVars, produceVars
  <1>1. TypeInv'
    BY DEF TypeInv, Processes, Places
  <1>2. ProducerInv'
    BY DEF TypeInv, ProducerInv, Processes, Producing, Writing, Has, WriteType
  <1>3. WorkerInv'
    BY DEF TypeInv, ProducerInv, WorkerInv, WorkerAlive, Processes, Producing
  <1>4. ClearInv'
    BY DEF TypeInv, WorkerInv, ClearInv, WorkerAlive, Processes, Producing, Has
  <1>5. LeaseInv'
    BY LeasesKept DEF Has
  <1>. QED
    BY <1>1, <1>2, <1>3, <1>4, <1>5

\* The worker reads the control word of a slot being written.
LEMMA WorkerLooksInv ==
  ASSUME IInv, WorkerLooks
  PROVE  IInv'
  <1>. USE SessionAssumption DEF IInv, WorkerLooks, Goto, frameVars,
      lifeVars, callVars, produceVars
  <1>1. TypeInv'
    BY DEF SlotType, Slots, GenerationOf, Has, TypeInv, Processes, Places
  <1>2. ProducerInv'
    BY DEF TypeInv, ProducerInv, Processes, Producing, Writing, Has, WriteType
  <1>3. WorkerInv'
    BY DEF TypeInv, ProducerInv, WorkerInv, WorkerAlive, Processes, Producing
  <1>4. ClearInv'
    BY DEF Slots, TypeInv, WorkerInv, ClearInv, WorkerAlive, Processes,
        Producing, Has
  <1>5. LeaseInv'
    BY LeasesKept DEF Has
  <1>. QED
    BY <1>1, <1>2, <1>3, <1>4, <1>5

\* The worker takes producer_mutex_.
LEMMA WorkerLocksInv ==
  ASSUME IInv, WorkerLocks
  PROVE  IInv'
  <1>. USE SessionAssumption DEF IInv, WorkerLocks, Goto, frameVars,
      lifeVars, callVars, produceVars
  <1>1. TypeInv'
    BY DEF NoWrite, WriteType, TypeInv, Processes, Places
  <1>2. ProducerInv'
    BY DEF Nobody, Worker, TypeInv, ProducerInv, Processes, Producing,
        Writing, Has, WriteType
  <1>3. WorkerInv'
    BY DEF TypeInv, ProducerInv, WorkerInv, WorkerAlive, Processes, Producing
  <1>4. ClearInv'
    BY DEF TypeInv, WorkerInv, ClearInv, WorkerAlive, Processes, Producing, Has
  <1>5. LeaseInv'
    BY LeasesKept DEF Has
  <1>. QED
    BY <1>1, <1>2, <1>3, <1>4, <1>5

\* The free slot that is found is the producer's.
LEMMA FindFreeInv ==
  ASSUME IInv, NEW p \in Processes, FindFree(p)
  PROVE  IInv'
  <1>. USE SessionAssumption DEF IInv, FindFree, Goto, frameVars,
      lifeVars, callVars, produceVars
  <1>0. /\ slot' \in [Slots -> SlotType]
        /\ \A j \in Slots : ~Has(j, "free") => slot'[j] = slot[j]
        /\ Has(at[p], "free") =>
              at[p] \in Slots /\ slot'[at[p]].state = "writing"
    <2>. CASE Has(at[p], "free")
      <3>1. at[p] \in Slots /\ SetState(at[p], "writing")
        BY DEF TypeInv, Processes, Slots
      <3>. QED
        BY <3>1, StateSet DEF Has
    <2>. CASE ~Has(at[p], "free")
      BY DEF TypeInv
    <2>. QED
      OBVIOUS
  <1>w. write' \in WriteType
    BY DEF WriteType, TypeInv, Processes
  <1>1. TypeInv'
    BY <1>0, <1>w DEF TypeInv, Processes, Places
  <1>2. ProducerInv'
    BY <1>0 DEF TypeInv, ProducerInv, Processes, Producing, Writing, Has,
        WriteType
  <1>3. WorkerInv'
    BY <1>0 DEF TypeInv, ProducerInv, WorkerInv, WorkerAlive, Processes,
        Producing
  <1>4. ClearInv'
    BY <1>0 DEF TypeInv, WorkerInv, ClearInv, WorkerAlive, Processes,
        Producing, Has
  <1>5. LeaseInv'
    BY <1>0, LeasesKept DEF Has
  <1>. QED
    BY <1>1, <1>2, <1>3, <1>4, <1>5

\* The oldest ready slot is only looked at.
LEMMA FindOldestInv ==
  ASSUME IInv, NEW p \in Processes, FindOldest(p)
  PROVE  IInv'
  <1>. USE SessionAssumption DEF IInv, FindOldest, Goto, frameVars,
      lifeVars, callVars, produceVars
  <1>0. /\ slot' = slot /\ Oldest \subseteq Slots
        /\ \A i \in Slots : GenerationOf(i) \in Nat
    BY DEF Oldest, Ready, TypeInv, SlotType, GenerationOf
  <1>w. write' \in WriteType
    <2>1. \/ write' = write
          \/ \E i \in Oldest :
                write' = [write EXCEPT !.oldest = i,
                                       !.generation = GenerationOf(i),
                                       !.attempt = @ + 1]
      OBVIOUS
    <2>2. write \in WriteType
      BY DEF TypeInv
    <2>3. \A i \in Oldest : i \in Nat /\ GenerationOf(i) \in Nat
      BY <1>0, SlotsNat
    <2>4. ASSUME NEW i \in Oldest,
                 write' = [write EXCEPT !.oldest = i,
                                        !.generation = GenerationOf(i),
                                        !.attempt = @ + 1]
          PROVE  write' \in WriteType
      BY <2>2, <2>3, <2>4, ScanRemembered
    <2>. HIDE DEF FindOldest
    <2>. QED
      BY <2>1, <2>2, <2>4
  <1>p. \E place \in {"steal", "nobuffer"} :
          /\ pc' = [pc EXCEPT ![p] = place]
          /\ place = "steal" => write'.oldest \in Slots
    <2>1. CASE pc' = [pc EXCEPT ![p] = "nobuffer"]
      BY <2>1
    <2>2. CASE pc' # [pc EXCEPT ![p] = "nobuffer"]
      <3>1. PICK i \in Oldest :
                write' = [write EXCEPT !.oldest = i,
                                       !.generation = GenerationOf(i),
                                       !.attempt = @ + 1]
        BY <2>2
      <3>2. write'.oldest = i
        BY <3>1 DEF TypeInv, WriteType
      <3>3. pc' = [pc EXCEPT ![p] = "steal"]
        BY <2>2
      <3>. QED
        BY <1>0, <3>2, <3>3
    <2>. QED
      BY <2>1, <2>2
  <1>q. /\ pc[p] = "free"
        /\ UNCHANGED <<producer, sequence, baseline, cleared, at, lease>>
    OBVIOUS
  <1>1. TypeInv'
    <2>. HIDE DEF FindOldest
    <2>. QED
      BY <1>0, <1>w, <1>p, <1>q DEF TypeInv, Processes, Places
  <1>2. ProducerInv'
    <2>. HIDE DEF FindOldest
    <2>1. PICK place \in {"steal", "nobuffer"} :
            /\ pc' = [pc EXCEPT ![p] = place]
            /\ place = "steal" => write'.oldest \in Slots
      BY <1>p
    <2>2. /\ pc'[p] = place
          /\ \A q \in Processes : q # p => pc'[q] = pc[q]
      BY <2>1 DEF TypeInv
    <2>3. \A q \in Processes : q # p => pc[q] \notin Producing
      BY <1>q DEF ProducerInv, Producing
    <2>4. /\ producer = p /\ producer' = producer
          /\ place \notin Writing /\ Writing \subseteq Producing
      BY <1>q, <2>1 DEF ProducerInv, Producing, Writing
    <2>. SUFFICES ASSUME NEW q \in Processes
                  PROVE  /\ pc'[q] \in Producing => producer' = q
                         /\ pc'[q] = "steal" => write'.oldest \in Slots
                         /\ pc'[q] \notin Writing
      BY DEF ProducerInv
    <2>5. CASE q = p
      BY <2>1, <2>2, <2>4, <2>5
    <2>6. CASE q # p
      <3>1. pc'[q] \notin Producing
        BY <2>2, <2>3, <2>6
      <3>. QED
        BY <2>4, <3>1 DEF Producing
    <2>. QED
      BY <2>5, <2>6
  <1>m. PICK place \in {"steal", "nobuffer"} : pc' = [pc EXCEPT ![p] = place]
    <2>. HIDE DEF FindOldest
    <2>. QED
      BY <1>p
  <1>u. UNCHANGED <<running, joinable, control>>
    OBVIOUS
  <1>3. WorkerInv'
    <2>. HIDE DEF FindOldest
    <2>. QED
      BY <1>q, <1>m, <1>u
      DEF TypeInv, WorkerInv, WorkerAlive, Processes, Producing
  <1>4. ClearInv'
    <2>. HIDE DEF FindOldest
    <2>. QED
      BY <1>0, <1>q, <1>m DEF TypeInv, ClearInv, Processes, Has
  <1>5. LeaseInv'
    BY <1>0, LeasesKept DEF Has
  <1>. QED
    BY <1>1, <1>2, <1>3, <1>4, <1>5

\* The slot is taken if it is still ready, with that generation.
LEMMA StealOldestInv ==
  ASSUME IInv, NEW p \in Processes, StealOldest(p)
  PROVE  IInv'
  <1>. USE SessionAssumption DEF IInv, StealOldest, Goto, frameVars,
      lifeVars, callVars, produceVars
  <1>0. /\ slot' \in [Slots -> SlotType]
        /\ \A j \in Slots : ~Has(j, "ready") => slot'[j] = slot[j]
        /\ write.oldest \in Slots
        /\ Has(write.oldest, "ready")
              /\ GenerationOf(write.oldest) = write.generation
              => slot'[write.oldest].state = "writing"
    <2>1. write.oldest \in Slots
      BY DEF ProducerInv
    <2>2. CASE /\ Has(write.oldest, "ready")
               /\ GenerationOf(write.oldest) = write.generation
      <3>1. SetState(write.oldest, "writing")
        BY <2>2
      <3>. HIDE DEF StealOldest
      <3>. QED
        BY <2>1, <2>2, <3>1, StateLeft
    <2>3. CASE ~(/\ Has(write.oldest, "ready")
                 /\ GenerationOf(write.oldest) = write.generation)
      <3>1. slot' = slot
        BY <2>3
      <3>. HIDE DEF StealOldest
      <3>. QED
        BY <2>1, <2>3, <3>1 DEF TypeInv
    <2>. QED
      BY <2>2, <2>3
  <1>p. \/ /\ pc' = [pc EXCEPT ![p] = "write"]
           /\ write' = [write EXCEPT !.slot = write.oldest]
           /\ slot'[write.oldest].state = "writing"
        \/ pc' = [pc EXCEPT ![p] = "free"] /\ write' = write
    BY <1>0
  <1>q. /\ pc[p] = "steal"
        /\ UNCHANGED <<producer, sequence, baseline, cleared, at, lease>>
    OBVIOUS
  <1>w. /\ write' \in WriteType
        /\ pc' # [pc EXCEPT ![p] = "free"] => write'.slot = write.oldest
    <2>1. write \in WriteType /\ write.oldest \in Nat
      BY <1>0, SlotsNat DEF TypeInv
    <2>. HIDE DEF StealOldest
    <2>. QED
      BY <1>p, <2>1 DEF WriteType
  <1>1. TypeInv'
    <2>. HIDE DEF StealOldest
    <2>1. pc' \in [Processes -> Places]
      BY <1>p, <1>q DEF TypeInv, Processes, Places
    <2>. QED
      BY <1>0, <1>w, <1>q, <2>1 DEF TypeInv
  <1>2. ProducerInv'
    <2>. HIDE DEF StealOldest
    <2>1. PICK place \in {"write", "free"} :
            /\ pc' = [pc EXCEPT ![p] = place]
            /\ place = "write" => /\ write'.slot \in Slots
                                  /\ slot'[write'.slot].state = "writing"
      <3>1. CASE pc' = [pc EXCEPT ![p] = "free"]
        BY <3>1
      <3>2. CASE pc' # [pc EXCEPT ![p] = "free"]
        BY <1>0, <1>p, <1>w, <3>2
      <3>. QED
        BY <3>1, <3>2
    <2>2. /\ pc'[p] = place
          /\ \A q \in Processes : q # p => pc'[q] = pc[q]
      BY <2>1 DEF TypeInv
    <2>3. \A q \in Processes : q # p => pc[q] \notin Producing
      BY <1>q DEF ProducerInv, Producing
    <2>. QED
      BY <1>q, <2>1, <2>2, <2>3 DEF ProducerInv, Producing, Writing, Has
  <1>3. WorkerInv'
    BY <1>0 DEF TypeInv, ProducerInv, WorkerInv, WorkerAlive, Processes,
        Producing
  <1>4. ClearInv'
    BY <1>0 DEF TypeInv, WorkerInv, ClearInv, WorkerAlive, Processes,
        Producing, Has
  <1>5. LeaseInv'
    BY <1>0, LeasesKept DEF Has
  <1>. QED
    BY <1>1, <1>2, <1>3, <1>4, <1>5

\* capture() has failed and gives its slot back.
LEMMA GiveUpInv ==
  ASSUME IInv, NEW p \in Threads, GiveUp(p, "idle")
  PROVE  IInv'
  <1>. USE SessionAssumption DEF IInv, GiveUp, Goto, frameVars, lifeVars,
      callVars, produceVars
  <1>0. /\ slot' \in [Slots -> SlotType]
        /\ \A j \in Slots : ~Has(j, "writing") => slot'[j] = slot[j]
    <2>1. CASE pc[p] = "failed"
      <3>1. /\ write.slot \in Slots /\ Has(write.slot, "writing")
            /\ SetState(write.slot, "free")
        BY <2>1 DEF ProducerInv, Processes, Writing
      <3>. HIDE DEF GiveUp
      <3>. QED
        BY <3>1, StateLeft
    <2>2. CASE pc[p] # "failed"
      BY <2>2 DEF TypeInv
    <2>. QED
      BY <2>1, <2>2
  <1>w. write' \in WriteType
    BY DEF WriteType, NoWrite
  <1>1. TypeInv'
    BY <1>0, <1>w DEF TypeInv, Processes, Places
  <1>2. ProducerInv'
    BY <1>0 DEF Nobody, Worker, TypeInv, ProducerInv, Processes,
        Producing, Writing, Has, WriteType
  <1>3. WorkerInv'
    BY <1>0 DEF TypeInv, ProducerInv, WorkerInv, WorkerAlive, Processes,
        Producing
  <1>4. ClearInv'
    BY <1>0 DEF TypeInv, WorkerInv, ClearInv, WorkerAlive, Processes,
        Producing, Has
  <1>5. LeaseInv'
    BY <1>0, LeasesKept DEF Has
  <1>. QED
    BY <1>1, <1>2, <1>3, <1>4, <1>5

\* The worker's capture has failed.
LEMMA WorkerGiveUpInv ==
  ASSUME IInv, GiveUp(Worker, "loop")
  PROVE  IInv'
  <1>. USE SessionAssumption DEF IInv, GiveUp, Goto, frameVars, lifeVars,
      callVars, produceVars
  <1>0. /\ slot' \in [Slots -> SlotType]
        /\ \A j \in Slots : ~Has(j, "writing") => slot'[j] = slot[j]
    <2>1. CASE pc[Worker] = "failed"
      <3>1. /\ write.slot \in Slots /\ Has(write.slot, "writing")
            /\ SetState(write.slot, "free")
        BY <2>1 DEF ProducerInv, Processes, Writing
      <3>. HIDE DEF GiveUp
      <3>. QED
        BY <3>1, StateLeft
    <2>2. CASE pc[Worker] # "failed"
      BY <2>2 DEF TypeInv
    <2>. QED
      BY <2>1, <2>2
  <1>w. write' \in WriteType
    BY DEF WriteType, NoWrite
  <1>1. TypeInv'
    BY <1>0, <1>w DEF TypeInv, Processes, Places
  <1>2. ProducerInv'
    BY <1>0 DEF Nobody, Worker, TypeInv, ProducerInv, Processes,
        Producing, Writing, Has, WriteType
  <1>3. WorkerInv'
    BY <1>0 DEF TypeInv, ProducerInv, WorkerInv, WorkerAlive, Processes,
        Producing
  <1>4. ClearInv'
    BY <1>0 DEF TypeInv, WorkerInv, ClearInv, WorkerAlive, Processes,
        Producing, Has
  <1>5. LeaseInv'
    BY <1>0, LeasesKept DEF Has
  <1>. QED
    BY <1>1, <1>2, <1>3, <1>4, <1>5

\* capture() throws, and its slot stays marked.
LEMMA ThrowsInv ==
  ASSUME IInv, NEW p \in Threads, Throws(p, "idle")
  PROVE  IInv'
  <1>. USE SessionAssumption DEF IInv, Throws, Goto, frameVars, lifeVars,
      callVars, produceVars
  <1>0. write' \in WriteType
    BY DEF WriteType, NoWrite
  <1>1. TypeInv'
    BY <1>0 DEF TypeInv, Processes, Places
  <1>2. ProducerInv'
    BY <1>0 DEF Nobody, Worker, TypeInv, ProducerInv, Processes,
        Producing, Writing, Has, WriteType
  <1>3. WorkerInv'
    BY <1>0 DEF TypeInv, ProducerInv, WorkerInv, WorkerAlive, Processes,
        Producing
  <1>4. ClearInv'
    BY <1>0 DEF TypeInv, WorkerInv, ClearInv, WorkerAlive, Processes,
        Producing, Has
  <1>5. LeaseInv'
    BY <1>0, LeasesKept DEF Has
  <1>. QED
    BY <1>1, <1>2, <1>3, <1>4, <1>5

\* The worker's capture throws.
LEMMA WorkerThrowsInv ==
  ASSUME IInv, Throws(Worker, "end")
  PROVE  IInv'
  <1>. USE SessionAssumption DEF IInv, Throws, Goto, frameVars, lifeVars,
      callVars, produceVars
  <1>0. write' \in WriteType
    BY DEF WriteType, NoWrite
  <1>1. TypeInv'
    BY <1>0 DEF TypeInv, Processes, Places
  <1>2. ProducerInv'
    BY <1>0 DEF Nobody, Worker, TypeInv, ProducerInv, Processes,
        Producing, Writing, Has, WriteType
  <1>3. WorkerInv'
    BY <1>0 DEF TypeInv, ProducerInv, WorkerInv, WorkerAlive, Processes,
        Producing
  <1>4. ClearInv'
    BY <1>0 DEF TypeInv, WorkerInv, ClearInv, WorkerAlive, Processes,
        Producing, Has
  <1>5. LeaseInv'
    BY <1>0, LeasesKept DEF Has
  <1>. QED
    BY <1>1, <1>2, <1>3, <1>4, <1>5

\* Pixels go to the producer's slot, which nobody reads.
LEMMA CaptureIntoInv ==
  ASSUME IInv, NEW p \in Processes, CaptureInto(p)
  PROVE  IInv'
  <1>. USE SessionAssumption DEF IInv, CaptureInto, Goto, frameVars,
      lifeVars, callVars, produceVars
  <1>0. /\ slot' \in [Slots -> SlotType]
        /\ \A j \in Slots : ~Has(j, "writing") => slot'[j] = slot[j]
        /\ write.slot \in Slots /\ slot'[write.slot].state = "writing"
    <2>1. PICK image \in Images :
             IF sequence < MaxSequence
             THEN slot' = [slot EXCEPT ![write.slot].image = image,
                                       ![write.slot].base = BaseOf,
                                       ![write.slot].dirty = baseline # image]
             ELSE slot' = [slot EXCEPT ![write.slot].image = NoImage]
      OBVIOUS
    <2>2. write.slot \in Slots /\ Has(write.slot, "writing")
      BY DEF ProducerInv, Writing
    <2>3. BaseOf \in Nat /\ (baseline # image) \in BOOLEAN
      BY DEF BaseOf, TypeInv
    <2>4. slot[write.slot] \in SlotType
      BY <2>2 DEF TypeInv
    <2>. DEFINE s == slot[write.slot]
    <2>5. /\ [s EXCEPT !.image = image, !.base = BaseOf,
                       !.dirty = baseline # image] \in SlotType
          /\ [s EXCEPT !.image = NoImage] \in SlotType
      BY <2>3, <2>4 DEF SlotType, Pictures
    <2>6. \/ slot' = [slot EXCEPT ![write.slot] =
                     [s EXCEPT !.image = image, !.base = BaseOf,
                               !.dirty = baseline # image]]
          \/ slot' = [slot EXCEPT ![write.slot] = [s EXCEPT !.image = NoImage]]
      BY <2>1
    <2>7. s.state = "writing"
      BY <2>2 DEF Has
    <2>8. PICK r \in SlotType :
             r.state = "writing" /\ slot' = [slot EXCEPT ![write.slot] = r]
      <3>1. [s EXCEPT !.image = image, !.base = BaseOf,
                      !.dirty = baseline # image].state = "writing"
        BY <2>4, <2>7 DEF SlotType
      <3>2. [s EXCEPT !.image = NoImage].state = "writing"
        BY <2>4, <2>7 DEF SlotType
      <3>. HIDE DEF CaptureInto, s
      <3>. QED
        BY <3>1, <3>2, <2>5, <2>6
    <2>. HIDE DEF CaptureInto
    <2>. QED
      BY <2>2, <2>8 DEF TypeInv, Has
  <1>v. sequence' \in Nat /\ baseline' \in Pictures
    BY DEF TypeInv, Pictures
  <1>1. TypeInv'
    BY <1>0, <1>v DEF TypeInv, Processes, Places
  <1>2. ProducerInv'
    BY <1>0 DEF TypeInv, ProducerInv, Processes, Producing, Writing, Has,
        WriteType
  <1>3. WorkerInv'
    BY <1>0 DEF TypeInv, ProducerInv, WorkerInv, WorkerAlive, Processes,
        Producing
  <1>4. ClearInv'
    BY <1>0 DEF TypeInv, WorkerInv, ClearInv, WorkerAlive, Processes,
        Producing, Has
  <1>5. LeaseInv'
    BY <1>0, LeasesKept DEF Has
  <1>. QED
    BY <1>1, <1>2, <1>3, <1>4, <1>5

\* A failed capture spoils only the producer's slot.
LEMMA CaptureFailsInv ==
  ASSUME IInv, NEW p \in Processes, CaptureFails(p)
  PROVE  IInv'
  <1>. USE SessionAssumption DEF IInv, CaptureFails, Goto, frameVars,
      lifeVars, callVars, produceVars
  <1>0. /\ slot' \in [Slots -> SlotType]
        /\ \A j \in Slots : ~Has(j, "writing") => slot'[j] = slot[j]
        /\ write.slot \in Slots /\ slot'[write.slot].state = "writing"
    BY DEF TypeInv, Has, ProducerInv, Writing, SlotType, Pictures
  <1>1. TypeInv'
    BY <1>0 DEF TypeInv, Processes, Places
  <1>2. ProducerInv'
    BY <1>0 DEF TypeInv, ProducerInv, Processes, Producing, Writing, Has,
        WriteType
  <1>3. WorkerInv'
    BY <1>0 DEF TypeInv, ProducerInv, WorkerInv, WorkerAlive, Processes,
        Producing
  <1>4. ClearInv'
    BY <1>0 DEF TypeInv, WorkerInv, ClearInv, WorkerAlive, Processes,
        Producing, Has
  <1>5. LeaseInv'
    BY <1>0, LeasesKept DEF Has
  <1>. QED
    BY <1>1, <1>2, <1>3, <1>4, <1>5

\* The producer's slot becomes ready.
LEMMA WorkerPublishesInv ==
  ASSUME IInv, WorkerPublishes
  PROVE  IInv'
  <1>. USE SessionAssumption DEF IInv, WorkerPublishes, Goto, frameVars,
      lifeVars, callVars, produceVars
  <1>0. /\ slot' \in [Slots -> SlotType]
        /\ \A j \in Slots : ~Has(j, "writing") => slot'[j] = slot[j]
    BY DEF TypeInv, Has, ProducerInv, Writing, SlotType, Processes
  <1>w. write' \in WriteType
    BY DEF WriteType, NoWrite
  <1>1. TypeInv'
    BY <1>0, <1>w DEF TypeInv, Processes, Places
  <1>2. ProducerInv'
    BY <1>0 DEF Nobody, Worker, TypeInv, ProducerInv, Processes,
        Producing, Writing, Has, WriteType
  <1>3. WorkerInv'
    BY <1>0 DEF TypeInv, ProducerInv, WorkerInv, WorkerAlive, Processes,
        Producing
  <1>4. ClearInv'
    BY <1>0 DEF TypeInv, WorkerInv, ClearInv, WorkerAlive, Processes,
        Producing, Has
  <1>5. LeaseInv'
    BY <1>0, LeasesKept DEF Has
  <1>. QED
    BY <1>1, <1>2, <1>3, <1>4, <1>5

\* The slot the worker frees is still being written: no thread captures.
LEMMA WorkerClearsInv ==
  ASSUME IInv, WorkerClears
  PROVE  IInv'
  <1>. USE SessionAssumption DEF IInv, WorkerClears, Goto, frameVars,
      lifeVars, callVars, produceVars
  <1>0. /\ slot' \in [Slots -> SlotType]
        /\ \A j \in Slots : ~Has(j, "writing") => slot'[j] = slot[j]
    BY DEF TypeInv, Has, ClearInv, SlotType
  <1>1. TypeInv'
    BY <1>0 DEF TypeInv, Processes, Places
  <1>2. ProducerInv'
    BY <1>0 DEF WorkerInv, WorkerAlive, TypeInv, ProducerInv, Processes,
        Producing, Writing, Has, WriteType
  <1>3. WorkerInv'
    BY <1>0 DEF TypeInv, ProducerInv, WorkerInv, WorkerAlive, Processes,
        Producing
  <1>4. ClearInv'
    BY <1>0 DEF TypeInv, WorkerInv, ClearInv, WorkerAlive, Processes,
        Producing, Has
  <1>5. LeaseInv'
    BY <1>0, LeasesKept DEF Has
  <1>. QED
    BY <1>1, <1>2, <1>3, <1>4, <1>5

\* start() frees a ready slot.
LEMMA DiscardReadyInv ==
  ASSUME IInv, NEW t \in Threads, DiscardReady(t)
  PROVE  IInv'
  <1>. USE SessionAssumption DEF IInv, DiscardReady, Goto, frameVars,
      lifeVars, callVars, produceVars
  <1>0. /\ slot' \in [Slots -> SlotType]
        /\ \A j \in Slots : ~Has(j, "ready") => slot'[j] = slot[j]
    <2>. CASE Has(at[t], "ready")
      <3>1. at[t] \in Slots /\ Has(at[t], "ready") /\ SetState(at[t], "free")
        BY DEF TypeInv, Processes, Slots, Outdated
      <3>. HIDE DEF DiscardReady
      <3>. QED
        BY <3>1, StateLeft
    <2>. CASE ~Has(at[t], "ready")
      BY DEF TypeInv
    <2>. QED
      OBVIOUS
  <1>1. TypeInv'
    BY <1>0 DEF TypeInv, Processes, Places
  <1>2. ProducerInv'
    BY <1>0 DEF TypeInv, ProducerInv, Processes, Producing, Writing, Has,
        WriteType
  <1>3. WorkerInv'
    BY <1>0 DEF TypeInv, ProducerInv, WorkerInv, WorkerAlive, Processes,
        Producing
  <1>4. ClearInv'
    BY <1>0 DEF TypeInv, WorkerInv, ClearInv, WorkerAlive, Processes,
        Producing, Has
  <1>5. LeaseInv'
    BY <1>0, LeasesKept DEF Has
  <1>. QED
    BY <1>1, <1>2, <1>3, <1>4, <1>5

\* acquire_latest() frees an older ready slot.
LEMMA DiscardOlderInv ==
  ASSUME IInv, NEW t \in Threads, DiscardOlder(t)
  PROVE  IInv'
  <1>. USE SessionAssumption DEF IInv, DiscardOlder, Goto, frameVars,
      lifeVars, callVars, produceVars
  <1>0. /\ slot' \in [Slots -> SlotType]
        /\ \A j \in Slots : ~Has(j, "ready") => slot'[j] = slot[j]
    <2>. CASE Outdated(at[t], t)
      <3>1. at[t] \in Slots /\ Has(at[t], "ready") /\ SetState(at[t], "free")
        BY DEF TypeInv, Processes, Slots, Outdated
      <3>. HIDE DEF DiscardOlder
      <3>. QED
        BY <3>1, StateLeft
    <2>. CASE ~Outdated(at[t], t)
      BY DEF TypeInv
    <2>. QED
      OBVIOUS
  <1>1. TypeInv'
    BY <1>0 DEF TypeInv, Processes, Places
  <1>2. ProducerInv'
    BY <1>0 DEF TypeInv, ProducerInv, Processes, Producing, Writing, Has,
        WriteType
  <1>3. WorkerInv'
    BY <1>0 DEF TypeInv, ProducerInv, WorkerInv, WorkerAlive, Processes,
        Producing
  <1>4. ClearInv'
    BY <1>0 DEF TypeInv, WorkerInv, ClearInv, WorkerAlive, Processes,
        Producing, Has
  <1>5. LeaseInv'
    BY <1>0, LeasesKept DEF Has
  <1>. QED
    BY <1>1, <1>2, <1>3, <1>4, <1>5

\* capture() leases the slot it has written.
LEMMA LeaveCaptureInv ==
  ASSUME IInv, NEW t \in Threads, LeaveCapture(t)
  PROVE  IInv'
  <1>. USE SessionAssumption DEF IInv, LeaveCapture, Goto, frameVars,
      lifeVars, callVars, produceVars
  <1>0. /\ slot' \in [Slots -> SlotType]
        /\ \A j \in Slots : ~Has(j, "writing") => slot'[j] = slot[j]
    BY DEF TypeInv, Has, ProducerInv, Writing, SlotType, Processes
  <1>w. write' \in WriteType
    BY DEF WriteType, NoWrite
  <1>l. lease' \in [Threads -> LeaseType] /\ LeaseInv'
    <2>. DEFINE i == write.slot
    <2>1. i \in Slots /\ Has(i, "writing") /\ sequence \in Nat
      BY DEF TypeInv, ProducerInv, Processes, Writing
    <2>2. /\ slot'[i].state = "reading" /\ slot'[i].generation = sequence
          /\ slot'[i].image = slot[i].image
          /\ \A j \in Slots : j # i => slot'[j] = slot[j]
      BY <2>1 DEF TypeInv, SlotType
    <2>. QED
      BY <2>1, <2>2, LeaseTaken DEF Frame, Has
  <1>1. TypeInv'
    BY <1>0, <1>w, <1>l DEF TypeInv, Processes, Places
  <1>2. ProducerInv'
    BY <1>0 DEF Nobody, Worker, TypeInv, ProducerInv, Processes,
        Producing, Writing, Has, WriteType
  <1>3. WorkerInv'
    BY <1>0 DEF TypeInv, ProducerInv, WorkerInv, WorkerAlive, Processes,
        Producing
  <1>4. ClearInv'
    BY <1>0 DEF TypeInv, WorkerInv, ClearInv, WorkerAlive, Processes,
        Producing, Has
  <1>5. LeaseInv'
    BY <1>l, LeasesKept DEF Has
  <1>. QED
    BY <1>1, <1>2, <1>3, <1>4, <1>5

\* acquire_latest() leases a ready slot.
LEMMA TakeNewestInv ==
  ASSUME IInv, NEW t \in Threads, TakeNewest(t)
  PROVE  IInv'
  <1>. USE SessionAssumption DEF IInv, TakeNewest, Goto, frameVars,
      lifeVars, callVars, produceVars
  <1>0. /\ slot' \in [Slots -> SlotType]
        /\ \A j \in Slots : ~Has(j, "ready") => slot'[j] = slot[j]
    BY StateSet DEF TypeInv, Has, Newest, Ready
  <1>l. lease' \in [Threads -> LeaseType] /\ LeaseInv'
    <2>1. PICK i \in Newest :
             /\ SetState(i, "reading")
             /\ lease' = [lease EXCEPT ![t] = Frame(i, GenerationOf(i))]
      OBVIOUS
    <2>2. i \in Slots /\ Has(i, "ready") /\ GenerationOf(i) \in Nat
      BY DEF Newest, Ready, TypeInv, SlotType, GenerationOf
    <2>3. /\ slot'[i].state = "reading"
          /\ slot'[i].generation = GenerationOf(i)
          /\ slot'[i].image = slot[i].image
          /\ \A j \in Slots : j # i => slot'[j] = slot[j]
      BY <2>1, <2>2, StateSet DEF GenerationOf
    <2>. QED
      BY <2>1, <2>2, <2>3, LeaseTaken DEF Frame, Has
  <1>1. TypeInv'
    BY <1>0, <1>l DEF TypeInv, Processes, Places
  <1>2. ProducerInv'
    BY <1>0 DEF TypeInv, ProducerInv, Processes, Producing, Writing, Has,
        WriteType
  <1>3. WorkerInv'
    BY <1>0 DEF TypeInv, ProducerInv, WorkerInv, WorkerAlive, Processes,
        Producing
  <1>4. ClearInv'
    BY <1>0 DEF TypeInv, WorkerInv, ClearInv, WorkerAlive, Processes,
        Producing, Has
  <1>5. LeaseInv'
    BY <1>l, LeasesKept DEF Has
  <1>. QED
    BY <1>1, <1>2, <1>3, <1>4, <1>5

\* A lease ends.
LEMMA ReleaseInv ==
  ASSUME IInv, NEW t \in Threads, Release(t)
  PROVE  IInv'
  <1>. USE SessionAssumption DEF IInv, Release, Goto, frameVars, lifeVars,
      callVars, produceVars
  <1>0. /\ slot' \in [Slots -> SlotType]
        /\ lease[t].slot \in Slots
        /\ \A j \in Slots : Has(j, "writing") => slot'[j] = slot[j]
        /\ \A j \in Slots : j # lease[t].slot => slot'[j] = slot[j]
        /\ Has(lease[t].slot, "reading")
    <2>1. lease[t].slot \in Slots /\ Has(lease[t].slot, "reading")
      BY DEF TypeInv, LeaseType, Leased
    <2>2. SetState(lease[t].slot, "free")
      OBVIOUS
    <2>. HIDE DEF Release
    <2>3. /\ slot' \in [Slots -> SlotType]
          /\ \A j \in Slots : j # lease[t].slot => slot'[j] = slot[j]
          /\ \A j \in Slots : ~Has(j, "reading") => slot'[j] = slot[j]
      BY <2>1, <2>2, StateLeft
    <2>. QED
      BY <2>1, <2>3 DEF Has
  <1>l. lease' \in [Threads -> LeaseType] /\ LeaseInv'
    BY <1>0, LeaseReturned
  <1>1. TypeInv'
    BY <1>0, <1>l DEF TypeInv, Processes, Places
  <1>2. ProducerInv'
    BY <1>0 DEF TypeInv, ProducerInv, Processes, Producing, Writing, Has,
        WriteType
  <1>3. WorkerInv'
    BY <1>0 DEF TypeInv, ProducerInv, WorkerInv, WorkerAlive, Processes,
        Producing
  <1>4. ClearInv'
    BY <1>0 DEF TypeInv, WorkerInv, ClearInv, WorkerAlive, Processes,
        Producing, Has
  <1>5. LeaseInv'
    BY <1>l, LeasesKept DEF Has
  <1>. QED
    BY <1>1, <1>2, <1>3, <1>4, <1>5

-----------------------------------------------------------------------------
(* The invariant, and the theorem.                                         *)

\* The invariant holds at first.
LEMMA InitInv ==
  ASSUME Init
  PROVE  IInv
  <1>. USE SessionAssumption DEF Init
  <1>1. TypeInv
    <2>1. [state |-> "free", generation |-> 0, image |-> NoImage, base |-> 0,
           dirty |-> TRUE] \in SlotType
      BY DEF SlotType, Pictures
    <2>2. NoWrite \in WriteType
      BY DEF NoWrite, WriteType
    <2>3. NoFrame \in LeaseType
      BY DEF LeaseType
    <2>4. NoImage \in Pictures /\ "idle" \in Places
      BY DEF Pictures, Places
    <2>. QED
      BY <2>1, <2>2, <2>3, <2>4 DEF TypeInv, Processes
  <1>2. ProducerInv
    BY DEF ProducerInv, Processes, Producing, Writing
  <1>3. WorkerInv
    BY DEF WorkerInv, WorkerAlive, Producing
  <1>4. ClearInv
    BY DEF ClearInv
  <1>5. LeaseInv
    BY DEF LeaseInv, LeaseIntact
  <1>. QED
    BY <1>1, <1>2, <1>3, <1>4, <1>5 DEF IInv

\* Any step of a producer.
LEMMA ProducesInv ==
  ASSUME IInv, NEW p \in Processes, Produces(p)
  PROVE  IInv'
  <1>. USE DEF Processes
  <1>1. CASE FindFree(p)
    BY <1>1, FindFreeInv
  <1>2. CASE FindOldest(p)
    BY <1>2, FindOldestInv
  <1>3. CASE StealOldest(p)
    BY <1>3, StealOldestInv
  <1>4. CASE CaptureInto(p)
    BY <1>4, CaptureIntoInv
  <1>5. CASE CaptureFails(p)
    BY <1>5, CaptureFailsInv
  <1>. QED
    BY <1>1, <1>2, <1>3, <1>4, <1>5 DEF Produces

\* Any step of the worker.
LEMMA WorkerStepInv ==
  ASSUME IInv, WorkerStep
  PROVE  IInv'
  <1>1. CASE WorkerBegins
    BY <1>1, WorkerBeginsInv
  <1>2. CASE WorkerGoesOn
    BY <1>2, WorkerGoesOnInv
  <1>3. CASE WorkerStops
    BY <1>3, WorkerStopsInv
  <1>4. CASE WorkerLocks
    BY <1>4, WorkerLocksInv
  <1>5. CASE WorkerPublishes
    BY <1>5, WorkerPublishesInv
  <1>6. CASE WorkerLooks
    BY <1>6, WorkerLooksInv
  <1>7. CASE WorkerClears
    BY <1>7, WorkerClearsInv
  <1>8. CASE WorkerEnds
    BY <1>8, WorkerEndsInv
  <1>9. CASE Produces(Worker)
    BY <1>9, ProducesInv DEF Processes
  <1>10. CASE GiveUp(Worker, "loop")
    BY <1>10, WorkerGiveUpInv
  <1>11. CASE Throws(Worker, "end")
    BY <1>11, WorkerThrowsInv
  <1>. QED
    BY <1>1, <1>2, <1>3, <1>4, <1>5, <1>6, <1>7, <1>8, <1>9, <1>10, <1>11
    DEF WorkerStep

\* Any step of a thread.
LEMMA ThreadStepInv ==
  ASSUME OneController, IInv, NEW t \in Threads,
         Enter(t) \/ Continue(t) \/ TimedOut(t)
  PROVE  IInv'
  <1>1. CASE EnterCapture(t)
    BY <1>1, EnterCaptureInv
  <1>2. CASE EnterStart(t)
    BY <1>2, EnterStartInv
  <1>3. CASE EnterStop(t)
    BY <1>3, EnterStopInv
  <1>4. CASE EnterAcquire(t)
    BY <1>4, EnterAcquireInv
  <1>5. CASE Release(t)
    BY <1>5, ReleaseInv
  <1>6. CASE Produces(t)
    BY <1>6, ProducesInv DEF Processes
  <1>7. CASE GiveUp(t, "idle")
    BY <1>7, GiveUpInv
  <1>8. CASE Throws(t, "idle")
    BY <1>8, ThrowsInv
  <1>9. CASE LeaveCapture(t)
    BY <1>9, LeaveCaptureInv
  <1>10. CASE DiscardReady(t)
    BY <1>10, DiscardReadyInv
  <1>11. CASE Launch(t)
    BY <1>11, LaunchInv
  <1>12. CASE LaunchFailed(t)
    BY <1>12, LaunchFailedInv
  <1>13. CASE Join(t)
    BY <1>13, JoinInv
  <1>14. CASE TakeNewest(t)
    BY <1>14, TakeNewestInv
  <1>15. CASE Sleep(t)
    BY <1>15, SleepInv
  <1>16. CASE NotRunning(t)
    BY <1>16, NotRunningInv
  <1>17. CASE DiscardOlder(t)
    BY <1>17, DiscardOlderInv
  <1>18. CASE LeaveAcquire(t)
    BY <1>18, LeaveAcquireInv
  <1>19. CASE TimedOut(t)
    BY <1>19, TimedOutInv
  <1>. QED
    BY <1>1, <1>2, <1>3, <1>4, <1>5, <1>6, <1>7, <1>8, <1>9, <1>10, <1>11,
       <1>12, <1>13, <1>14, <1>15, <1>16, <1>17, <1>18, <1>19
    DEF Enter, Continue

\* Nothing happens.
LEMMA StutterInv ==
  ASSUME IInv, UNCHANGED vars
  PROVE  IInv'
  <1>. USE DEF IInv, vars, frameVars, lifeVars, callVars, produceVars
  <1>1. TypeInv'
    BY DEF TypeInv
  <1>2. ProducerInv'
    BY DEF ProducerInv, Has
  <1>3. WorkerInv'
    BY DEF WorkerInv, WorkerAlive
  <1>4. ClearInv'
    BY DEF ClearInv, Has
  <1>5. LeaseInv'
    BY LeasesKept
  <1>. QED
    BY <1>1, <1>2, <1>3, <1>4, <1>5

(* The frame of a lease is its caller's alone until it is released, for    *)
(* any number of slots, threads, frames and images, as long as no thread   *)
(* captures by itself while another may start the worker (capture, start,  *)
(* acquire_latest, release, worker_main).                                  *)
THEOREM LeasesIntact == OneController => (Spec => []LeaseIntact)
  <1>. SUFFICES ASSUME OneController
                PROVE  Spec => []LeaseIntact
    OBVIOUS
  <1>1. Init => IInv
    BY InitInv
  <1>2. IInv /\ [Next]_vars => IInv'
    BY WorkerStepInv, ThreadStepInv, StutterInv DEF Next
  <1>3. IInv => LeaseIntact
    BY DEF IInv, LeaseInv
  <1>. QED
    BY <1>1, <1>2, <1>3, PTL DEF Spec

-----------------------------------------------------------------------------
(* What a consumer sees of the frames, whoever captures them: this part    *)
(* needs no OneController.  A slot its producer writes may then be freed   *)
(* by an ending worker, so it is only known to be out of consumers' reach. *)

SlotsTyped ==
    /\ slot \in [Slots -> SlotType]
    /\ sequence \in Nat /\ cleared \in Nat /\ baseline \in Pictures
    /\ history \in Seq(Images)
    /\ pc \in [Processes -> Places] /\ at \in [Processes -> Nat]
    /\ write \in WriteType

ProducerOwns ==
    \A p \in Processes :
        /\ pc[p] \in Producing => producer = p
        /\ pc[p] = "steal" => write.oldest \in Slots
        /\ pc[p] \in Writing =>
              /\ write.slot \in Slots
              /\ slot[write.slot].state \in {"writing", "free"}

\* The frame of a slot can be rebuilt from its base.
Rebuilds(i) ==
    \/ slot[i].dirty
    \/ slot[i].base \in 1..sequence /\ slot[i].image = history[slot[i].base]

\* The tracker's baseline is the last frame captured, unless numbers ran out.
HistoryInv ==
    /\ Len(history) = sequence
    /\ sequence < MaxSequence =>
          \/ baseline = NoImage
          \/ sequence # 0 /\ baseline = history[sequence]
    /\ \A i \in Slots : slot[i].state \in {"ready", "reading"} => Rebuilds(i)
    /\ \A p \in Processes : pc[p] = "captured" => Rebuilds(write.slot)

ConsumerInv == SlotsTyped /\ ProducerOwns /\ HistoryInv /\ NoMissedWakeup

\* A step of nobody who produces: slots are at most freed or leased, and
\* nobody is left asleep without a worker.
LEMMA Quiet ==
  ASSUME ConsumerInv, slot' \in [Slots -> SlotType],
         \A i \in Slots :
            /\ slot'[i].image = slot[i].image
            /\ slot'[i].base = slot[i].base
            /\ slot'[i].dirty = slot[i].dirty
            /\ \/ slot'[i].state \in {slot[i].state, "free"}
               \/ slot[i].state = "ready" /\ slot'[i].state = "reading",
         UNCHANGED <<sequence, baseline, history, producer, write>>,
         cleared' \in Nat, pc' \in [Processes -> Places],
         at' \in [Processes -> Nat],
         \A p \in Processes : pc'[p] \in Producing => pc'[p] = pc[p],
         asleep' # {} => running' /\ Ready = {}
  PROVE  ConsumerInv'
  <1>. USE DEF ConsumerInv
  <1>1. SlotsTyped'
    BY DEF SlotsTyped
  <1>2. ProducerOwns'
    BY DEF ProducerOwns, Producing, Writing
  <1>3. HistoryInv'
    BY DEF HistoryInv, Rebuilds, ProducerOwns, Writing, Producing
  <1>4. NoMissedWakeup'
    BY DEF NoMissedWakeup, Ready, Has
  <1>. QED
    BY <1>1, <1>2, <1>3, <1>4

\* Any state of a slot may be set; nothing else of it changes.
LEMMA StateOnly ==
  ASSUME SlotsTyped, NEW i, NEW s \in {"free", "writing", "ready", "reading"},
         SetState(i, s)
  PROVE  /\ slot' \in [Slots -> SlotType]
         /\ i \in Slots => slot'[i] = [slot[i] EXCEPT !.state = s]
         /\ \A j \in Slots : /\ j # i => slot'[j] = slot[j]
                             /\ slot'[j].image = slot[j].image
                             /\ slot'[j].base = slot[j].base
                             /\ slot'[j].dirty = slot[j].dirty
                             /\ slot'[j].state \in {slot[j].state, s}
                             /\ j = i => slot'[j].state = s
  <1>1. \A j \in Slots : [slot[j] EXCEPT !.state = s] \in SlotType
    BY DEF SlotsTyped, SlotType
  <1>2. slot' = [slot EXCEPT ![i] = [slot[i] EXCEPT !.state = s]]
    BY DEF SetState
  <1>3. \A j \in Slots : slot[j] \in SlotType
    BY DEF SlotsTyped
  <1>4. /\ slot' \in [Slots -> SlotType]
        /\ i \in Slots => slot'[i] = [slot[i] EXCEPT !.state = s]
        /\ \A j \in Slots : j # i => slot'[j] = slot[j]
    <2>. HIDE DEF SlotType
    <2>. QED
      BY <1>1, <1>2 DEF SlotsTyped
  <1>. QED
    BY <1>3, <1>4 DEF SlotType

\* A slot is nobody's or is looked at only: the calls that control the
\* session, wait, or give up.
LEMMA ControlQuiet ==
  ASSUME ConsumerInv, NEW t \in Threads,
         \/ EnterStart(t) \/ Launch(t) \/ LaunchFailed(t) \/ EnterStop(t)
         \/ Join(t) \/ EnterAcquire(t) \/ Sleep(t) \/ NotRunning(t)
         \/ TimedOut(t) \/ LeaveAcquire(t)
  PROVE  ConsumerInv'
  <1>1. /\ UNCHANGED <<slot, sequence, baseline, history, producer, write,
                       cleared>>
        /\ slot \in [Slots -> SlotType] /\ cleared \in Nat
    BY DEF EnterStart, Launch, LaunchFailed, EnterStop, Join, EnterAcquire,
       Sleep, NotRunning, TimedOut, LeaveAcquire, frameVars, produceVars,
       ConsumerInv, SlotsTyped
  <1>2. /\ pc' \in [Processes -> Places] /\ at' \in [Processes -> Nat]
        /\ \A p \in Processes : pc'[p] \in Producing => pc'[p] = pc[p]
    BY DEF EnterStart, Launch, LaunchFailed, EnterStop, Join, EnterAcquire,
       Sleep, NotRunning, TimedOut, LeaveAcquire, Goto, ConsumerInv,
       SlotsTyped, Processes, Places, Producing
  <1>3. asleep' # {} => running' /\ Ready = {}
    BY DEF EnterStart, Launch, LaunchFailed, EnterStop, Join, EnterAcquire,
       Sleep, NotRunning, TimedOut, LeaveAcquire, lifeVars, ConsumerInv,
       NoMissedWakeup
  <1>. QED
    BY <1>1, <1>2, <1>3, Quiet

\* The worker, when it does not produce, and touches no slot.
LEMMA WorkerQuiet ==
  ASSUME ConsumerInv,
         \/ WorkerBegins \/ WorkerGoesOn \/ WorkerStops \/ WorkerLooks
         \/ WorkerEnds
  PROVE  ConsumerInv'
  <1>1. /\ UNCHANGED <<slot, sequence, baseline, history, producer, write>>
        /\ slot \in [Slots -> SlotType]
    BY DEF WorkerBegins, WorkerGoesOn, WorkerStops, WorkerLooks, WorkerEnds,
       frameVars, produceVars, ConsumerInv, SlotsTyped
  <1>2. /\ pc' \in [Processes -> Places] /\ at' \in [Processes -> Nat]
        /\ \A p \in Processes : pc'[p] \in Producing => pc'[p] = pc[p]
    BY DEF WorkerBegins, WorkerGoesOn, WorkerStops, WorkerLooks, WorkerEnds,
       Goto, ConsumerInv, SlotsTyped, Processes, Places, Producing
  <1>3. asleep' # {} => running' /\ Ready = {}
    BY DEF WorkerBegins, WorkerGoesOn, WorkerStops, WorkerLooks, WorkerEnds,
       lifeVars, ConsumerInv, NoMissedWakeup
  <1>4. cleared' \in Nat
    <2>1. at[Worker] \in Nat /\ cleared \in Nat
      BY DEF ConsumerInv, SlotsTyped, Processes
    <2>2. at[Worker] < BufferCount => GenerationOf(at[Worker]) \in Nat
      BY <2>1, SessionAssumption
      DEF ConsumerInv, SlotsTyped, SlotType, Slots, GenerationOf
    <2>. QED
      BY <2>1, <2>2 DEF WorkerBegins, WorkerGoesOn, WorkerStops, WorkerLooks,
         WorkerEnds
  <1>. QED
    BY <1>1, <1>2, <1>3, <1>4, Quiet

\* A ready slot, or a leased one, is given back.
LEMMA SlotFreed ==
  ASSUME ConsumerInv, NEW t \in Threads,
         DiscardReady(t) \/ DiscardOlder(t) \/ Release(t)
  PROVE  ConsumerInv'
  <1>1. UNCHANGED <<sequence, baseline, history, producer, write, cleared,
                    running, asleep, pc>>
    BY DEF DiscardReady, DiscardOlder, Release, produceVars, lifeVars
  <1>2. UNCHANGED slot \/ \E i : SetState(i, "free")
    BY DEF DiscardReady, DiscardOlder, Release
  <1>3. /\ pc' \in [Processes -> Places] /\ at' \in [Processes -> Nat]
        /\ cleared' \in Nat
    BY <1>1 DEF DiscardReady, DiscardOlder, Release, ConsumerInv, SlotsTyped,
       Processes
  <1>4. /\ slot' \in [Slots -> SlotType]
        /\ \A i \in Slots :
              /\ slot'[i].image = slot[i].image
              /\ slot'[i].base = slot[i].base
              /\ slot'[i].dirty = slot[i].dirty
              /\ slot'[i].state \in {slot[i].state, "free"}
    BY <1>2, StateOnly DEF ConsumerInv, SlotsTyped
  <1>5. asleep' # {} => running' /\ Ready = {}
    BY <1>1 DEF ConsumerInv, NoMissedWakeup
  <1>. QED
    BY <1>1, <1>3, <1>4, <1>5, Quiet

\* The worker frees the slot it has looked at, with the word it has read.
LEMMA SlotCleared ==
  ASSUME ConsumerInv, WorkerClears
  PROVE  ConsumerInv'
  <1>1. UNCHANGED <<sequence, baseline, history, producer, write, running,
                    asleep>>
    BY DEF WorkerClears, produceVars, lifeVars
  <1>2. /\ pc' \in [Processes -> Places] /\ at' \in [Processes -> Nat]
        /\ cleared' \in Nat
        /\ \A p \in Processes : pc'[p] \in Producing => pc'[p] = pc[p]
    BY DEF WorkerClears, ConsumerInv, SlotsTyped, Processes, Places, Goto,
       Producing
  <1>3. /\ slot' \in [Slots -> SlotType]
        /\ \A i \in Slots :
              /\ slot'[i].image = slot[i].image
              /\ slot'[i].base = slot[i].base
              /\ slot'[i].dirty = slot[i].dirty
              /\ slot'[i].state \in {slot[i].state, "free"}
    <2>1. /\ slot \in [Slots -> SlotType] /\ cleared \in Nat
          /\ \A i \in Slots : slot[i] \in SlotType
      BY DEF ConsumerInv, SlotsTyped
    <2>2. \A i \in Slots : [slot[i] EXCEPT !.state = "free",
                                         !.generation = cleared] \in SlotType
      BY <2>1 DEF SlotType
    <2>3. slot' = [slot EXCEPT ![at[Worker]] =
                    [slot[at[Worker]] EXCEPT !.state = "free",
                                             !.generation = cleared]]
      BY DEF WorkerClears
    <2>4. /\ slot' \in [Slots -> SlotType]
          /\ \A i \in Slots :
                slot'[i] \in {slot[i], [slot[i] EXCEPT !.state = "free",
                                                    !.generation = cleared]}
      BY <2>1, <2>2, <2>3
    <2>5. ASSUME NEW i \in Slots
          PROVE  LET kept == [slot[i] EXCEPT !.state = "free",
                                             !.generation = cleared]
                 IN  /\ kept.image = slot[i].image /\ kept.base = slot[i].base
                     /\ kept.dirty = slot[i].dirty /\ kept.state = "free"
      <3>1. slot[i] \in SlotType
        BY <2>1
      <3>. QED
        BY <3>1 DEF SlotType
    <2>. HIDE DEF ConsumerInv, WorkerClears
    <2>. QED
      BY <2>4, <2>5
  <1>4. asleep' # {} => running' /\ Ready = {}
    BY <1>1 DEF ConsumerInv, NoMissedWakeup
  <1>. QED
    BY <1>1, <1>2, <1>3, <1>4, Quiet

\* acquire_latest() leases a ready slot.
LEMMA SlotLeased ==
  ASSUME ConsumerInv, NEW t \in Threads, TakeNewest(t)
  PROVE  ConsumerInv'
  <1>1. UNCHANGED <<sequence, baseline, history, producer, write, running,
                    asleep, cleared>>
    BY DEF TakeNewest, produceVars, lifeVars
  <1>2. /\ pc' \in [Processes -> Places] /\ at' \in [Processes -> Nat]
        /\ cleared' \in Nat
        /\ \A p \in Processes : pc'[p] \in Producing => pc'[p] = pc[p]
    BY <1>1 DEF TakeNewest, ConsumerInv, SlotsTyped, Processes, Places, Goto,
       Producing
  <1>3. PICK i \in Slots : Has(i, "ready") /\ SetState(i, "reading")
    BY DEF TakeNewest, Newest, Ready
  <1>4. /\ slot' \in [Slots -> SlotType]
        /\ \A j \in Slots :
              /\ slot'[j].image = slot[j].image
              /\ slot'[j].base = slot[j].base
              /\ slot'[j].dirty = slot[j].dirty
              /\ \/ slot'[j].state = slot[j].state
                 \/ slot[j].state = "ready" /\ slot'[j].state = "reading"
    BY <1>3, StateOnly DEF ConsumerInv, Has
  <1>5. asleep' # {} => running' /\ Ready = {}
    BY <1>1 DEF ConsumerInv, NoMissedWakeup
  <1>. QED
    BY <1>1, <1>2, <1>4, <1>5, Quiet

\* A producer enters, and nobody else is one.
LEMMA ProducerEnters ==
  ASSUME ConsumerInv,
         WorkerLocks \/ \E t \in Threads : EnterCapture(t)
  PROVE  ConsumerInv'
  <1>1. PICK p \in Processes :
           /\ producer = Nobody /\ producer' = p
           /\ pc' = [pc EXCEPT ![p] = "free"] /\ at' = [at EXCEPT ![p] = 0]
    BY DEF WorkerLocks, EnterCapture, Goto, Processes
  <1>2. UNCHANGED <<slot, sequence, baseline, history, cleared, asleep,
                    running>>
    BY DEF WorkerLocks, EnterCapture, frameVars, lifeVars
  <1>w. write' \in WriteType
    <2>1. NoWrite \in WriteType
      BY SessionAssumption DEF NoWrite, WriteType
    <2>2. [NoWrite EXCEPT !.preserve = acquiring # {}] \in WriteType
      BY <2>1 DEF WriteType
    <2>. QED
      BY <2>2 DEF WorkerLocks, EnterCapture, ConsumerInv, SlotsTyped
  <1>3. SlotsTyped'
    BY <1>1, <1>2, <1>w DEF ConsumerInv, SlotsTyped, Places
  <1>4. \A q \in Processes : pc[q] \notin Producing
    <2>1. Nobody \notin Processes
      BY SessionAssumption DEF Processes, Nobody, Worker
    <2>. QED
      BY <1>1, <2>1 DEF ConsumerInv, ProducerOwns
  <1>5. \A q \in Processes : /\ q # p => pc'[q] = pc[q]
                             /\ q = p => pc'[q] = "free"
    BY <1>1 DEF ConsumerInv, SlotsTyped
  <1>6. ProducerOwns'
    BY <1>1, <1>4, <1>5 DEF ProducerOwns, Producing, Writing
  <1>7. HistoryInv'
    BY <1>2, <1>4, <1>5 DEF ConsumerInv, HistoryInv, Rebuilds, Producing
  <1>8. NoMissedWakeup'
    BY <1>2 DEF ConsumerInv, NoMissedWakeup, Ready, Has
  <1>. QED
    BY <1>3, <1>6, <1>7, <1>8 DEF ConsumerInv

\* A producer's step that leaves the frames' contents alone: only it moves,
\* and it does not arrive at "captured".
LEMMA Scan ==
  ASSUME ConsumerInv, NEW p \in Processes, pc[p] \in Producing,
         NEW place \in Places, Goto(p, place), place # "captured",
         slot' \in [Slots -> SlotType],
         \A i \in Slots :
            /\ slot'[i].image = slot[i].image
            /\ slot'[i].base = slot[i].base
            /\ slot'[i].dirty = slot[i].dirty
            /\ slot'[i].state \in {slot[i].state, "free", "writing"},
         UNCHANGED <<sequence, baseline, history, running, asleep, cleared>>,
         at' \in [Processes -> Nat], write' \in WriteType,
         place \in Producing => producer' = producer,
         place = "steal" => write'.oldest \in Slots,
         place \in Writing =>
           /\ write'.slot \in Slots
           /\ slot'[write'.slot].state \in {"writing", "free"}
  PROVE  ConsumerInv'
  <1>. USE DEF ConsumerInv
  <1>1. \A q \in Processes : /\ q # p => pc'[q] = pc[q]
                             /\ q = p => pc'[q] = place
    BY DEF Goto, SlotsTyped
  <1>2. \A q \in Processes : q # p => pc'[q] \notin Producing
    BY <1>1 DEF ProducerOwns
  <1>3. SlotsTyped'
    BY DEF SlotsTyped, Goto
  <1>4. ProducerOwns'
    BY <1>1, <1>2 DEF ProducerOwns, Producing, Writing
  <1>5. HistoryInv'
    BY <1>1, <1>2 DEF HistoryInv, Rebuilds, Producing
  <1>6. NoMissedWakeup'
    BY DEF NoMissedWakeup, Ready, Has
  <1>. QED
    BY <1>3, <1>4, <1>5, <1>6

\* A slot taken for writing keeps its contents.
LEMMA SlotClaimed ==
  ASSUME SlotsTyped, NEW i \in Slots, SetState(i, "writing")
  PROVE  /\ slot' \in [Slots -> SlotType]
         /\ slot'[i].state = "writing"
         /\ \A j \in Slots :
               /\ slot'[j].image = slot[j].image
               /\ slot'[j].base = slot[j].base
               /\ slot'[j].dirty = slot[j].dirty
               /\ slot'[j].state \in {slot[j].state, "free", "writing"}
  <1>1. /\ slot' \in [Slots -> SlotType]
        /\ i \in Slots => slot'[i] = [slot[i] EXCEPT !.state = "writing"]
        /\ \A j \in Slots : /\ j # i => slot'[j] = slot[j]
                            /\ slot'[j].image = slot[j].image
                            /\ slot'[j].base = slot[j].base
                            /\ slot'[j].dirty = slot[j].dirty
                            /\ slot'[j].state \in {slot[j].state, "writing"}
                            /\ j = i => slot'[j].state = "writing"
    BY StateOnly
  <1>. QED
    BY <1>1

\* acquire_write_slot: the slot it marks was free, or the oldest ready one.
LEMMA SlotFound ==
  ASSUME ConsumerInv, NEW p \in Processes,
         FindFree(p) \/ FindOldest(p) \/ StealOldest(p)
  PROVE  ConsumerInv'
  <1>a. /\ pc[p] \in Producing
        /\ UNCHANGED <<sequence, baseline, history, producer, running, asleep,
                       cleared>>
    BY DEF FindFree, FindOldest, StealOldest, Producing, frameVars, lifeVars
  <1>b. at' \in [Processes -> Nat]
    <2>1. at \in [Processes -> Nat]
      BY DEF ConsumerInv, SlotsTyped
    <2>2. \/ at' = at \/ at' = [at EXCEPT ![p] = 0]
          \/ at' = [at EXCEPT ![p] = @ + 1]
      BY DEF FindFree, FindOldest, StealOldest
    <2>. QED
      BY <2>1, <2>2
  <1>1. /\ pc[p] \in Producing
        /\ UNCHANGED <<sequence, baseline, history, producer, running, asleep,
                       cleared>>
        /\ at' \in [Processes -> Nat]
    BY <1>a, <1>b
  <1>2. CASE FindFree(p) /\ Has(at[p], "free")
    <2>1. at[p] \in Slots
      BY <1>2, SessionAssumption DEF FindFree, Slots, ConsumerInv, SlotsTyped
    <2>2. SetState(at[p], "writing") /\ Goto(p, "write")
      BY <1>2 DEF FindFree
    <2>3. write'.slot = at[p] /\ write' \in WriteType
      BY <1>2, <2>1, SlotsNat
      DEF FindFree, ConsumerInv, SlotsTyped, WriteType
    <2>4. /\ slot' \in [Slots -> SlotType]
          /\ slot'[write'.slot].state = "writing"
          /\ \A i \in Slots :
                /\ slot'[i].image = slot[i].image
                /\ slot'[i].base = slot[i].base
                /\ slot'[i].dirty = slot[i].dirty
                /\ slot'[i].state \in {slot[i].state, "free", "writing"}
      <3>1. SlotsTyped /\ SetState(at[p], "writing")
        BY <2>2 DEF ConsumerInv
      <3>2. /\ slot' \in [Slots -> SlotType]
            /\ slot'[at[p]].state = "writing"
            /\ \A j \in Slots :
                  /\ slot'[j].image = slot[j].image
                  /\ slot'[j].base = slot[j].base
                  /\ slot'[j].dirty = slot[j].dirty
                  /\ slot'[j].state \in {slot[j].state, "free", "writing"}
        BY <2>1, <3>1, SlotClaimed
      <3>3. write'.slot = at[p]
        BY <2>3
      <3>. QED
        BY <2>1, <3>2, <3>3
    <2>. QED
      BY <1>1, <2>1, <2>2, <2>3, <2>4, Scan DEF Places, Writing, Producing
  <1>3. CASE FindFree(p) /\ ~Has(at[p], "free")
    <2>1. UNCHANGED <<slot, pc, write>> /\ pc[p] = "free"
      BY <1>3 DEF FindFree
    <2>2. Goto(p, "free")
      BY <2>1 DEF Goto, ConsumerInv, SlotsTyped
    <2>. QED
      BY <1>1, <2>1, <2>2, Scan
      DEF ConsumerInv, SlotsTyped, Places, Writing, Producing
  <1>4. CASE FindOldest(p)
    <2>1. UNCHANGED slot
      BY <1>4 DEF FindOldest, frameVars
    <2>2. ASSUME NEW i \in Oldest,
                 write' = [write EXCEPT !.oldest = i,
                                        !.generation = GenerationOf(i),
                                        !.attempt = @ + 1]
          PROVE  write'.oldest \in Slots /\ write' \in WriteType
      <3>1. i \in Slots /\ i \in Nat /\ GenerationOf(i) \in Nat
        BY SlotsNat
        DEF Oldest, Ready, ConsumerInv, SlotsTyped, SlotType, GenerationOf
      <3>2. write'.oldest = i
        BY <2>2 DEF ConsumerInv, SlotsTyped, WriteType
      <3>. QED
        BY <2>2, <3>1, <3>2, ScanRemembered DEF ConsumerInv, SlotsTyped
    <2>3. \/ Goto(p, "nobuffer") /\ write' = write
          \/ Goto(p, "steal") /\ write'.oldest \in Slots
                              /\ write' \in WriteType
      BY <1>4, <2>2 DEF FindOldest
    <2>. QED
      BY <1>1, <2>1, <2>3, Scan
      DEF ConsumerInv, SlotsTyped, Places, Writing, Producing
  <1>5. CASE StealOldest(p) /\ Goto(p, "write")
    <2>1. write.oldest \in Slots /\ pc'[p] = "write"
      BY <1>5 DEF StealOldest, ConsumerInv, ProducerOwns, Goto, SlotsTyped
    <2>2. ~Goto(p, "free")
      BY <2>1 DEF Goto, ConsumerInv, SlotsTyped
    <2>3. /\ SetState(write.oldest, "writing")
          /\ write' = [write EXCEPT !.slot = write.oldest]
      BY <1>5, <2>2 DEF StealOldest
    <2>4. write'.slot = write.oldest /\ write' \in WriteType
      BY <2>1, <2>3, SlotsNat DEF ConsumerInv, SlotsTyped, WriteType
    <2>5. /\ slot' \in [Slots -> SlotType]
          /\ slot'[write'.slot].state = "writing"
          /\ \A i \in Slots :
                /\ slot'[i].image = slot[i].image
                /\ slot'[i].base = slot[i].base
                /\ slot'[i].dirty = slot[i].dirty
                /\ slot'[i].state \in {slot[i].state, "free", "writing"}
      <3>1. SlotsTyped /\ SetState(write.oldest, "writing")
        BY <2>3 DEF ConsumerInv
      <3>2. /\ slot' \in [Slots -> SlotType]
            /\ slot'[write.oldest].state = "writing"
            /\ \A j \in Slots :
                  /\ slot'[j].image = slot[j].image
                  /\ slot'[j].base = slot[j].base
                  /\ slot'[j].dirty = slot[j].dirty
                  /\ slot'[j].state \in {slot[j].state, "free", "writing"}
        BY <2>1, <3>1, SlotClaimed
      <3>3. write'.slot = write.oldest
        BY <2>4
      <3>. QED
        BY <2>1, <3>2, <3>3
    <2>. QED
      BY <1>1, <1>5, <2>1, <2>4, <2>5, Scan DEF Places, Writing, Producing
  <1>6. CASE StealOldest(p) /\ Goto(p, "free") /\ UNCHANGED <<slot, write>>
    BY <1>1, <1>6, Scan
    DEF ConsumerInv, SlotsTyped, Places, Writing, Producing
  <1>. QED
    BY <1>2, <1>3, <1>4, <1>5, <1>6 DEF StealOldest

\* Numbers have run out, or the capture fails: the slot's frame is lost, and
\* nobody else has the slot.
LEMMA FrameLost ==
  ASSUME ConsumerInv, NEW p \in Processes, pc[p] = "write",
         slot' = [slot EXCEPT ![write.slot].image = NoImage],
         baseline' \in Pictures,
         sequence < MaxSequence => baseline' = baseline,
         Goto(p, "failed"),
         UNCHANGED <<sequence, history, running, asleep, cleared, producer,
                     write, at>>
  PROVE  ConsumerInv'
  <1>. USE DEF ConsumerInv
  <1>1. /\ write.slot \in Slots
        /\ slot[write.slot].state \in {"writing", "free"}
        /\ producer = p
    BY DEF ProducerOwns, Writing, Producing
  <1>2. /\ slot' \in [Slots -> SlotType]
        /\ \A j \in Slots : j # write.slot => slot'[j] = slot[j]
        /\ slot'[write.slot].state = slot[write.slot].state
    <2>1. slot \in [Slots -> SlotType] /\ slot[write.slot] \in SlotType
      BY <1>1 DEF SlotsTyped
    <2>2. /\ [slot[write.slot] EXCEPT !.image = NoImage] \in SlotType
          /\ [slot[write.slot] EXCEPT !.image = NoImage].state
                = slot[write.slot].state
      BY <2>1 DEF SlotType, Pictures
    <2>3. slot' = [slot EXCEPT ![write.slot] =
                    [slot[write.slot] EXCEPT !.image = NoImage]]
      OBVIOUS
    <2>. QED
      BY <1>1, <2>1, <2>2, <2>3
  <1>3. \A q \in Processes : /\ q # p => pc'[q] = pc[q]
                             /\ q = p => pc'[q] = "failed"
    BY DEF Goto, SlotsTyped
  <1>4. \A q \in Processes : q # p => pc'[q] \notin Producing
    BY <1>1, <1>3 DEF ProducerOwns
  <1>5. SlotsTyped'
    BY <1>2 DEF SlotsTyped, Goto, Places
  <1>6. ProducerOwns'
    BY <1>1, <1>2, <1>3, <1>4 DEF ProducerOwns, Producing, Writing
  <1>7. HistoryInv'
    BY <1>1, <1>2, <1>3, <1>4 DEF HistoryInv, Rebuilds, Producing
  <1>8. NoMissedWakeup'
    BY <1>1, <1>2 DEF NoMissedWakeup, Ready, Has
  <1>. QED
    BY <1>5, <1>6, <1>7, <1>8

\* A frame is captured: what it is relative to is the last frame, which the
\* tracker has kept.
LEMMA FrameCaptured ==
  ASSUME ConsumerInv, NEW p \in Processes, pc[p] = "write",
         NEW image \in Images, sequence < MaxSequence,
         sequence' = sequence + 1, baseline' = image,
         slot' = [slot EXCEPT ![write.slot].image = image,
                              ![write.slot].base = BaseOf,
                              ![write.slot].dirty = baseline # image],
         history' = Append(history, image), Goto(p, "captured"),
         UNCHANGED <<running, asleep, cleared, producer, write, at>>
  PROVE  ConsumerInv'
  <1>. USE DEF ConsumerInv
  <1>1. /\ write.slot \in Slots
        /\ slot[write.slot].state \in {"writing", "free"}
        /\ producer = p
    BY DEF ProducerOwns, Writing, Producing
  <1>2. BaseOf \in Nat /\ (baseline # image) \in BOOLEAN /\ image \in Pictures
    BY DEF BaseOf, SlotsTyped, Pictures
  <1>3. /\ slot' \in [Slots -> SlotType]
        /\ \A j \in Slots : j # write.slot => slot'[j] = slot[j]
        /\ slot'[write.slot].state = slot[write.slot].state
        /\ slot'[write.slot].image = image
        /\ slot'[write.slot].base = BaseOf
        /\ slot'[write.slot].dirty = (baseline # image)
    <2>. DEFINE new == [slot[write.slot] EXCEPT !.image = image,
                                                !.base = BaseOf,
                                                !.dirty = baseline # image]
    <2>1. slot[write.slot] \in SlotType
      BY <1>1 DEF SlotsTyped
    <2>2. /\ new \in SlotType /\ new.state = slot[write.slot].state
          /\ new.image = image /\ new.base = BaseOf
          /\ new.dirty = (baseline # image)
      BY <1>2, <2>1 DEF SlotType
    <2>3. slot' = [slot EXCEPT ![write.slot] = new]
      BY <1>1 DEF SlotsTyped
    <2>. HIDE DEF new, SlotType
    <2>. QED
      BY <1>1, <2>2, <2>3 DEF SlotsTyped
  <1>4. \A q \in Processes : /\ q # p => pc'[q] = pc[q]
                             /\ q = p => pc'[q] = "captured"
    BY DEF Goto, SlotsTyped
  <1>5. \A q \in Processes : q # p => pc'[q] \notin Producing
    BY <1>1, <1>4 DEF ProducerOwns
  <1>6. /\ history' \in Seq(Images) /\ Len(history') = sequence'
        /\ history'[sequence'] = image
        /\ \A n \in 1..sequence : history'[n] = history[n]
        /\ sequence' \in Nat /\ sequence' # 0
    BY DEF SlotsTyped, HistoryInv
  <1>7. SlotsTyped'
    BY <1>2, <1>3, <1>6 DEF SlotsTyped, Goto, Places
  <1>8. ProducerOwns'
    BY <1>1, <1>3, <1>4, <1>5 DEF ProducerOwns, Producing, Writing
  <1>9. Rebuilds(write.slot)'
    <2>1. CASE baseline # image
      BY <1>3, <2>1 DEF Rebuilds
    <2>2. CASE baseline = image
      <3>1. sequence # 0 /\ baseline = history[sequence] /\ BaseOf = sequence
        BY <2>2, SessionAssumption DEF HistoryInv, BaseOf
      <3>2. sequence \in 1..sequence /\ sequence \in 1..sequence'
        BY <3>1 DEF SlotsTyped
      <3>. QED
        BY <1>3, <1>6, <2>2, <3>1, <3>2 DEF Rebuilds
    <2>. QED
      BY <2>1, <2>2
  <1>10. \A i \in Slots : i # write.slot /\ Rebuilds(i) => Rebuilds(i)'
    <2>1. 1..sequence \subseteq 1..sequence'
      BY DEF SlotsTyped
    <2>. QED
      BY <1>3, <1>6, <2>1 DEF Rebuilds
  <1>11. HistoryInv'
    BY <1>1, <1>3, <1>4, <1>5, <1>6, <1>9, <1>10 DEF HistoryInv, Producing
  <1>12. NoMissedWakeup'
    BY <1>1, <1>3 DEF NoMissedWakeup, Ready, Has
  <1>. QED
    BY <1>7, <1>8, <1>11, <1>12

\* capture_into.
LEMMA SlotWritten ==
  ASSUME ConsumerInv, NEW p \in Processes, CaptureInto(p) \/ CaptureFails(p)
  PROVE  ConsumerInv'
  <1>1. /\ pc[p] = "write"
        /\ UNCHANGED <<running, asleep, cleared, producer, write, at>>
    BY DEF CaptureInto, CaptureFails, lifeVars
  <1>2. CASE CaptureFails(p)
    BY <1>1, <1>2, FrameLost DEF CaptureFails, ConsumerInv, SlotsTyped
  <1>3. CASE CaptureInto(p) /\ sequence < MaxSequence
    BY <1>1, <1>3, FrameCaptured DEF CaptureInto
  <1>4. CASE CaptureInto(p) /\ ~(sequence < MaxSequence)
    BY <1>1, <1>4, FrameLost DEF CaptureInto, Pictures
  <1>. QED
    BY <1>2, <1>3, <1>4

\* A producer leaves: its slot stays marked, or is free.
LEMMA ProducerGivesUp ==
  ASSUME ConsumerInv, NEW p \in Processes, NEW place \in Places,
         place \notin Producing,
         GiveUp(p, place) \/ Throws(p, place)
  PROVE  ConsumerInv'
  <1>1. /\ pc[p] \in Producing /\ Goto(p, place) /\ place # "captured"
        /\ place \notin Writing /\ place # "steal"
        /\ UNCHANGED <<sequence, baseline, history, running, asleep, cleared>>
    BY DEF GiveUp, Throws, Producing, Writing, frameVars, lifeVars
  <1>a. at' \in [Processes -> Nat]
    <2>1. at \in [Processes -> Nat]
      BY DEF ConsumerInv, SlotsTyped
    <2>2. at' = at \/ at' = [at EXCEPT ![p] = 0]
      BY DEF GiveUp, Throws
    <2>. QED
      BY <2>1, <2>2
  <1>2. write' \in WriteType
    <2>1. NoWrite \in WriteType
      BY SessionAssumption DEF NoWrite, WriteType
    <2>. QED
      BY <2>1 DEF GiveUp, Throws
  <1>3. UNCHANGED slot \/ SetState(write.slot, "free")
    BY DEF GiveUp, Throws, frameVars
  <1>4. /\ slot' \in [Slots -> SlotType]
        /\ \A i \in Slots :
              /\ slot'[i].image = slot[i].image
              /\ slot'[i].base = slot[i].base
              /\ slot'[i].dirty = slot[i].dirty
              /\ slot'[i].state \in {slot[i].state, "free", "writing"}
    <2>1. SlotsTyped /\ slot \in [Slots -> SlotType]
      BY DEF ConsumerInv, SlotsTyped
    <2>2. CASE UNCHANGED slot
      BY <2>1, <2>2
    <2>3. CASE SetState(write.slot, "free")
      <3>1. /\ slot' \in [Slots -> SlotType]
            /\ \A j \in Slots :
                  /\ slot'[j].image = slot[j].image
                  /\ slot'[j].base = slot[j].base
                  /\ slot'[j].dirty = slot[j].dirty
                  /\ slot'[j].state \in {slot[j].state, "free"}
        BY <2>1, <2>3, StateOnly
      <3>. QED
        BY <3>1
    <2>. QED
      BY <1>3, <2>2, <2>3
  <1>. QED
    BY <1>1, <1>a, <1>2, <1>4, Scan

\* A frame is published, or leased by its producer: everybody waiting is
\* woken by the former, and the latter makes no slot ready.
LEMMA FramePublished ==
  ASSUME ConsumerInv,
         WorkerPublishes \/ \E t \in Threads : LeaveCapture(t)
  PROVE  ConsumerInv'
  <1>. USE DEF ConsumerInv
  <1>1. PICK p \in Processes, place \in {"loop", "idle"},
             state \in {"ready", "reading"} :
           /\ pc[p] = "captured" /\ Goto(p, place)
           /\ slot' = [slot EXCEPT ![write.slot].state = state,
                                   ![write.slot].generation = sequence]
           /\ write' = NoWrite
           /\ state = "ready" => asleep' = {}
           /\ asleep' \in {asleep, {}}
    BY DEF WorkerPublishes, LeaveCapture, Processes
  <1>2. UNCHANGED <<sequence, baseline, history, cleared, running, at>>
    BY DEF WorkerPublishes, LeaveCapture, lifeVars
  <1>3. /\ write.slot \in Slots /\ producer = p
        /\ slot[write.slot].state \in {"writing", "free"}
        /\ Rebuilds(write.slot)
    BY <1>1 DEF ProducerOwns, HistoryInv, Writing, Producing
  <1>4. /\ slot' \in [Slots -> SlotType]
        /\ \A j \in Slots : /\ j # write.slot => slot'[j] = slot[j]
                            /\ slot'[j].image = slot[j].image
                            /\ slot'[j].base = slot[j].base
                            /\ slot'[j].dirty = slot[j].dirty
        /\ slot'[write.slot].state = state
    BY <1>1, <1>3 DEF SlotsTyped, SlotType
  <1>5. \A q \in Processes : /\ q # p => pc'[q] = pc[q]
                             /\ q = p => pc'[q] = place
    BY <1>1 DEF Goto, SlotsTyped
  <1>6. \A q \in Processes : pc'[q] \notin Producing
    BY <1>1, <1>3, <1>5 DEF ProducerOwns, Producing
  <1>w. write' \in WriteType
    BY <1>1, SessionAssumption DEF WriteType, NoWrite
  <1>7. SlotsTyped'
    BY <1>1, <1>2, <1>4, <1>w DEF SlotsTyped, Goto, Places
  <1>8. ProducerOwns'
    BY <1>6 DEF ProducerOwns, Producing, Writing
  <1>9. HistoryInv'
    BY <1>2, <1>3, <1>4, <1>6 DEF HistoryInv, Rebuilds, Producing
  <1>10. NoMissedWakeup'
    <2>1. CASE state = "ready"
      BY <1>1, <2>1 DEF NoMissedWakeup
    <2>2. CASE state = "reading"
      BY <1>1, <1>2, <1>3, <1>4, <2>2 DEF NoMissedWakeup, Ready, Has
    <2>. QED
      BY <2>1, <2>2
  <1>. QED
    BY <1>7, <1>8, <1>9, <1>10

\* Any step.
LEMMA ConsumerStep ==
  ASSUME ConsumerInv, [Next]_vars
  PROVE  ConsumerInv'
  <1>0. Worker \in Processes /\ Threads \subseteq Processes
    BY DEF Processes
  <1>1. ASSUME NEW p \in Processes, Produces(p)
        PROVE  ConsumerInv'
    BY <1>1, SlotFound, SlotWritten DEF Produces
  <1>2. CASE WorkerStep
    <2>1. CASE GiveUp(Worker, "loop") \/ Throws(Worker, "end")
      BY <1>0, <2>1, ProducerGivesUp DEF Places, Producing
    <2>. QED
      BY <1>0, <1>1, <1>2, <2>1, WorkerQuiet, SlotCleared, ProducerEnters,
         FramePublished DEF WorkerStep
  <1>3. ASSUME NEW t \in Threads, Enter(t)
        PROVE  ConsumerInv'
    BY <1>3, ControlQuiet, SlotFreed, ProducerEnters DEF Enter
  <1>4. ASSUME NEW t \in Threads, Continue(t)
        PROVE  ConsumerInv'
    <2>1. CASE GiveUp(t, "idle") \/ Throws(t, "idle")
      BY <1>0, <2>1, ProducerGivesUp DEF Places, Producing
    <2>. QED
      BY <1>0, <1>1, <1>4, <2>1, ControlQuiet, SlotFreed, SlotLeased,
         FramePublished DEF Continue
  <1>5. ASSUME NEW t \in Threads, TimedOut(t)
        PROVE  ConsumerInv'
    BY <1>5, ControlQuiet
  <1>6. CASE UNCHANGED vars
    BY <1>6, Quiet
    DEF vars, frameVars, lifeVars, produceVars, ConsumerInv, SlotsTyped,
        NoMissedWakeup
  <1>. QED
    BY <1>2, <1>3, <1>4, <1>5, <1>6 DEF Next

\* At first there is no frame, and nobody waits.
LEMMA ConsumerInit ==
  ASSUME Init
  PROVE  ConsumerInv
  <1>. USE DEF Init
  <1>1. SlotsTyped
    <2>1. [state |-> "free", generation |-> 0, image |-> NoImage, base |-> 0,
           dirty |-> TRUE] \in SlotType
      BY DEF SlotType, Pictures
    <2>2. NoWrite \in WriteType
      BY SessionAssumption DEF NoWrite, WriteType
    <2>3. NoImage \in Pictures /\ "idle" \in Places /\ <<>> \in Seq(Images)
      BY DEF Pictures, Places
    <2>. QED
      BY <2>1, <2>2, <2>3 DEF SlotsTyped, Processes
  <1>2. ProducerOwns
    BY DEF ProducerOwns, Processes, Producing, Writing
  <1>3. HistoryInv
    BY DEF HistoryInv, Processes
  <1>4. NoMissedWakeup
    BY DEF NoMissedWakeup
  <1>. QED
    BY <1>1, <1>2, <1>3, <1>4 DEF ConsumerInv

(* The dirty regions of every frame a consumer may see are complete with   *)
(* respect to the frame they are relative to, also after captures that     *)
(* failed, frames that were overwritten and numbers that ran out           *)
(* (capture_into, acquire_write_slot, worker_main).                        *)
THEOREM DirtyRegionsComplete == Spec => []DirtyComplete
  <1>1. Init => ConsumerInv
    BY ConsumerInit
  <1>2. ConsumerInv /\ [Next]_vars => ConsumerInv'
    BY ConsumerStep
  <1>3. ConsumerInv => DirtyComplete
    BY DEF ConsumerInv, HistoryInv, DirtyComplete, Rebuilds
  <1>. QED
    BY <1>1, <1>2, <1>3, PTL DEF Spec

(* Nobody sleeps in acquire_latest while a frame is ready or after the     *)
(* worker has ended, for any number of callers (event_mutex_, event_cv_).  *)
THEOREM NoWakeupMissed == Spec => []NoMissedWakeup
  <1>1. Init => ConsumerInv
    BY ConsumerInit
  <1>2. ConsumerInv /\ [Next]_vars => ConsumerInv'
    BY ConsumerStep
  <1>3. ConsumerInv => NoMissedWakeup
    BY DEF ConsumerInv
  <1>. QED
    BY <1>1, <1>2, <1>3, PTL DEF Spec
=============================================================================
