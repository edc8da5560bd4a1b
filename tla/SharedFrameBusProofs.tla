------------------------ MODULE SharedFrameBusProofs ------------------------
(***************************************************************************)
(* Proofs about SharedFrameBus for every number of slots, consumers,       *)
(* frames and registrations, and for every set of faults: processes may    *)
(* exit, devices may be removed, fences may fail or be lost, registrations *)
(* may fail.                                                               *)
(*                                                                         *)
(* First come type correctness and the access gate, proved together.  Then *)
(* frame safety.  The one thing to rule out there is that an index is      *)
(* given to another consumer while its old one is in the quarantine that   *)
(* follows a failed done fence (QuarantineOwn): then the properties are    *)
(* false, as MCBusIndexReuse.cfg shows.  While the fences work that cannot *)
(* happen.  Last comes that the bus implements FrameExchange.              *)
(***************************************************************************)
EXTENDS SharedFrameBus, TLAPS

-----------------------------------------------------------------------------
(* The gate.                                                               *)

\* A token is on record at the index the page shows it at; tokens not yet given
\* out belong to nobody.
TokensPaired ==
  /\ pubPc # "exited" => \A i \in Index : record[i] = access[i].token
  /\ \A i \in Index : access[i].token < nextToken /\ record[i] < nextToken
  /\ \A i \in Index : access[i].token # NoToken => index[access[i].token] = i
  /\ \A g \in Token : pc[g] # "none" => g < nextToken

\* The gate's count is 1 exactly while its live owner is inside.
GateCounts ==
  \A g \in Token :
    /\ InsideGate(g) => access[index[g]].token = g /\ access[index[g]].refs = 1
    /\ ~InsideGate(g) /\ Alive(g) /\ access[index[g]].token = g
         => access[index[g]].refs = 0

\* A sweep past its probe works for a consumer on record, and treats as dead
\* only one that is.
SweepSound ==
  pubPc \in {"slots", "finalize"} =>
    /\ record[sweepAt] # NoToken
    /\ sweepDead => ~Alive(record[sweepAt])

\* What the operation in progress needs later: a generation to give out.
OperationSound ==
  /\ pubPc \in {"probe", "slots", "finalize"} =>
       pubOp \in {"publish", "register", "unregister"}
  /\ pubPc \in {"claim", "cas"} => pubOp = "publish"
  /\ pubPc = "register" => pubOp = "register"
  /\ pubOp = "register" => nextToken <= MaxGeneration

\* A consumer past its scan has a candidate.
CandidateChosen ==
  \A g \in Token : pc[g] \in {"cas", "check", "take", "undo"} =>
    candidate[g] \in Slot

GateInv ==
  /\ TypeOK
  /\ TokensPaired
  /\ GateCounts
  /\ SweepSound
  /\ OperationSound
  /\ CandidateChosen

-----------------------------------------------------------------------------

\* The constants, as the provers want them.
LEMMA ConstantTypes ==
  /\ SlotCount \in Nat /\ SlotCount >= 2
  /\ MaxConsumers \in Nat /\ MaxConsumers >= 1
  /\ MaxSequence \in Nat
  /\ MaxGeneration \in Nat
  /\ 0 \in Slot
  /\ 0 \in Index
  /\ 0 \in Sequence
  /\ NoSlot \notin Slot
  /\ NoToken \notin Token
  /\ Lost \notin Sequence
BY SlotCountAssumption, MaxConsumersAssumption, MaxSequenceAssumption,
   MaxGenerationAssumption
DEF Slot, NoSlot, Index, Sequence, Token, NoToken, Lost

\* A bus that create has just mapped satisfies the invariant.
LEMMA InitGateInv == Init => GateInv
<1> SUFFICES ASSUME Init PROVE GateInv
  OBVIOUS
<1> USE ConstantTypes DEF Init
<1>1. PageTypeOK
  <2>1. NoAccess \in Access
    BY DEF Access, NoAccess
  <2> QED
    BY <2>1 DEF PageTypeOK
<1>2. PublisherTypeOK
  <2>1. nextToken \in 1 .. MaxGeneration + 1
    OBVIOUS
  <2>2. record \in [Index -> Token \cup {NoToken}]
    OBVIOUS
  <2>3. pubPc \in PubPcs /\ pubOp \in PubOps
    BY DEF PubPcs, PubOps
  <2> QED
    BY <2>1, <2>2, <2>3 DEF PublisherTypeOK
<1>3. ConsumerTypeOK
  BY DEF ConsumerTypeOK, ConPcs
<1>4. GpuTypeOK
  BY DEF GpuTypeOK
<1>5. TokensPaired
  BY DEF TokensPaired, NoAccess, NoToken
<1>6. GateCounts
  BY DEF GateCounts, InsideGate, GatePcs, NoAccess
<1>7. SweepSound /\ OperationSound /\ CandidateChosen
  BY DEF SweepSound, OperationSound, CandidateChosen
<1> QED
  BY <1>1, <1>2, <1>3, <1>4, <1>5, <1>6, <1>7 DEF GateInv, TypeOK

-----------------------------------------------------------------------------
(* Facts about the helpers.                                                *)

USE DEF pageVars, pubVars, sweepVars, scanVars, conVars, gpuVars

\* The step leaves every gate's owner and count alone; it may close gates.
SameGate ==
  /\ access' \in [Index -> Access]
  /\ \A i \in Index : /\ access'[i].token = access[i].token
                      /\ access'[i].refs = access[i].refs

\* close_consumer_access touches the open bit alone.
LEMMA CloseKeepsGate ==
  ASSUME NEW page \in [Index -> Access], NEW i \in Index, NEW t,
         NEW new, new = CloseConsumerAccess(page, i, t)
  PROVE  /\ new \in [Index -> Access]
         /\ \A j \in Index : /\ new[j].token = page[j].token
                             /\ new[j].tag = page[j].tag
                             /\ new[j].refs = page[j].refs
<1>1. CASE page[i].tag = t
  <2>1. new = [page EXCEPT ![i] = [@ EXCEPT !.open = FALSE]]
    BY <1>1 DEF CloseConsumerAccess
  <2>2. [page[i] EXCEPT !.open = FALSE] \in Access
    BY DEF Access
  <2> QED
    BY <2>1, <2>2 DEF Access
<1>2. CASE page[i].tag # t
  BY <1>2 DEF CloseConsumerAccess
<1> QED
  BY <1>1, <1>2

\* deactivate_locked, likewise.
LEMMA DeactivateKeepsGate ==
  ASSUME TypeOK, NEW g \in Token, Deactivate(g)
  PROVE  SameGate /\ closed' \in [Token -> BOOLEAN]
<1>1. access \in [Index -> Access] /\ index[g] \in Index
      /\ closed \in [Token -> BOOLEAN]
  BY DEF TypeOK, PageTypeOK, ConsumerTypeOK
<1>2. closed' \in [Token -> BOOLEAN]
  BY <1>1 DEF Deactivate
<1>3. CASE access[index[g]].token = g
  BY <1>1, <1>3, CloseKeepsGate DEF Deactivate, SameGate
<1>4. CASE access[index[g]].token # g
  BY <1>1, <1>4 DEF Deactivate, SameGate
<1> QED
  BY <1>2, <1>3, <1>4

\* The publisher's own variables after a return.
LEMMA PubReturnTypes ==
  ASSUME PubReturn
  PROVE  /\ pubPc' = "idle" /\ pubOp' = "none"
         /\ sweepAt' \in Index /\ sweepDead' \in BOOLEAN
         /\ sweepDone' \in Sequence \cup {Lost}
         /\ claimAt' \in Slot /\ claimed' \in Slot \cup {NoSlot}
BY ConstantTypes DEF PubReturn

\* The same after a sweep has moved on.
LEMMA SweepNextTypes ==
  ASSUME TypeOK, OperationSound, pubPc \in {"probe", "slots", "finalize"},
         NEW q, SweepNext(q)
  PROVE  /\ pubPc' \in {"idle", "probe", "claim", "register"}
         /\ pubOp' \in PubOps
         /\ sweepAt' \in Index /\ sweepDead' \in BOOLEAN
         /\ sweepDone' \in Sequence \cup {Lost}
         /\ claimAt' \in Slot /\ claimed' \in Slot \cup {NoSlot}
         /\ pubPc' = "idle" => pubOp' = "none"
         /\ pubPc' = "probe" => pubOp' = pubOp
         /\ pubPc' = "claim" => pubOp' = "publish" /\ pubOp = "publish"
         /\ pubPc' = "register" => pubOp' = "register" /\ pubOp = "register"
<1> USE ConstantTypes
<1>1. PublisherTypeOK
  BY DEF TypeOK
<1>2. CASE sweepAt + 1 < MaxConsumers
  <2>1. sweepAt + 1 \in Index
    BY <1>1, <1>2 DEF PublisherTypeOK, Index
  <2>2. /\ pubOp \in PubOps /\ pubOp # "none"
        /\ claimAt \in Slot /\ claimed \in Slot \cup {NoSlot}
    BY <1>1 DEF PublisherTypeOK, OperationSound
  <2>3. /\ sweepAt' = sweepAt + 1 /\ pubPc' = "probe" /\ sweepDead' = FALSE
        /\ sweepDone' = 0 /\ UNCHANGED <<pubOp, claimAt, claimed>>
    BY <1>2 DEF SweepNext
  <2> QED
    BY <2>1, <2>2, <2>3
<1>3. CASE ~(sweepAt + 1 < MaxConsumers)
  <2>1. CASE pubOp = "unregister" \/ (pubOp = "publish" /\ q = Slot)
    BY <1>3, <2>1, PubReturnTypes DEF SweepNext, PubOps
  <2>2. CASE ~(pubOp = "unregister" \/ (pubOp = "publish" /\ q = Slot))
    <3>1. /\ pubOp \in PubOps /\ pubOp \in {"publish", "register"}
          /\ claimAt \in Slot /\ claimed \in Slot \cup {NoSlot}
      BY <1>1, <2>2 DEF PublisherTypeOK, OperationSound
    <3>2. /\ pubPc' = IF pubOp = "publish" THEN "claim" ELSE "register"
          /\ sweepAt' = 0 /\ sweepDead' = FALSE /\ sweepDone' = 0
          /\ UNCHANGED <<pubOp, claimAt, claimed>>
      BY <1>3, <2>2 DEF SweepNext
    <3> QED
      BY <3>1, <3>2
  <2> QED
    BY <2>1, <2>2
<1> QED
  BY <1>2, <1>3

-----------------------------------------------------------------------------
(* Every step keeps TypeOK: the publisher's actions.                       *)

\* What an operation does when it starts a sweep.
LEMMA StartSweepTypes ==
  ASSUME PublisherTypeOK, NEW op \in PubOps, StartSweep(op),
         UNCHANGED <<record, poisoned, nextToken, writerSlot>>
  PROVE  PublisherTypeOK'
BY ConstantTypes DEF StartSweep, PublisherTypeOK, PubPcs

\* Calls on the publisher keep every variable in its range.
LEMMA PublisherOpTypes ==
  ASSUME GateInv, PublisherOp
  PROVE  TypeOK'
<1> USE ConstantTypes DEF GateInv, TypeOK
<1>1. CASE BeginPublish
  <2>1. PublisherTypeOK'
    BY <1>1, StartSweepTypes DEF BeginPublish, PubOps
  <2> QED
    BY <1>1, <2>1 DEF BeginPublish, PageTypeOK, ConsumerTypeOK, GpuTypeOK
<1>2. CASE BeginRegister
  <2>1. PublisherTypeOK'
    BY <1>2, StartSweepTypes DEF BeginRegister, PubOps
  <2> QED
    BY <1>2, <2>1 DEF BeginRegister, PageTypeOK, ConsumerTypeOK, GpuTypeOK
<1>3. ASSUME NEW g \in Token, UnregisterClose(g)
      PROVE  TypeOK'
  <2>1. access' \in [Index -> Access]
    BY <1>3, CloseKeepsGate
    DEF UnregisterClose, PageTypeOK, ConsumerTypeOK
  <2> QED
    BY <1>3, <2>1 DEF UnregisterClose, PageTypeOK, PublisherTypeOK,
                      ConsumerTypeOK, GpuTypeOK
<1>4. ASSUME NEW g \in Token, UnregisterSweep(g)
      PROVE  TypeOK'
  <2>1. PublisherTypeOK'
    BY <1>4, StartSweepTypes DEF UnregisterSweep, PubOps
  <2> QED
    BY <1>4, <2>1 DEF UnregisterSweep, PageTypeOK, ConsumerTypeOK, GpuTypeOK
<1>5. CASE CommitStore
  <2>1. sequence + 1 \in Sequence
    BY <1>5 DEF CommitStore, PageTypeOK, Sequence
  <2>2. PageTypeOK'
    BY <1>5, <2>1 DEF CommitStore, PageTypeOK
  <2> QED
    BY <1>5, <2>2
    DEF CommitStore, PublisherTypeOK, PubPcs, ConsumerTypeOK, GpuTypeOK
<1>6. CASE CancelWrite
  <2>1. PageTypeOK'
    BY <1>6 DEF CancelWrite, DropOwnership, PageTypeOK
  <2> QED
    BY <1>6, <2>1
    DEF CancelWrite, DropOwnership, PublisherTypeOK, ConsumerTypeOK, GpuTypeOK
<1> QED
  BY <1>1, <1>2, <1>3, <1>4, <1>5, <1>6 DEF PublisherOp

\* So do the steps inside a sweep, a claim and a commit,
LEMMA PublisherStepTypes ==
  ASSUME GateInv, PublisherStep
  PROVE  TypeOK'
<1> USE ConstantTypes DEF GateInv, TypeOK
<1>1. CASE SweepProbe
  <2>1. PublisherTypeOK'
    <3>1. CASE SweepNext(quarantine)
      BY <1>1, <3>1, SweepNextTypes DEF SweepProbe, PublisherTypeOK, PubPcs
    <3>2. CASE PubReturn
      BY <1>1, <3>2, PubReturnTypes
      DEF SweepProbe, PublisherTypeOK, PubPcs, PubOps
    <3>3. CASE /\ record[sweepAt] # NoToken
               /\ pubPc' \in {"finalize", "slots"}
               /\ sweepDead' = ~Alive(record[sweepAt])
               /\ sweepDone' \in {completed[record[sweepAt]]} \cup {Lost}
               /\ UNCHANGED <<pubOp, sweepAt, claimAt, claimed>>
      BY <1>1, <3>3 DEF SweepProbe, PublisherTypeOK, PubPcs, GpuTypeOK, Alive
    <3> QED
      BY <1>1, <3>1, <3>2, <3>3 DEF SweepProbe
  <2> QED
    BY <1>1, <2>1 DEF SweepProbe, PageTypeOK, ConsumerTypeOK, GpuTypeOK
<1>2. CASE SweepSlots
  <2>1. access' \in [Index -> Access]
    BY <1>2, CloseKeepsGate DEF SweepSlots, PageTypeOK, PublisherTypeOK
  <2>2. readers' \in [Slot -> SUBSET Index]
    BY <1>2 DEF SweepSlots, PageTypeOK
  <2>3. quarantine' \in SUBSET Slot
    BY <1>2 DEF SweepSlots, SweepGiveUp, PageTypeOK
  <2>4. PageTypeOK'
    BY <1>2, <2>1, <2>2, <2>3 DEF SweepSlots, PageTypeOK
  <2> QED
    BY <1>2, <2>4
    DEF SweepSlots, PublisherTypeOK, PubPcs, ConsumerTypeOK, GpuTypeOK
<1>3. CASE SweepFinalize
  <2>1. PageTypeOK' /\ record' \in [Index -> Token \cup {NoToken}]
        /\ poisoned' \in SUBSET Index
    <3>1. NoAccess \in Access
      BY DEF NoAccess, Access, NoToken
    <3>2. CASE FinalizeConsumer(sweepAt)
      BY <1>3, <3>1, <3>2
      DEF SweepFinalize, FinalizeConsumer, PageTypeOK, PublisherTypeOK
    <3>3. CASE UNCHANGED <<readers, access, record, poisoned>>
      BY <1>3, <3>3 DEF SweepFinalize, PageTypeOK, PublisherTypeOK
    <3> QED
      BY <1>3, <3>2, <3>3 DEF SweepFinalize
  <2>2. PublisherTypeOK'
    BY <1>3, <2>1, SweepNextTypes DEF SweepFinalize, PublisherTypeOK, PubPcs
  <2> QED
    BY <1>3, <2>1, <2>2 DEF SweepFinalize, ConsumerTypeOK, GpuTypeOK
<1>4. CASE ClaimScan
  <2>1. claimAt' \in Slot
    BY <1>4 DEF ClaimScan, PublisherTypeOK, Slot
  <2>2. PublisherTypeOK'
    BY <1>4, <2>1 DEF ClaimScan, PublisherTypeOK, PubPcs
  <2> QED
    BY <1>4, <2>2 DEF ClaimScan, PageTypeOK, ConsumerTypeOK, GpuTypeOK
<1>5. CASE ClaimSlot
  <2>1. PageTypeOK'
    BY <1>5 DEF ClaimSlot, PageTypeOK, PublisherTypeOK
  <2>2. PublisherTypeOK'
    BY <1>5, PubReturnTypes DEF ClaimSlot, PublisherTypeOK, PubPcs, PubOps
  <2> QED
    BY <1>5, <2>1, <2>2 DEF ClaimSlot, ConsumerTypeOK, GpuTypeOK
<1>6. CASE ClaimRetry
  <2>1. PublisherTypeOK'
    BY <1>6, PubReturnTypes DEF ClaimRetry, PublisherTypeOK, PubPcs, PubOps
  <2> QED
    BY <1>6, <2>1 DEF ClaimRetry, PageTypeOK, ConsumerTypeOK, GpuTypeOK
<1>7. CASE CommitClear
  <2>1. PageTypeOK'
    BY <1>7 DEF CommitClear, DropOwnership, PageTypeOK
  <2>2. PublisherTypeOK'
    BY <1>7, PubReturnTypes
    DEF CommitClear, DropOwnership, PublisherTypeOK, PubPcs, PubOps
  <2> QED
    BY <1>7, <2>1, <2>2 DEF CommitClear, ConsumerTypeOK, GpuTypeOK
<1>8. ASSUME NEW outcome \in {"ok", "failed", "poisoned"},
             RegisterConsumer(outcome)
      PROVE  TypeOK'
  <2>1. nextToken \in Token /\ nextToken + 1 \in 1 .. MaxGeneration + 1
    BY <1>8 DEF RegisterConsumer, OperationSound, PublisherTypeOK, Token
  <2>2. PICK i \in Index :
          /\ nextToken' = nextToken + 1
          /\ IF outcome = "failed"
             THEN UNCHANGED <<record, poisoned, access, index, pc>>
             ELSE /\ record' = [record EXCEPT ![i] = nextToken]
                  /\ poisoned' \in {poisoned, poisoned \cup {i}}
                  /\ access' = [access EXCEPT ![i] =
                       [token |-> nextToken,
                        tag |-> IF outcome = "ok" THEN nextToken ELSE NoToken,
                        open |-> outcome = "ok",
                        refs |-> 0]]
                  /\ index' = [index EXCEPT ![nextToken] = i]
                  /\ pc' = IF outcome = "ok"
                           THEN [pc EXCEPT ![nextToken] = "registered"] ELSE pc
    BY <1>8 DEF RegisterConsumer, FreeIndex
  <2>3. [token |-> nextToken,
         tag |-> IF outcome = "ok" THEN nextToken ELSE NoToken,
         open |-> outcome = "ok",
         refs |-> 0] \in Access
    BY <2>1 DEF Access
  <2>4. access' \in [Index -> Access]
    <3>1. CASE outcome = "failed"
      BY <2>2, <3>1 DEF PageTypeOK
    <3>2. CASE outcome # "failed"
      BY <2>2, <2>3, <3>2 DEF PageTypeOK
    <3> QED
      BY <3>1, <3>2
  <2>5. /\ record' \in [Index -> Token \cup {NoToken}]
        /\ poisoned' \in SUBSET Index
        /\ nextToken' \in 1 .. MaxGeneration + 1
    BY <2>1, <2>2 DEF PublisherTypeOK
  <2>6. index' \in [Token -> Index] /\ pc' \in [Token -> ConPcs]
    <3>1. index \in [Token -> Index] /\ pc \in [Token -> ConPcs]
          /\ "registered" \in ConPcs
      BY DEF ConsumerTypeOK, ConPcs
    <3> QED
      BY <2>1, <2>2, <3>1
  <2>7. PageTypeOK'
    BY <1>8, <2>4 DEF RegisterConsumer, PageTypeOK
  <2>8. PublisherTypeOK'
    BY <1>8, <2>5, PubReturnTypes
    DEF RegisterConsumer, PublisherTypeOK, PubPcs, PubOps
  <2> QED
    BY <1>8, <2>6, <2>7, <2>8 DEF RegisterConsumer, ConsumerTypeOK, GpuTypeOK
<1>9. CASE RegisterRefused
  <2>1. PublisherTypeOK'
    BY <1>9, PubReturnTypes DEF RegisterRefused, PublisherTypeOK, PubPcs, PubOps
  <2> QED
    BY <1>9, <2>1 DEF RegisterRefused, PageTypeOK, ConsumerTypeOK, GpuTypeOK
<1> QED
  BY <1>1, <1>2, <1>3, <1>4, <1>5, <1>6, <1>7, <1>8, <1>9 DEF PublisherStep

\* the end of the publisher,
LEMMA PublisherEndTypes ==
  ASSUME GateInv, PublisherEnd
  PROVE  TypeOK'
<1> USE ConstantTypes DEF GateInv, TypeOK
<1>1. CASE DestroyPublisher
  <2>1. access' \in [Index -> Access]
    <3>1. \A i \in Index :
            CloseConsumerAccess(access, i, record[i]) \in [Index -> Access]
      BY CloseKeepsGate DEF PageTypeOK
    <3> QED
      BY <1>1, <3>1 DEF DestroyPublisher, PageTypeOK
  <2>2. PageTypeOK'
    BY <1>1, <2>1 DEF DestroyPublisher, PageTypeOK
  <2> QED
    BY <1>1, <2>2
    DEF DestroyPublisher, PublisherTypeOK, PubPcs, ConsumerTypeOK, GpuTypeOK
<1>2. CASE PublisherExit
  <2>1. PublisherTypeOK'
    BY <1>2 DEF PublisherExit, PublisherTypeOK, PubPcs, PubOps
  <2> QED
    BY <1>2, <2>1 DEF PublisherExit, PageTypeOK, ConsumerTypeOK, GpuTypeOK
<1> QED
  BY <1>1, <1>2 DEF PublisherEnd

-----------------------------------------------------------------------------
(* Every step keeps TypeOK: the consumers' actions.                        *)

\* Retiring a prefix of the released acquisitions.
LEMMA RetireTypes ==
  ASSUME ConsumerTypeOK, NEW g \in Token, NEW k \in Slot, Retire(g, k)
  PROVE  /\ acquired' \in [Token -> [Slot -> Sequence]]
         /\ released' \in [Token -> SUBSET Slot]
<1>1. [j \in Slot |-> IF j \in Retired(g, k) THEN 0 ELSE acquired[g][j]]
        \in [Slot -> Sequence]
  BY ConstantTypes DEF ConsumerTypeOK
<1>2. (released[g] \cup {k}) \ Retired(g, k) \in SUBSET Slot
  BY DEF ConsumerTypeOK
<1> QED
  BY <1>1, <1>2 DEF Retire, ConsumerTypeOK

\* The next slot of the quarantine's loop, or its end.
LEMMA QuarantineNextTypes ==
  ASSUME TypeOK, NEW g \in Token, QuarantineNext(g)
  PROVE  /\ scanAt' \in [Token -> Slot]
         /\ pc' \in [Token -> ConPcs]
         /\ closed' \in [Token -> BOOLEAN]
         /\ acquired' \in [Token -> [Slot -> Sequence]]
         /\ released' \in [Token -> SUBSET Slot]
         /\ SameGate
         /\ pc' \in {[pc EXCEPT ![g] = "quarantine"], [pc EXCEPT ![g] = "idle"]}
<1> USE ConstantTypes DEF TypeOK
<1>1. /\ ConsumerTypeOK
      /\ "idle" \in ConPcs /\ "quarantine" \in ConPcs
  BY DEF ConPcs
<1>2. CASE scanAt[g] + 1 < SlotCount
  <2>1. scanAt[g] + 1 \in Slot
    BY <1>1, <1>2 DEF ConsumerTypeOK, Slot
  <2>2. /\ scanAt' = [scanAt EXCEPT ![g] = scanAt[g] + 1]
        /\ pc' = [pc EXCEPT ![g] = "quarantine"]
        /\ UNCHANGED <<access, closed, acquired, released>>
    BY <1>2 DEF QuarantineNext
  <2>3. SameGate
    BY <2>2 DEF SameGate, PageTypeOK
  <2>4. scanAt' \in [Token -> Slot] /\ pc' \in [Token -> ConPcs]
    BY <1>1, <2>1, <2>2 DEF ConsumerTypeOK
  <2> QED
    BY <1>1, <2>2, <2>3, <2>4 DEF ConsumerTypeOK
<1>3. CASE ~(scanAt[g] + 1 < SlotCount)
  <2>1. SameGate /\ closed' \in [Token -> BOOLEAN]
    BY <1>3, DeactivateKeepsGate DEF QuarantineNext
  <2>2. /\ scanAt' = [scanAt EXCEPT ![g] = 0]
        /\ pc' = [pc EXCEPT ![g] = "idle"]
        /\ acquired' = [acquired EXCEPT ![g] = [k \in Slot |-> 0]]
        /\ released' = [released EXCEPT ![g] = {}]
    BY <1>3 DEF QuarantineNext
  <2>3. scanAt' \in [Token -> Slot] /\ pc' \in [Token -> ConPcs]
    BY <1>1, <2>2 DEF ConsumerTypeOK
  <2>4. /\ acquired' \in [Token -> [Slot -> Sequence]]
        /\ released' \in [Token -> SUBSET Slot]
    BY <1>1, <2>2 DEF ConsumerTypeOK
  <2> QED
    BY <2>1, <2>2, <2>3, <2>4
<1> QED
  BY <1>2, <1>3

\* a consumer's calls,
LEMMA ConsumerOpTypes ==
  ASSUME GateInv, NEW g \in Token, ConsumerOp(g)
  PROVE  TypeOK'
<1> USE DEF GateInv, TypeOK
<1>1. CASE OpenConsumer(g)
  BY <1>1 DEF OpenConsumer, PageTypeOK, PublisherTypeOK, ConsumerTypeOK, ConPcs,
              GpuTypeOK
<1>2. CASE OpenFails(g)
  <2>1. SameGate /\ closed' \in [Token -> BOOLEAN]
    BY <1>2, DeactivateKeepsGate DEF OpenFails
  <2>2. PageTypeOK'
    BY <1>2, <2>1 DEF OpenFails, PageTypeOK, SameGate
  <2>3. ConsumerTypeOK'
    BY <1>2, <2>1 DEF OpenFails, ConsumerTypeOK, ConPcs
  <2> QED
    BY <1>2, <2>2, <2>3 DEF OpenFails, PublisherTypeOK, GpuTypeOK
<1>3. CASE RequestClose(g)
  BY <1>3 DEF RequestClose, PageTypeOK, PublisherTypeOK, ConsumerTypeOK,
              GpuTypeOK
<1>4. CASE AcquireCall(g)
  BY <1>4 DEF AcquireCall, PageTypeOK, PublisherTypeOK, ConsumerTypeOK, ConPcs,
              GpuTypeOK
<1> QED
  BY <1>1, <1>2, <1>3, <1>4 DEF ConsumerOp

\* the steps inside acquire_latest and the quarantine,
LEMMA ConsumerStepTypes ==
  ASSUME GateInv, NEW g \in Token, ConsumerStep(g)
  PROVE  TypeOK'
<1> USE ConstantTypes DEF GateInv, TypeOK
<1>1. CASE CloseConsumer(g)
  <2>1. /\ access' \in [Index -> Access]
        /\ closed' \in [Token -> BOOLEAN]
        /\ closeReq' \in [Token -> BOOLEAN]
    BY <1>1, DeactivateKeepsGate
    DEF CloseConsumer, PageTypeOK, ConsumerTypeOK, SameGate
  <2> QED
    BY <1>1, <2>1 DEF CloseConsumer, PageTypeOK, PublisherTypeOK,
                      ConsumerTypeOK, GpuTypeOK
<1>2. CASE EnterAccess(g)
  <2>1. access' \in [Index -> Access]
    <3>1. CASE MayEnter(g)
      <4>1. access[index[g]] \in Access /\ access[index[g]].refs = 0
        BY <1>2, <3>1 DEF EnterAccess, MayEnter, PageTypeOK, ConsumerTypeOK,
                          GateCounts, InsideGate, GatePcs, Alive
      <4>2. [access[index[g]] EXCEPT !.refs = @ + 1] \in Access
        BY <4>1 DEF Access
      <4> QED
        BY <1>2, <3>1, <4>2 DEF EnterAccess, PageTypeOK, ConsumerTypeOK
    <3>2. CASE ~MayEnter(g)
      BY <1>2, <3>2 DEF EnterAccess, PageTypeOK
    <3> QED
      BY <3>1, <3>2
  <2>2. PageTypeOK'
    BY <1>2, <2>1 DEF EnterAccess, PageTypeOK
  <2>3. ConsumerTypeOK'
    <3>1. CASE MayEnter(g)
      <4>1. pc' \in [Token -> ConPcs]
        BY <1>2, <3>1 DEF EnterAccess, ConsumerTypeOK, ConPcs
      <4>2. newest' \in [Token -> Sequence]
        <5>1. newest' = [newest EXCEPT ![g] = observed[g]]
          BY <1>2, <3>1 DEF EnterAccess
        <5> QED
          BY <5>1 DEF ConsumerTypeOK
      <4> QED
        BY <1>2, <4>1, <4>2 DEF EnterAccess, ConsumerTypeOK
    <3>2. CASE ~MayEnter(g)
      BY <1>2, <3>2 DEF EnterAccess, ConsumerTypeOK, ConPcs
    <3> QED
      BY <3>1, <3>2
  <2> QED
    BY <1>2, <2>2, <2>3 DEF EnterAccess, PublisherTypeOK, GpuTypeOK
<1>3. CASE ScanSlot(g)
  <2>1. scanAt' \in [Token -> Slot]
    <3>1. scanAt[g] + 1 < SlotCount => scanAt[g] + 1 \in Slot
      BY DEF ConsumerTypeOK, Slot
    <3> QED
      BY <1>3, <3>1 DEF ScanSlot, ConsumerTypeOK
  <2>4. candidate' \in [Token -> Slot \cup {NoSlot}]
    BY <1>3 DEF ScanSlot, ConsumerTypeOK
  <2>2. newest' \in [Token -> Sequence]
    BY <1>3 DEF ScanSlot, ConsumerTypeOK, PageTypeOK
  <2>3. pc' \in [Token -> ConPcs]
    BY <1>3 DEF ScanSlot, ConsumerTypeOK, ConPcs
  <2>5. UNCHANGED <<pageVars, pubVars, index, closed, closeReq,
                    observed, acquired, released, gpuVars>>
    BY <1>3 DEF ScanSlot
  <2>6. PageTypeOK'
    BY <2>5 DEF PageTypeOK
  <2>7. PublisherTypeOK'
    BY <2>5 DEF PublisherTypeOK
  <2>8. ConsumerTypeOK'
    BY <2>1, <2>2, <2>3, <2>4, <2>5 DEF ConsumerTypeOK
  <2>9. GpuTypeOK'
    BY <2>5 DEF GpuTypeOK
  <2> QED
    BY <2>6, <2>7, <2>8, <2>9
<1>4. CASE SetReaderBit(g)
  <2>1. readers' \in [Slot -> SUBSET Index] /\ pc' \in [Token -> ConPcs]
    <3>1. index[g] \in Index
      BY DEF ConsumerTypeOK
    <3>2. readers' \in [Slot -> SUBSET Index]
      <4>1. readers \in [Slot -> SUBSET Index]
        BY DEF PageTypeOK
      <4>2. \/ UNCHANGED readers
            \/ readers' = [readers EXCEPT ![candidate[g]] = @ \cup {index[g]}]
        BY <1>4 DEF SetReaderBit
      <4> QED
        BY ONLY <3>1, <4>1, <4>2
    <3>3. pc' \in [Token -> ConPcs]
      <4>1. pc \in [Token -> ConPcs]
        BY DEF ConsumerTypeOK
      <4>2. \/ pc' = [pc EXCEPT ![g] = "leave"]
            \/ pc' = [pc EXCEPT ![g] = "check"]
        BY <1>4 DEF SetReaderBit
      <4> QED
        BY <4>1, <4>2 DEF ConPcs
    <3> QED
      BY <3>2, <3>3
  <2> QED
    BY <1>4, <2>1 DEF SetReaderBit, PageTypeOK, PublisherTypeOK, ConsumerTypeOK,
                      GpuTypeOK
<1>5. CASE CheckStable(g)
  BY <1>5 DEF CheckStable, PageTypeOK, PublisherTypeOK, ConsumerTypeOK, ConPcs,
              GpuTypeOK
<1>6. CASE UndoReaderBit(g)
  BY <1>6 DEF UndoReaderBit, PageTypeOK, PublisherTypeOK, ConsumerTypeOK,
              ConPcs, GpuTypeOK
<1>7. CASE TakeFrame(g)
  <2>1. candidate[g] \in Slot /\ newest[g] \in Sequence
    BY <1>7 DEF TakeFrame, CandidateChosen, ConsumerTypeOK
  <2>2. readers' \in [Slot -> SUBSET Index] /\ quarantine' \in SUBSET Slot
    BY <1>7, <2>1 DEF TakeFrame, PageTypeOK
  <2>3. pc' \in [Token -> ConPcs] /\ observed' \in [Token -> Sequence]
    BY <1>7, <2>1 DEF TakeFrame, ConsumerTypeOK, ConPcs
  <2>4. acquired' \in [Token -> [Slot -> Sequence]]
    <3>1. [acquired[g] EXCEPT ![candidate[g]] = newest[g]]
            \in [Slot -> Sequence]
      BY <2>1 DEF ConsumerTypeOK
    <3> QED
      BY <1>7, <3>1 DEF TakeFrame, ConsumerTypeOK
  <2>5. reads' \in [Token -> SUBSET (Slot \X Sequence)]
    BY <1>7, <2>1 DEF TakeFrame, GpuTypeOK
  <2> QED
    BY <1>7, <2>2, <2>3, <2>4, <2>5
    DEF TakeFrame, PageTypeOK, PublisherTypeOK, ConsumerTypeOK, GpuTypeOK
<1>8. CASE LeaveAccess(g)
  <2>1. /\ LeaveGate(index[g]) \in [Index -> Access]
        /\ index[g] \in Index
    <3>1. /\ index[g] \in Index
          /\ access[index[g]] \in Access
          /\ access[index[g]].refs = 1
      BY <1>8 DEF LeaveAccess, PageTypeOK, ConsumerTypeOK, GateCounts,
                  InsideGate, GatePcs
    <3>2. [access[index[g]] EXCEPT !.refs = @ - 1] \in Access
      BY <3>1 DEF Access
    <3> QED
      BY <3>1, <3>2 DEF LeaveGate, PageTypeOK
  <2>2. CloseConsumerAccess(LeaveGate(index[g]), index[g], g)
          \in [Index -> Access]
    BY <2>1, CloseKeepsGate
  <2>3. access' \in [Index -> Access] /\ closed' \in [Token -> BOOLEAN]
    BY <1>8, <2>1, <2>2 DEF LeaveAccess, ConsumerTypeOK
  <2>4. ConsumerTypeOK'
    BY <1>8, <2>3 DEF LeaveAccess, ConsumerTypeOK, ConPcs
  <2> QED
    BY <1>8, <2>3, <2>4
    DEF LeaveAccess, PageTypeOK, PublisherTypeOK, GpuTypeOK
<1>9. CASE QuarantineTest(g)
  <2>1. CASE index[g] \in readers[scanAt[g]]
    BY <1>9, <2>1 DEF QuarantineTest, PageTypeOK, PublisherTypeOK,
                      ConsumerTypeOK, ConPcs, GpuTypeOK
  <2>2. CASE QuarantineNext(g)
    BY <1>9, <2>2, QuarantineNextTypes
    DEF QuarantineTest, PageTypeOK, PublisherTypeOK, ConsumerTypeOK, GpuTypeOK,
        SameGate
  <2> QED
    BY <1>9, <2>1, <2>2 DEF QuarantineTest
<1>10. CASE QuarantineOr(g)
  BY <1>10 DEF QuarantineOr, PageTypeOK, PublisherTypeOK, ConsumerTypeOK,
               ConPcs, GpuTypeOK
<1>11. CASE QuarantineAnd(g)
  <2>1. readers' \in [Slot -> SUBSET Index]
    BY <1>11 DEF QuarantineAnd, PageTypeOK
  <2> QED
    BY <1>11, <2>1, QuarantineNextTypes
    DEF QuarantineAnd, PageTypeOK, PublisherTypeOK, ConsumerTypeOK, GpuTypeOK,
        SameGate
<1> QED
  BY <1>1, <1>2, <1>3, <1>4, <1>5, <1>6, <1>7, <1>8, <1>9, <1>10, <1>11
  DEF ConsumerStep

\* and releases, faults and fence signals.
LEMMA ConsumerRestTypes ==
  ASSUME GateInv, NEW g \in Token,
         ConsumerRelease(g) \/ ConsumerFault(g) \/ GpuSignal(g)
  PROVE  TypeOK'
<1> USE ConstantTypes DEF GateInv, TypeOK
<1>1. ASSUME NEW k \in Slot, ReleaseFrame(g, k)
      PROVE  TypeOK'
  <2>1. signals' \in [Token -> SUBSET Sequence]
    BY <1>1 DEF ReleaseFrame, GpuTypeOK
  <2> QED
    BY <1>1, <2>1, RetireTypes
    DEF ReleaseFrame, PageTypeOK, PublisherTypeOK, ConsumerTypeOK, GpuTypeOK
<1>2. CASE AcquireTimeout(g)
  BY <1>2 DEF AcquireTimeout, PageTypeOK, PublisherTypeOK, ConsumerTypeOK,
              ConPcs, GpuTypeOK
<1>3. CASE WaitFails(g)
  BY <1>3 DEF WaitFails, PageTypeOK, PublisherTypeOK, ConsumerTypeOK, ConPcs,
              GpuTypeOK
<1>4. ASSUME NEW k \in Slot, ReleaseFails(g, k)
      PROVE  TypeOK'
  <2>1. signals' \in [Token -> SUBSET Sequence]
    BY <1>4 DEF ReleaseFails, GpuTypeOK
  <2>2. pc' \in [Token -> ConPcs]
    BY <1>4 DEF ReleaseFails, ConsumerTypeOK, ConPcs
  <2> QED
    BY <1>4, <2>1, <2>2, RetireTypes
    DEF ReleaseFails, PageTypeOK, PublisherTypeOK, ConsumerTypeOK, GpuTypeOK
<1>5. CASE ConsumerExit(g)
  BY <1>5 DEF ConsumerExit, PageTypeOK, PublisherTypeOK, ConsumerTypeOK, ConPcs,
              GpuTypeOK
<1>6. CASE GpuSignal(g)
  <2>1. GpuTypeOK'
    BY <1>6 DEF GpuSignal, GpuTypeOK
  <2> QED
    BY <1>6, <2>1 DEF GpuSignal, PageTypeOK, PublisherTypeOK, ConsumerTypeOK
<1> QED
  BY <1>1, <1>2, <1>3, <1>4, <1>5, <1>6 DEF ConsumerRelease, ConsumerFault

\* Every step keeps every variable in its range.
LEMMA TypeStep ==
  ASSUME GateInv, [Next]_vars
  PROVE  TypeOK'
<1>1. CASE Next
  BY <1>1, PublisherOpTypes, PublisherStepTypes, PublisherEndTypes,
     ConsumerOpTypes, ConsumerStepTypes, ConsumerRestTypes DEF Next
<1>2. CASE UNCHANGED vars
  BY <1>2 DEF vars, GateInv, TypeOK, PageTypeOK, PublisherTypeOK,
              ConsumerTypeOK, GpuTypeOK
<1> QED
  BY <1>1, <1>2

-----------------------------------------------------------------------------
(* Every step keeps the gate's invariant.                                  *)

\* The rest of GateInv, for steps of the publisher and of a consumer that leave
\* the owners and counts of the gates alone.
LEMMA PublisherFrame ==
  ASSUME GateInv, SameGate, UNCHANGED <<record, nextToken, conVars>>,
         pubPc # "exited"
  PROVE  TokensPaired' /\ GateCounts' /\ CandidateChosen'
<1> USE DEF GateInv, TypeOK, SameGate
<1>1. TokensPaired'
  BY DEF TokensPaired
<1>2. GateCounts'
  BY DEF GateCounts, InsideGate, Alive, ConsumerTypeOK
<1>3. CandidateChosen'
  BY DEF CandidateChosen
<1> QED
  BY <1>1, <1>2, <1>3

\* A consumer that stays on its side of the gate keeps the gate parts of the
\* invariant.
LEMMA ConsumerFrame ==
  ASSUME GateInv, SameGate, UNCHANGED <<pubVars, index>>,
         NEW g \in Token, NEW next \in ConPcs, pc' = [pc EXCEPT ![g] = next],
         pc[g] \notin {"none", "exited"}, next \notin {"none", "exited"},
         pc[g] \in GatePcs <=> next \in GatePcs
  PROVE  TokensPaired' /\ GateCounts' /\ SweepSound' /\ OperationSound'
<1> USE DEF GateInv, TypeOK, SameGate, ConsumerTypeOK
<1>1. TokensPaired'
  BY DEF TokensPaired
<1>2. GateCounts'
  <2> SUFFICES ASSUME NEW h \in Token
               PROVE  /\ (InsideGate(h))' =>
                           /\ access'[index[h]].token = h
                           /\ access'[index[h]].refs = 1
                      /\ /\ ~(InsideGate(h))'
                         /\ (Alive(h))'
                         /\ access'[index[h]].token = h
                         => access'[index[h]].refs = 0
    BY DEF GateCounts
  <2>1. (InsideGate(h))' = InsideGate(h) /\ (Alive(h))' = Alive(h)
    BY DEF InsideGate, Alive
  <2>2. index[h] \in Index
    OBVIOUS
  <2> QED
    BY <2>1, <2>2 DEF GateCounts
<1>3. SweepSound'
  BY DEF SweepSound, Alive, PublisherTypeOK
<1>4. OperationSound'
  BY DEF OperationSound
<1> QED
  BY <1>1, <1>2, <1>3, <1>4

\* GateInv without TypeOK, which TypeStep has dealt with.
GateRest ==
  /\ TokensPaired
  /\ GateCounts
  /\ SweepSound
  /\ OperationSound
  /\ CandidateChosen

\* Calls on the publisher keep the gate parts of the invariant.
LEMMA PublisherOpGate ==
  ASSUME GateInv, PublisherOp
  PROVE  GateRest'
<1> USE DEF GateInv, TypeOK, GateRest
<1>1. CASE BeginPublish
  <2>1. SameGate
    BY <1>1 DEF BeginPublish, SameGate, PageTypeOK
  <2>2. SweepSound' /\ OperationSound'
    BY <1>1 DEF BeginPublish, StartSweep, SweepSound, OperationSound
  <2> QED
    BY <1>1, <2>1, <2>2, PublisherFrame DEF BeginPublish, StartSweep
<1>2. CASE BeginRegister
  <2>1. SameGate
    BY <1>2 DEF BeginRegister, SameGate, PageTypeOK
  <2>2. SweepSound' /\ OperationSound'
    BY <1>2 DEF BeginRegister, StartSweep, SweepSound, OperationSound
  <2> QED
    BY <1>2, <2>1, <2>2, PublisherFrame DEF BeginRegister, StartSweep
<1>3. ASSUME NEW g \in Token, UnregisterClose(g)
      PROVE  GateRest'
  <2>1. SameGate
    <3>1. /\ access \in [Index -> Access] /\ index[g] \in Index
          /\ access' = CloseConsumerAccess(access, index[g], g)
      BY <1>3 DEF UnregisterClose, PageTypeOK, ConsumerTypeOK
    <3> QED
      BY <3>1, CloseKeepsGate DEF SameGate
  <2>2. SweepSound' /\ OperationSound'
    BY <1>3 DEF UnregisterClose, SweepSound, OperationSound
  <2> QED
    BY <1>3, <2>1, <2>2, PublisherFrame DEF UnregisterClose
<1>4. ASSUME NEW g \in Token, UnregisterSweep(g)
      PROVE  GateRest'
  <2>1. SameGate
    BY <1>4 DEF UnregisterSweep, SameGate, PageTypeOK
  <2>2. SweepSound' /\ OperationSound'
    BY <1>4 DEF UnregisterSweep, StartSweep, SweepSound, OperationSound
  <2> QED
    BY <1>4, <2>1, <2>2, PublisherFrame DEF UnregisterSweep, StartSweep
<1>5. CASE CommitStore
  <2>1. SameGate
    BY <1>5 DEF CommitStore, SameGate, PageTypeOK
  <2>2. SweepSound' /\ OperationSound'
    BY <1>5 DEF CommitStore, SweepSound, OperationSound
  <2> QED
    BY <1>5, <2>1, <2>2, PublisherFrame DEF CommitStore
<1>6. CASE CancelWrite
  <2>1. SameGate
    BY <1>6 DEF CancelWrite, SameGate, PageTypeOK
  <2>2. SweepSound' /\ OperationSound'
    BY <1>6 DEF CancelWrite, SweepSound, OperationSound
  <2> QED
    BY <1>6, <2>1, <2>2, PublisherFrame DEF CancelWrite
<1> QED
  BY <1>1, <1>2, <1>3, <1>4, <1>5, <1>6 DEF PublisherOp

\* finalize_consumer_locked: nobody is inside the gate of the index it frees.
LEMMA FinalizeGate ==
  ASSUME GateInv, SweepFinalize
  PROVE  TokensPaired' /\ GateCounts' /\ CandidateChosen'
<1> USE DEF GateInv, TypeOK
<1>1. /\ sweepAt \in Index /\ record \in [Index -> Token \cup {NoToken}]
      /\ access \in [Index -> Access] /\ index \in [Token -> Index]
      /\ record[sweepAt] = access[sweepAt].token
      /\ UNCHANGED <<nextToken, index, pc, candidate>>
  BY DEF SweepFinalize, PageTypeOK, PublisherTypeOK, ConsumerTypeOK,
         TokensPaired
<1>2. CASE Reclaimable(sweepAt)
  <2>1. /\ access' = [access EXCEPT ![sweepAt] = NoAccess]
        /\ record' = [record EXCEPT ![sweepAt] = NoToken]
    BY <1>1, <1>2 DEF SweepFinalize, FinalizeConsumer
  <2>2. \A g \in Token : InsideGate(g) => index[g] # sweepAt
    BY <1>1, <1>2 DEF Reclaimable, GateCounts, SweepSound, SweepFinalize,
                      InsideGate, GatePcs, Alive
  <2>3. \A i \in Index : i # sweepAt => access'[i] = access[i]
    BY <1>1, <2>1
  <2>4. access'[sweepAt].token = NoToken
    BY <1>1, <2>1 DEF NoAccess
  <2>5. TokensPaired'
    <3>1. nextToken > 0 /\ NoToken = 0
      BY DEF PublisherTypeOK, NoToken
    <3>2. \A i \in Index : record'[i] = access'[i].token
      BY <1>1, <2>1, <2>3, <2>4 DEF TokensPaired, SweepFinalize
    <3> QED
      BY <1>1, <2>1, <2>3, <2>4, <3>1, <3>2 DEF TokensPaired
  <2>6. GateCounts'
    BY <1>1, <2>2, <2>3, <2>4, ConstantTypes
    DEF GateCounts, InsideGate, Alive
  <2> QED
    BY <1>1, <2>5, <2>6 DEF CandidateChosen
<1>3. CASE ~Reclaimable(sweepAt)
  <2>1. UNCHANGED <<access, record>>
    BY <1>3 DEF SweepFinalize
  <2> QED
    BY <1>1, <2>1, PublisherFrame DEF SweepFinalize, SameGate
<1> QED
  BY <1>2, <1>3

\* register_consumer: the index was free, the token is new.
LEMMA RegisterGate ==
  ASSUME GateInv, NEW outcome \in {"ok", "failed", "poisoned"},
         RegisterConsumer(outcome)
  PROVE  TokensPaired' /\ GateCounts' /\ CandidateChosen'
<1> USE ConstantTypes DEF GateInv, TypeOK
<1>1. /\ record \in [Index -> Token \cup {NoToken}]
      /\ access \in [Index -> Access] /\ index \in [Token -> Index]
      /\ pc \in [Token -> ConPcs] /\ nextToken \in Token
      /\ nextToken' = nextToken + 1 /\ UNCHANGED candidate
      /\ pubPc # "exited" /\ pubPc' # "exited"
  BY DEF RegisterConsumer, PubReturn, PageTypeOK, PublisherTypeOK,
         ConsumerTypeOK, OperationSound, Token
<1>2. \A i \in Index : record[i] = access[i].token /\ record[i] < nextToken
  BY <1>1 DEF TokensPaired
<1>3. pc[nextToken] = "none" /\ ~InsideGate(nextToken)
  BY <1>1 DEF TokensPaired, InsideGate, GatePcs, Token
<1>4. CASE outcome = "failed"
  <2>1. UNCHANGED <<record, access, index, pc>>
    BY <1>4 DEF RegisterConsumer
  <2>2. TokensPaired'
    <3>1. \A t \in Token \cup {NoToken} : t < nextToken => t < nextToken + 1
      BY <1>1 DEF Token, NoToken
    <3>2. \A i \in Index : access[i].token \in Token \cup {NoToken}
      BY <1>1 DEF Access
    <3> QED
      BY <1>1, <2>1, <3>1, <3>2 DEF TokensPaired
  <2> QED
    BY <1>1, <2>1, <2>2 DEF GateCounts, InsideGate, Alive, CandidateChosen
<1>5. CASE outcome # "failed"
  <2>1. PICK i \in Index :
          /\ record[i] = NoToken
          /\ record' = [record EXCEPT ![i] = nextToken]
          /\ access' = [access EXCEPT ![i] =
               [token |-> nextToken,
                tag |-> IF outcome = "ok" THEN nextToken ELSE NoToken,
                open |-> outcome = "ok",
                refs |-> 0]]
          /\ index' = [index EXCEPT ![nextToken] = i]
          /\ pc' \in {pc, [pc EXCEPT ![nextToken] = "registered"]}
    BY <1>5 DEF RegisterConsumer, FreeIndex
  <2>2. /\ access'[i].token = nextToken /\ access'[i].refs = 0
        /\ record'[i] = nextToken /\ index'[nextToken] = i
        /\ \A j \in Index : j # i => /\ access'[j] = access[j]
                                     /\ record'[j] = record[j]
        /\ \A g \in Token : g # nextToken => /\ index'[g] = index[g]
                                             /\ pc'[g] = pc[g]
        /\ pc'[nextToken] \in {"none", "registered"}
    BY <1>1, <1>3, <2>1
  <2>3. TokensPaired'
    <3>1. \A j \in Index : /\ record'[j] = access'[j].token
                           /\ record'[j] < nextToken + 1
      BY <1>1, <1>2, <2>2 DEF Token, NoToken
    <3>2. \A j \in Index : j # i /\ access[j].token # NoToken =>
            access[j].token \in Token /\ access[j].token # nextToken
      BY <1>1, <1>2 DEF Access, Token
    <3>3. \A j \in Index : access'[j].token # NoToken =>
            index'[access'[j].token] = j
      BY <1>1, <2>2, <3>2 DEF TokensPaired
    <3>4. \A g \in Token : pc'[g] # "none" => g < nextToken + 1
      BY <1>1, <2>2 DEF TokensPaired, Token
    <3> QED
      BY <1>1, <3>1, <3>3, <3>4 DEF TokensPaired
  <2>4. GateCounts'
    <3> SUFFICES ASSUME NEW g \in Token
                 PROVE  /\ (InsideGate(g))' =>
                             /\ access'[index'[g]].token = g
                             /\ access'[index'[g]].refs = 1
                        /\ /\ ~(InsideGate(g))'
                           /\ (Alive(g))'
                           /\ access'[index'[g]].token = g
                           => access'[index'[g]].refs = 0
      BY DEF GateCounts
    <3>1. CASE g = nextToken
      BY <2>2, <3>1 DEF InsideGate, GatePcs
    <3>2. CASE g # nextToken /\ index[g] = i
      <4>1. access[i].token # g
        BY <1>2, <2>1 DEF Token, NoToken
      <4> QED
        BY <2>2, <3>2, <4>1 DEF InsideGate, GateCounts
    <3>3. CASE g # nextToken /\ index[g] # i
      <4>1. index[g] \in Index
        BY <1>1
      <4> QED
        BY <2>2, <3>3, <4>1 DEF InsideGate, Alive, GateCounts
    <3> QED
      BY <3>1, <3>2, <3>3
  <2>5. CandidateChosen'
    BY <1>1, <2>2 DEF CandidateChosen
  <2> QED
    BY <2>3, <2>4, <2>5
<1> QED
  BY <1>4, <1>5

\* So do the steps inside its operations,
LEMMA PublisherStepGate ==
  ASSUME GateInv, PublisherStep
  PROVE  GateRest'
<1> USE DEF GateInv, TypeOK, GateRest
<1>1. CASE SweepProbe
  <2>1. SameGate
    BY <1>1 DEF SweepProbe, SameGate, PageTypeOK
  <2>2. SweepSound' /\ OperationSound'
    <3>1. CASE SweepNext(quarantine)
      BY <1>1, <3>1, SweepNextTypes DEF SweepProbe, SweepSound, OperationSound
    <3>2. CASE PubReturn
      BY <1>1, <3>2, PubReturnTypes DEF SweepProbe, SweepSound, OperationSound
    <3>3. CASE /\ record[sweepAt] # NoToken
               /\ pubPc' \in {"finalize", "slots"}
               /\ sweepDead' = ~Alive(record[sweepAt])
               /\ UNCHANGED <<pubOp, sweepAt>>
      BY <1>1, <3>3 DEF SweepProbe, SweepSound, OperationSound, Alive
    <3> QED
      BY <1>1, <3>1, <3>2, <3>3 DEF SweepProbe
  <2> QED
    BY <1>1, <2>1, <2>2, PublisherFrame DEF SweepProbe
<1>2. CASE SweepSlots
  <2>1. SameGate
    <3>1. /\ access \in [Index -> Access] /\ sweepAt \in Index
          /\ access' \in {access,
                          CloseConsumerAccess(access, sweepAt, record[sweepAt])}
      BY <1>2 DEF SweepSlots, PageTypeOK, PublisherTypeOK
    <3> QED
      BY <3>1, CloseKeepsGate DEF SameGate
  <2>2. SweepSound' /\ OperationSound'
    BY <1>2 DEF SweepSlots, SweepSound, OperationSound, Alive
  <2> QED
    BY <1>2, <2>1, <2>2, PublisherFrame DEF SweepSlots
<1>3. CASE SweepFinalize
  <2>1. SweepSound' /\ OperationSound'
    BY <1>3, SweepNextTypes DEF SweepFinalize, SweepSound, OperationSound
  <2> QED
    BY <1>3, <2>1, FinalizeGate
<1>4. CASE ClaimScan
  <2>1. SameGate
    BY <1>4 DEF ClaimScan, SameGate, PageTypeOK
  <2>2. SweepSound' /\ OperationSound'
    BY <1>4 DEF ClaimScan, SweepSound, OperationSound
  <2> QED
    BY <1>4, <2>1, <2>2, PublisherFrame DEF ClaimScan
<1>5. CASE ClaimSlot
  <2>1. SameGate
    BY <1>5 DEF ClaimSlot, SameGate, PageTypeOK
  <2>2. SweepSound' /\ OperationSound'
    BY <1>5 DEF ClaimSlot, PubReturn, SweepSound, OperationSound
  <2> QED
    BY <1>5, <2>1, <2>2, PublisherFrame DEF ClaimSlot
<1>6. CASE ClaimRetry
  <2>1. SameGate
    BY <1>6 DEF ClaimRetry, SameGate, PageTypeOK
  <2>2. SweepSound' /\ OperationSound'
    BY <1>6 DEF ClaimRetry, PubReturn, SweepSound, OperationSound
  <2> QED
    BY <1>6, <2>1, <2>2, PublisherFrame DEF ClaimRetry
<1>7. CASE CommitClear
  <2>1. SameGate
    BY <1>7 DEF CommitClear, SameGate, PageTypeOK
  <2>2. SweepSound' /\ OperationSound'
    BY <1>7 DEF CommitClear, PubReturn, SweepSound, OperationSound
  <2> QED
    BY <1>7, <2>1, <2>2, PublisherFrame DEF CommitClear
<1>8. ASSUME NEW outcome \in {"ok", "failed", "poisoned"},
             RegisterConsumer(outcome)
      PROVE  GateRest'
  <2>1. SweepSound' /\ OperationSound'
    BY <1>8 DEF RegisterConsumer, PubReturn, SweepSound, OperationSound
  <2> QED
    BY <1>8, <2>1, RegisterGate
<1>9. CASE RegisterRefused
  <2>1. SameGate
    BY <1>9 DEF RegisterRefused, SameGate, PageTypeOK
  <2>2. SweepSound' /\ OperationSound'
    BY <1>9 DEF RegisterRefused, PubReturn, SweepSound, OperationSound
  <2> QED
    BY <1>9, <2>1, <2>2, PublisherFrame DEF RegisterRefused
<1> QED
  BY <1>1, <1>2, <1>3, <1>4, <1>5, <1>6, <1>7, <1>8, <1>9 DEF PublisherStep

\* the end of the publisher,
LEMMA PublisherEndGate ==
  ASSUME GateInv, PublisherEnd
  PROVE  GateRest'
<1> USE DEF GateInv, TypeOK, GateRest
<1>1. CASE DestroyPublisher
  <2>1. SameGate
    <3>1. /\ access \in [Index -> Access]
          /\ \A i \in Index : access'[i] \in
               {access[i], CloseConsumerAccess(access, i, record[i])[i]}
      BY <1>1 DEF DestroyPublisher, PageTypeOK
    <3>2. access' \in [Index -> Access]
      BY <1>1, PublisherEndTypes DEF PublisherEnd, PageTypeOK
    <3> QED
      BY <3>1, <3>2, CloseKeepsGate DEF SameGate
  <2>2. SweepSound' /\ OperationSound'
    BY <1>1 DEF DestroyPublisher, SweepSound, OperationSound
  <2> QED
    BY <1>1, <2>1, <2>2, PublisherFrame DEF DestroyPublisher
<1>2. CASE PublisherExit
  <2>1. TokensPaired'
    BY <1>2 DEF PublisherExit, TokensPaired, PublisherTypeOK, NoToken
  <2>2. GateCounts' /\ CandidateChosen'
    BY <1>2 DEF PublisherExit, GateCounts, InsideGate, Alive, CandidateChosen
  <2>3. SweepSound' /\ OperationSound'
    BY <1>2 DEF PublisherExit, SweepSound, OperationSound
  <2> QED
    BY <2>1, <2>2, <2>3
<1> QED
  BY <1>1, <1>2 DEF PublisherEnd

\* a consumer's calls,
LEMMA ConsumerOpGate ==
  ASSUME GateInv, NEW g \in Token, ConsumerOp(g)
  PROVE  GateRest'
<1> USE DEF GateInv, TypeOK, GateRest
<1>1. CASE OpenConsumer(g)
  <2>1. SameGate
    BY <1>1 DEF OpenConsumer, SameGate, PageTypeOK
  <2>2. TokensPaired' /\ GateCounts' /\ SweepSound' /\ OperationSound'
    <3>1. /\ pc[g] = "registered" /\ pc' = [pc EXCEPT ![g] = "idle"]
          /\ UNCHANGED <<pubVars, index>>
      BY <1>1 DEF OpenConsumer
    <3>2. /\ "idle" \in ConPcs
          /\ "registered" \notin GatePcs /\ "idle" \notin GatePcs
      BY DEF ConPcs, GatePcs
    <3> QED
      BY <2>1, <3>1, <3>2, ConsumerFrame
  <2> QED
    BY <1>1, <2>2 DEF OpenConsumer, CandidateChosen, ConsumerTypeOK
<1>2. CASE OpenFails(g)
  <2>1. SameGate
    BY <1>2, DeactivateKeepsGate DEF OpenFails
  <2>2. TokensPaired' /\ GateCounts' /\ SweepSound' /\ OperationSound'
    <3>1. /\ pc[g] = "registered" /\ pc' = [pc EXCEPT ![g] = "idle"]
          /\ UNCHANGED <<pubVars, index>>
      BY <1>2 DEF OpenFails
    <3>2. /\ "idle" \in ConPcs
          /\ "registered" \notin GatePcs /\ "idle" \notin GatePcs
      BY DEF ConPcs, GatePcs
    <3> QED
      BY <2>1, <3>1, <3>2, ConsumerFrame
  <2> QED
    BY <1>2, <2>2 DEF OpenFails, CandidateChosen, ConsumerTypeOK
<1>3. CASE RequestClose(g)
  BY <1>3 DEF RequestClose, TokensPaired, GateCounts, InsideGate, Alive,
              SweepSound, OperationSound, CandidateChosen
<1>4. CASE AcquireCall(g)
  <2>1. SameGate
    BY <1>4 DEF AcquireCall, SameGate, PageTypeOK
  <2>2. TokensPaired' /\ GateCounts' /\ SweepSound' /\ OperationSound'
    <3>1. /\ pc[g] = "idle" /\ pc' = [pc EXCEPT ![g] = "loop"]
          /\ UNCHANGED <<pubVars, index>>
      BY <1>4 DEF AcquireCall
    <3>2. "loop" \in ConPcs /\ "idle" \notin GatePcs /\ "loop" \notin GatePcs
      BY DEF ConPcs, GatePcs
    <3> QED
      BY <2>1, <3>1, <3>2, ConsumerFrame
  <2> QED
    BY <1>4, <2>2 DEF AcquireCall, CandidateChosen, ConsumerTypeOK
<1> QED
  BY <1>1, <1>2, <1>3, <1>4 DEF ConsumerOp

\* Where a live, registered consumer is outside the gate.
OutsidePcs == {"registered", "idle", "loop", "quarantine", "or", "and"}

\* A step of a consumer that stays inside the gate, or outside it, and leaves
\* every gate's owner and count alone.
LEMMA ConsumerMove ==
  ASSUME GateInv, SameGate, UNCHANGED <<pubVars, index>>, NEW g \in Token,
         pc' = [pc EXCEPT ![g] = pc'[g]],
         \/ pc[g] \in GatePcs /\ pc'[g] \in GatePcs
         \/ pc[g] \in OutsidePcs /\ pc'[g] \in OutsidePcs
  PROVE  TokensPaired' /\ GateCounts' /\ SweepSound' /\ OperationSound'
<1>1. /\ pc'[g] \in ConPcs
      /\ pc[g] \notin {"none", "exited"} /\ pc'[g] \notin {"none", "exited"}
      /\ pc[g] \in GatePcs <=> pc'[g] \in GatePcs
  BY DEF ConPcs, GatePcs, OutsidePcs
<1> QED
  BY <1>1, ConsumerFrame

\* enter_consumer_access: the count goes from 0 to 1 as the caller gets inside.
LEMMA EnterGate ==
  ASSUME GateInv, NEW g \in Token, EnterAccess(g)
  PROVE  GateRest'
<1> USE DEF GateInv, TypeOK, GateRest
<1>1. /\ access \in [Index -> Access] /\ index \in [Token -> Index]
      /\ pc \in [Token -> ConPcs] /\ pc[g] = "loop"
      /\ UNCHANGED <<pubVars, index, candidate>>
  BY DEF EnterAccess, PageTypeOK, ConsumerTypeOK
<1>2. CASE MayEnter(g)
  <2>1. access[index[g]] \in Access /\ access[index[g]].token = g
    BY <1>1, <1>2 DEF MayEnter
  <2>2. access[index[g]].refs = 0
    BY <1>1, <2>1 DEF GateCounts, InsideGate, GatePcs, Alive
  <2> DEFINE entered == [access[index[g]] EXCEPT !.refs = 1]
  <2>3. /\ access' = [access EXCEPT ![index[g]] = entered]
        /\ pc' = [pc EXCEPT ![g] = "scan"]
    BY <1>1, <1>2, <2>1, <2>2 DEF EnterAccess, Access
  <2>4. /\ \A i \in Index : access'[i].token = access[i].token
        /\ \A i \in Index : i # index[g] => access'[i] = access[i]
        /\ access'[index[g]].refs = 1
    <3>1. entered.token = access[index[g]].token /\ entered.refs = 1
      BY <2>1 DEF Access
    <3> HIDE DEF entered
    <3> QED
      BY <1>1, <2>3, <3>1
  <2>5. TokensPaired'
    BY <1>1, <2>3, <2>4 DEF TokensPaired
  <2>6. GateCounts'
    <3>1. \A h \in Token : h # g /\ index[h] = index[g] =>
            access[index[h]].token # h
      BY <2>1
    <3>2. \A h \in Token : h # g => pc'[h] = pc[h]
      BY <1>1, <2>3
    <3>3. pc'[g] \in GatePcs
      BY <1>1, <2>3 DEF GatePcs
    <3> QED
      BY <1>1, <2>1, <2>4, <3>1, <3>2, <3>3
      DEF GateCounts, InsideGate, Alive
  <2>7. SweepSound' /\ OperationSound' /\ CandidateChosen'
    BY <1>1, <2>3 DEF SweepSound, OperationSound, CandidateChosen, Alive,
                      PublisherTypeOK
  <2> QED
    BY <2>5, <2>6, <2>7
<1>3. CASE ~MayEnter(g)
  <2>1. SameGate /\ pc' = [pc EXCEPT ![g] = "idle"]
    BY <1>1, <1>3 DEF EnterAccess, SameGate
  <2>2. TokensPaired' /\ GateCounts' /\ SweepSound' /\ OperationSound'
    <3>1. "loop" \notin GatePcs /\ "idle" \in ConPcs \ GatePcs
      BY DEF GatePcs, ConPcs
    <3> QED
      BY <1>1, <2>1, <3>1, ConsumerFrame
  <2> QED
    BY <1>1, <2>1, <2>2 DEF CandidateChosen
<1> QED
  BY <1>2, <1>3

\* leave_consumer_access: the count goes from 1 to 0 as the caller gets outside;
\* the gate may be closed on the way.
LEMMA LeaveGateStep ==
  ASSUME GateInv, NEW g \in Token, LeaveAccess(g)
  PROVE  GateRest'
<1> USE DEF GateInv, TypeOK, GateRest
<1>1. /\ access \in [Index -> Access] /\ index \in [Token -> Index]
      /\ pc \in [Token -> ConPcs] /\ pc[g] \in GatePcs
      /\ UNCHANGED <<pubVars, index>>
  BY DEF LeaveAccess, PageTypeOK, ConsumerTypeOK, GatePcs
<1>2. /\ access[index[g]] \in Access
      /\ access[index[g]].token = g /\ access[index[g]].refs = 1
  BY <1>1 DEF GateCounts, InsideGate
<1>3. /\ LeaveGate(index[g]) \in [Index -> Access]
      /\ \A i \in Index : LeaveGate(index[g])[i].token = access[i].token
      /\ \A i \in Index : i # index[g] =>
           LeaveGate(index[g])[i].refs = access[i].refs
      /\ LeaveGate(index[g])[index[g]].refs = 0
  <2> DEFINE left == [access[index[g]] EXCEPT !.refs = 0]
  <2>1. LeaveGate(index[g]) = [access EXCEPT ![index[g]] = left]
    BY <1>1, <1>2 DEF LeaveGate, Access
  <2>2. /\ left \in Access
        /\ left.token = access[index[g]].token /\ left.refs = 0
    BY <1>2 DEF Access
  <2> HIDE DEF left
  <2> QED
    BY <1>1, <2>1, <2>2
<1>4. access' \in {LeaveGate(index[g]),
                   CloseConsumerAccess(LeaveGate(index[g]), index[g], g)}
  BY DEF LeaveAccess
<1>5. /\ \A i \in Index : access'[i].token = access[i].token
      /\ \A i \in Index : i # index[g] => access'[i].refs = access[i].refs
      /\ access'[index[g]].refs = 0
  BY <1>1, <1>3, <1>4, CloseKeepsGate
<1>6. /\ \A h \in Token : h # g => pc'[h] = pc[h]
      /\ pc'[g] \in {"loop", "idle"}
  BY <1>1 DEF LeaveAccess
<1>7. TokensPaired'
  BY <1>1, <1>5, <1>6 DEF TokensPaired, GatePcs
<1>8. GateCounts'
  <2>1. \A h \in Token : h # g /\ index[h] = index[g] =>
          access[index[h]].token # h
    BY <1>2
  <2>2. pc'[g] \notin GatePcs
    BY <1>6 DEF GatePcs
  <2> QED
    BY <1>1, <1>2, <1>5, <1>6, <2>1, <2>2 DEF GateCounts, InsideGate, Alive
<1>9. SweepSound' /\ OperationSound'
  BY <1>1, <1>6 DEF SweepSound, OperationSound, Alive, PublisherTypeOK, GatePcs
<1>10. CandidateChosen'
  BY <1>1, <1>6 DEF CandidateChosen, LeaveAccess, ConsumerTypeOK
<1> QED
  BY <1>7, <1>8, <1>9, <1>10

\* the steps inside acquire_latest and the quarantine,
LEMMA ConsumerStepGate ==
  ASSUME GateInv, NEW g \in Token, ConsumerStep(g)
  PROVE  GateRest'
<1> USE DEF GateInv, TypeOK, GateRest
<1>1. CASE CloseConsumer(g)
  <2>1. SameGate /\ UNCHANGED <<pubVars, index, pc, candidate>>
    BY <1>1, DeactivateKeepsGate DEF CloseConsumer, SameGate, PageTypeOK
  <2>2. TokensPaired'
    BY <2>1 DEF SameGate, TokensPaired
  <2>5. GateCounts'
    <3>1. /\ \A h \in Token : index[h] \in Index
          /\ GateCounts /\ SameGate /\ UNCHANGED <<index, pc>>
      BY <2>1 DEF ConsumerTypeOK
    <3> HIDE DEF GateInv, TypeOK
    <3> QED
      BY <3>1 DEF SameGate, GateCounts, InsideGate, Alive
  <2>3. SweepSound' /\ OperationSound'
    BY <2>1 DEF SameGate, SweepSound, OperationSound, Alive
  <2>4. CandidateChosen'
    BY <2>1 DEF SameGate, CandidateChosen
  <2> QED
    BY <2>2, <2>3, <2>4, <2>5
<1>2. CASE EnterAccess(g)
  BY <1>2, EnterGate
<1>3. CASE ScanSlot(g)
  <2>1. SameGate
    BY <1>3 DEF ScanSlot, SameGate, PageTypeOK
  <2>2. /\ pc' = [pc EXCEPT ![g] = pc'[g]]
        /\ pc[g] \in GatePcs /\ pc'[g] \in GatePcs
        /\ UNCHANGED <<pubVars, index>>
    BY <1>3 DEF ScanSlot, GatePcs, ConsumerTypeOK
  <2>3. TokensPaired' /\ GateCounts' /\ SweepSound' /\ OperationSound'
    BY <2>1, <2>2, ConsumerMove
  <2>4. CandidateChosen'
    BY <1>3 DEF ScanSlot, CandidateChosen, ConsumerTypeOK
  <2> QED
    BY <2>3, <2>4
<1>4. CASE SetReaderBit(g)
  <2>1. SameGate
    BY <1>4 DEF SetReaderBit, SameGate, PageTypeOK
  <2>2. /\ pc' = [pc EXCEPT ![g] = pc'[g]]
        /\ pc[g] \in GatePcs /\ pc'[g] \in GatePcs
        /\ UNCHANGED <<pubVars, index>>
    BY <1>4 DEF SetReaderBit, GatePcs, ConsumerTypeOK
  <2>3. TokensPaired' /\ GateCounts' /\ SweepSound' /\ OperationSound'
    BY <2>1, <2>2, ConsumerMove
  <2>4. CandidateChosen'
    BY <1>4 DEF SetReaderBit, CandidateChosen, ConsumerTypeOK
  <2> QED
    BY <2>3, <2>4
<1>5. CASE CheckStable(g)
  <2>1. SameGate
    BY <1>5 DEF CheckStable, SameGate, PageTypeOK
  <2>2. /\ pc' = [pc EXCEPT ![g] = pc'[g]]
        /\ pc[g] \in GatePcs /\ pc'[g] \in GatePcs
        /\ UNCHANGED <<pubVars, index>>
    BY <1>5 DEF CheckStable, GatePcs, ConsumerTypeOK
  <2>3. TokensPaired' /\ GateCounts' /\ SweepSound' /\ OperationSound'
    BY <2>1, <2>2, ConsumerMove
  <2>4. CandidateChosen'
    BY <1>5 DEF CheckStable, CandidateChosen, ConsumerTypeOK
  <2> QED
    BY <2>3, <2>4
<1>6. CASE UndoReaderBit(g)
  <2>1. SameGate
    BY <1>6 DEF UndoReaderBit, SameGate, PageTypeOK
  <2>2. /\ pc' = [pc EXCEPT ![g] = pc'[g]]
        /\ pc[g] \in GatePcs /\ pc'[g] \in GatePcs
        /\ UNCHANGED <<pubVars, index>>
    BY <1>6 DEF UndoReaderBit, GatePcs, ConsumerTypeOK
  <2>3. TokensPaired' /\ GateCounts' /\ SweepSound' /\ OperationSound'
    BY <2>1, <2>2, ConsumerMove
  <2>4. CandidateChosen'
    BY <1>6 DEF UndoReaderBit, CandidateChosen, ConsumerTypeOK
  <2> QED
    BY <2>3, <2>4
<1>7. CASE TakeFrame(g)
  <2>1. SameGate
    BY <1>7 DEF TakeFrame, SameGate, PageTypeOK
  <2>2. /\ pc' = [pc EXCEPT ![g] = pc'[g]]
        /\ pc[g] \in GatePcs /\ pc'[g] \in GatePcs
        /\ UNCHANGED <<pubVars, index>>
    BY <1>7 DEF TakeFrame, GatePcs, ConsumerTypeOK
  <2>3. TokensPaired' /\ GateCounts' /\ SweepSound' /\ OperationSound'
    BY <2>1, <2>2, ConsumerMove
  <2>4. CandidateChosen'
    BY <1>7 DEF TakeFrame, CandidateChosen, ConsumerTypeOK
  <2> QED
    BY <2>3, <2>4
<1>8. CASE LeaveAccess(g)
  BY <1>8, LeaveGateStep
<1>9. CASE QuarantineTest(g)
  <2>1. SameGate
    BY <1>9, QuarantineNextTypes
    DEF QuarantineTest, SameGate, PageTypeOK
  <2>2. /\ pc' = [pc EXCEPT ![g] = pc'[g]]
        /\ pc[g] \in OutsidePcs /\ pc'[g] \in OutsidePcs
        /\ UNCHANGED <<pubVars, index>>
    BY <1>9 DEF QuarantineTest, QuarantineNext, OutsidePcs, ConsumerTypeOK
  <2>3. TokensPaired' /\ GateCounts' /\ SweepSound' /\ OperationSound'
    BY <2>1, <2>2, ConsumerMove
  <2>4. CandidateChosen'
    BY <1>9 DEF QuarantineTest, QuarantineNext, CandidateChosen, ConsumerTypeOK
  <2> QED
    BY <2>3, <2>4
<1>10. CASE QuarantineOr(g)
  <2>1. SameGate
    BY <1>10 DEF QuarantineOr, SameGate, PageTypeOK
  <2>2. /\ pc' = [pc EXCEPT ![g] = pc'[g]]
        /\ pc[g] \in OutsidePcs /\ pc'[g] \in OutsidePcs
        /\ UNCHANGED <<pubVars, index>>
    BY <1>10 DEF QuarantineOr, OutsidePcs, ConsumerTypeOK
  <2>3. TokensPaired' /\ GateCounts' /\ SweepSound' /\ OperationSound'
    BY <2>1, <2>2, ConsumerMove
  <2>4. CandidateChosen'
    BY <1>10 DEF QuarantineOr, CandidateChosen, ConsumerTypeOK
  <2> QED
    BY <2>3, <2>4
<1>11. CASE QuarantineAnd(g)
  <2>1. SameGate
    BY <1>11, QuarantineNextTypes
    DEF QuarantineAnd, SameGate, PageTypeOK
  <2>2. /\ pc' = [pc EXCEPT ![g] = pc'[g]]
        /\ pc[g] \in OutsidePcs /\ pc'[g] \in OutsidePcs
        /\ UNCHANGED <<pubVars, index>>
    BY <1>11 DEF QuarantineAnd, QuarantineNext, OutsidePcs, ConsumerTypeOK
  <2>3. TokensPaired' /\ GateCounts' /\ SweepSound' /\ OperationSound'
    BY <2>1, <2>2, ConsumerMove
  <2>4. CandidateChosen'
    BY <1>11 DEF QuarantineAnd, QuarantineNext, CandidateChosen, ConsumerTypeOK
  <2> QED
    BY <2>3, <2>4
<1> QED
  BY <1>1, <1>2, <1>3, <1>4, <1>5, <1>6, <1>7, <1>8, <1>9, <1>10, <1>11
  DEF ConsumerStep

\* and releases, faults and fence signals.
LEMMA ConsumerRestGate ==
  ASSUME GateInv, NEW g \in Token,
         ConsumerRelease(g) \/ ConsumerFault(g) \/ GpuSignal(g)
  PROVE  GateRest'
<1> USE DEF GateInv, TypeOK, GateRest
<1>1. ASSUME NEW k \in Slot, ReleaseFrame(g, k)
      PROVE  GateRest'
  BY <1>1 DEF ReleaseFrame, TokensPaired, GateCounts, InsideGate, Alive,
              SweepSound, OperationSound, CandidateChosen
<1>2. CASE AcquireTimeout(g)
  <2>1. SameGate
    BY <1>2 DEF AcquireTimeout, SameGate, PageTypeOK
  <2>2. /\ pc' = [pc EXCEPT ![g] = pc'[g]]
        /\ pc[g] \in OutsidePcs /\ pc'[g] \in OutsidePcs
        /\ UNCHANGED <<pubVars, index>>
    BY <1>2 DEF AcquireTimeout, OutsidePcs, ConsumerTypeOK
  <2>3. TokensPaired' /\ GateCounts' /\ SweepSound' /\ OperationSound'
    BY <2>1, <2>2, ConsumerMove
  <2>4. CandidateChosen'
    BY <1>2 DEF AcquireTimeout, CandidateChosen, ConsumerTypeOK
  <2> QED
    BY <2>3, <2>4
<1>3. CASE WaitFails(g)
  <2>1. SameGate
    BY <1>3 DEF WaitFails, SameGate, PageTypeOK
  <2>2. /\ pc' = [pc EXCEPT ![g] = pc'[g]]
        /\ pc[g] \in GatePcs /\ pc'[g] \in GatePcs
        /\ UNCHANGED <<pubVars, index>>
    BY <1>3 DEF WaitFails, GatePcs, ConsumerTypeOK
  <2>3. TokensPaired' /\ GateCounts' /\ SweepSound' /\ OperationSound'
    BY <2>1, <2>2, ConsumerMove
  <2>4. CandidateChosen'
    BY <1>3 DEF WaitFails, CandidateChosen, ConsumerTypeOK
  <2> QED
    BY <2>3, <2>4
<1>4. ASSUME NEW k \in Slot, ReleaseFails(g, k)
      PROVE  GateRest'
  <2>1. SameGate
    BY <1>4 DEF ReleaseFails, SameGate, PageTypeOK
  <2>2. /\ pc' = [pc EXCEPT ![g] = pc'[g]]
        /\ pc[g] \in OutsidePcs /\ pc'[g] \in OutsidePcs
        /\ UNCHANGED <<pubVars, index>>
    BY <1>4 DEF ReleaseFails, OutsidePcs, ConsumerTypeOK
  <2>3. TokensPaired' /\ GateCounts' /\ SweepSound' /\ OperationSound'
    BY <2>1, <2>2, ConsumerMove
  <2>4. CandidateChosen'
    BY <1>4 DEF ReleaseFails, CandidateChosen, ConsumerTypeOK
  <2> QED
    BY <2>3, <2>4
<1>5. CASE ConsumerExit(g)
  <2>1. /\ pc' = [pc EXCEPT ![g] = "exited"] /\ pc \in [Token -> ConPcs]
        /\ UNCHANGED <<pageVars, pubVars, index>>
        /\ pc[g] # "none" \/ record[index[g]] = g
    BY <1>5 DEF ConsumerExit, ConsumerTypeOK
  <2>2. g < nextToken
    BY <2>1 DEF TokensPaired, ConsumerTypeOK
  <2>3. TokensPaired'
    BY <2>1, <2>2 DEF TokensPaired
  <2>4. GateCounts'
    BY <2>1 DEF GateCounts, InsideGate, GatePcs, Alive
  <2>5. SweepSound' /\ OperationSound'
    BY <2>1 DEF SweepSound, OperationSound, Alive, PublisherTypeOK
  <2>6. CandidateChosen'
    BY <1>5, <2>1 DEF ConsumerExit, CandidateChosen, ConsumerTypeOK
  <2> QED
    BY <2>3, <2>4, <2>5, <2>6
<1>6. CASE GpuSignal(g)
  BY <1>6 DEF GpuSignal, TokensPaired, GateCounts, InsideGate, Alive,
              SweepSound, OperationSound, CandidateChosen
<1> QED
  BY <1>1, <1>2, <1>3, <1>4, <1>5, <1>6 DEF ConsumerRelease, ConsumerFault

\* The invariant is inductive.
LEMMA GateStep ==
  ASSUME GateInv, [Next]_vars
  PROVE  GateInv'
<1>1. CASE Next
  BY <1>1, PublisherOpGate, PublisherStepGate, PublisherEndGate,
     ConsumerOpGate, ConsumerStepGate, ConsumerRestGate, TypeStep
  DEF Next, GateInv, GateRest
<1>2. CASE UNCHANGED vars
  <2>1. GateRest'
    BY <1>2 DEF vars, GateInv, GateRest, TokensPaired, GateCounts, InsideGate,
                Alive, SweepSound, OperationSound, CandidateChosen
  <2> QED
    BY <2>1, TypeStep DEF GateInv, GateRest
<1> QED
  BY <1>1, <1>2

-----------------------------------------------------------------------------
(* The theorems.                                                           *)

\* Every variable of the bus stays in its range whatever fails: in particular
\* no gate's reference count ever exceeds one or goes below zero.
THEOREM TypeCorrect == Spec => []TypeOK
<1>1. Init => GateInv
  BY InitGateInv
<1>2. GateInv /\ [Next]_vars => GateInv'
  BY GateStep
<1>3. GateInv => TypeOK
  BY DEF GateInv
<1> QED
  BY <1>1, <1>2, <1>3, PTL DEF Spec

\* Whatever fails, and however often indices are reused, the sweep never takes
\* the index of a live consumer that is between enter_consumer_access and
\* leave_consumer_access: no other consumer ever works with its reader bit.
THEOREM GateSafe == Spec => []GateProtectsIndex
<1>1. Init => GateInv
  BY InitGateInv
<1>2. GateInv /\ [Next]_vars => GateInv'
  BY GateStep
<1>3. GateInv => GateProtectsIndex
  BY DEF GateInv, TypeOK, ConsumerTypeOK, TokensPaired, GateCounts,
         GateProtectsIndex
<1> QED
  BY <1>1, <1>2, <1>3, PTL DEF Spec

-----------------------------------------------------------------------------
(* Frames.                                                                 *)

\* A handle inside quarantine_all_readers_locked still has its index: the bits
\* it clears there are its own.
QuarantineOwn ==
  \A g \in Token : pc[g] \in {"quarantine", "or", "and"} =>
    access[index[g]].token \in {g, NoToken}

\* What the ownership word, the sequences and the metadata say of a slot.
SlotSound ==
  \A k \in Slot :
    /\ stamp[k] = slotSeq[k]
    /\ slotSeq[k] # 0 => payload[k] = slotSeq[k]
    /\ slotSeq[k] <= sequence
    /\ k \in writing => readers[k] = {}

\* The writer bit is set in the slot of the write in progress and no other.
WriterSound ==
  /\ pubPc # "exited" => \A k \in Slot : k \in writing <=> k = writerSlot
  /\ pubPc = "clear" => writerSlot \in Slot
  /\ pubOp = "publish" => writerSlot = NoSlot

\* The fence value a sweep works with has been reached or is lost, and a dead
\* consumer's slots are in quarantine by the time its index is reclaimed.
SweepKnows ==
  /\ pubPc \in {"slots", "finalize"} =>
       sweepDone = Lost \/ sweepDone <= completed[record[sweepAt]]
  /\ pubPc = "finalize" /\ sweepDead =>
       \A r \in reads[record[sweepAt]] : r[1] \in quarantine

\* The consumer of a poisoned record never read anything.
PoisonedIdle ==
  \A i \in poisoned :
    /\ record[i] # NoToken
    /\ pc[record[i]] \in {"none", "exited"}
    /\ reads[record[i]] = {}

\* A texture being read holds the frame that was acquired, is not proved
\* finished, and the reader bit that protects it is the reader's own.
ReadsCovered(g) ==
  \A r \in reads[g] :
    /\ slotSeq[r[1]] = r[2]
    /\ completed[g] < r[2]
    /\ r[1] \notin writing
    /\ \/ r[1] \in quarantine
       \/ index[g] \in readers[r[1]] /\ access[index[g]].token = g

\* A held frame is being read, and no signal in the GPU's queue covers it.
LeasesRead(g) ==
  \A k \in Slot : acquired[g][k] # 0 =>
    /\ <<k, acquired[g][k]>> \in reads[g]
    /\ \A s \in signals[g] : s < acquired[g][k]
    /\ acquired[g][k] <= observed[g]

\* Signals never go back, nor beyond the newest frame acquired.
SignalsOrdered(g) ==
  /\ \A s \in signals[g] : completed[g] <= s
  /\ pc[g] # "exited" => completed[g] <= observed[g]
  /\ pc[g] # "exited" => \A s \in signals[g] : s <= observed[g]

\* The frame a scan settles on is newer than every frame acquired before.
ScanSound(g) ==
  /\ newest[g] <= sequence
  /\ observed[g] <= sequence
  /\ pc[g] \notin GatePcs => candidate[g] = NoSlot
  /\ pc[g] = "scan" =>
       /\ observed[g] <= newest[g]
       /\ candidate[g] # NoSlot => observed[g] < newest[g]
  /\ pc[g] \in {"cas", "check", "take", "undo"} => observed[g] < newest[g]

\* Between setting the reader bit and taking the frame: the bit protects no
\* earlier read, and it, or a quarantine in its place, is still there if the
\* slot's frame is the one selected.
BitHeld(g) ==
  /\ pc[g] \in {"check", "take", "undo"} =>
       \A r \in reads[g] : r[1] # candidate[g]
  /\ pc[g] \in {"check", "take"} /\ slotSeq[candidate[g]] = newest[g] =>
       /\ candidate[g] \notin writing
       /\ \/ index[g] \in readers[candidate[g]]
          \/ candidate[g] \in quarantine
  /\ pc[g] = "take" => slotSeq[candidate[g]] = newest[g]

\* A quarantine is set before the bit it replaces is cleared, and a token not
\* yet given out has read nothing.
Quarantined(g) ==
  /\ pc[g] = "and" =>
       \A r \in reads[g] : r[1] = scanAt[g] => r[1] \in quarantine
  /\ nextToken <= g => reads[g] = {}

ConsumerSound(g) ==
  /\ ReadsCovered(g)
  /\ LeasesRead(g)
  /\ SignalsOrdered(g)
  /\ ScanSound(g)
  /\ BitHeld(g)
  /\ Quarantined(g)

FrameInv ==
  /\ GateInv
  /\ SlotSound
  /\ WriterSound
  /\ SweepKnows
  /\ PoisonedIdle
  /\ \A g \in Token : ConsumerSound(g)

USE DEF pageVars, pubVars, sweepVars, scanVars, conVars, gpuVars

-----------------------------------------------------------------------------
(* What the proofs use of TypeOK, and the initial states.                  *)

LEMMA PageTypes ==
  ASSUME GateInv
  PROVE  /\ sequence \in Sequence
         /\ slotSeq \in [Slot -> Sequence]
         /\ stamp \in [Slot -> Sequence]
         /\ payload \in [Slot -> Sequence]
         /\ readers \in [Slot -> SUBSET Index]
         /\ writing \in SUBSET Slot /\ quarantine \in SUBSET Slot
         /\ access \in [Index -> Access]
         /\ record \in [Index -> Token \cup {NoToken}]
         /\ poisoned \in SUBSET Index
         /\ nextToken \in Int
         /\ writerSlot \in Slot \cup {NoSlot}
         /\ sweepAt \in Index
         /\ sweepDead \in BOOLEAN
         /\ sweepDone \in Sequence \cup {Lost}
BY MaxGenerationAssumption DEF GateInv, TypeOK, PageTypeOK, PublisherTypeOK

LEMMA HandleTypes ==
  ASSUME GateInv
  PROVE  /\ index \in [Token -> Index]
         /\ pc \in [Token -> ConPcs]
         /\ observed \in [Token -> Sequence]
         /\ candidate \in [Token -> Slot \cup {NoSlot}]
         /\ newest \in [Token -> Sequence]
         /\ scanAt \in [Token -> Slot]
         /\ acquired \in [Token -> [Slot -> Sequence]]
         /\ signals \in [Token -> SUBSET Sequence]
         /\ completed \in [Token -> Sequence]
         /\ reads \in [Token -> SUBSET (Slot \X Sequence)]
BY DEF GateInv, TypeOK, ConsumerTypeOK, GpuTypeOK

\* Sequence numbers are integers, in the form the provers want.
LEMMA SequenceNat == /\ \A s \in Sequence : s \in Nat
                     /\ 0 \in Sequence
                     /\ \A s \in Sequence : s < Lost
BY MaxSequenceAssumption DEF Sequence, Lost

LEMMA InitFrameInv == Init => FrameInv
<1> SUFFICES ASSUME Init PROVE FrameInv
  OBVIOUS
<1> USE ConstantTypes DEF Init
<1>1. GateInv
  BY InitGateInv
<1>2. SlotSound
  BY SequenceNat DEF SlotSound
<1>3. WriterSound /\ SweepKnows /\ PoisonedIdle
  BY DEF WriterSound, SweepKnows, PoisonedIdle
<1>4. ASSUME NEW g \in Token
      PROVE  ConsumerSound(g)
  BY SequenceNat DEF ConsumerSound, ReadsCovered, LeasesRead, SignalsOrdered,
     ScanSound, BitHeld, Quarantined, GatePcs
<1> QED
  BY <1>1, <1>2, <1>3, <1>4 DEF FrameInv

-----------------------------------------------------------------------------
(* Steps that leave a consumer alone.                                      *)

\* What a consumer's part of the invariant depends on, besides the page.
SameHandle(g) ==
  /\ index'[g] = index[g] /\ pc'[g] = pc[g]
  /\ observed'[g] = observed[g] /\ candidate'[g] = candidate[g]
  /\ newest'[g] = newest[g] /\ acquired'[g] = acquired[g]
  /\ scanAt'[g] = scanAt[g]
  /\ signals'[g] = signals[g] /\ completed'[g] = completed[g]
  /\ reads'[g] = reads[g]

SameSlots ==
  UNCHANGED <<sequence, slotSeq, stamp, payload, writing, quarantine, readers>>

SameTokens == \A i \in Index : access'[i].token = access[i].token

\* A step that leaves the slots, the owners of the gates and a handle alone.
LEMMA HandleKept ==
  ASSUME GateInv, NEW g \in Token, ConsumerSound(g),
         SameHandle(g), SameSlots, SameTokens, nextToken <= nextToken',
         nextToken' \in Int
  PROVE  ConsumerSound(g)'
<1>1. index[g] \in Index
  BY HandleTypes
<1>2. nextToken \in Int /\ g \in Int
  BY PageTypes DEF Token
<1>3. ReadsCovered(g)'
  BY <1>1 DEF ConsumerSound, ReadsCovered, SameHandle, SameSlots, SameTokens
<1>4. LeasesRead(g)' /\ SignalsOrdered(g)' /\ ScanSound(g)' /\ BitHeld(g)'
  BY DEF ConsumerSound, LeasesRead, SignalsOrdered, ScanSound, BitHeld,
         SameHandle, SameSlots
<1>5. Quarantined(g)'
  BY <1>2 DEF ConsumerSound, Quarantined, SameHandle, SameSlots
<1> QED
  BY <1>3, <1>4, <1>5 DEF ConsumerSound

-----------------------------------------------------------------------------
(* The publisher's steps that leave the slots alone.                       *)

\* A step of the publisher that leaves the slots, the consumers and the owners
\* of the gates alone, and is not, nor gets, past the probe of a sweep.
LEMMA PublisherQuiet ==
  ASSUME FrameInv, SameSlots, SameTokens, UNCHANGED <<conVars, gpuVars>>,
         nextToken <= nextToken', nextToken' \in Int
  PROVE  SlotSound' /\ \A g \in Token : ConsumerSound(g)'
<1>1. SlotSound'
  BY DEF FrameInv, SlotSound, SameSlots
<1>2. ASSUME NEW g \in Token
      PROVE  ConsumerSound(g)'
  BY HandleKept DEF FrameInv, SameHandle
<1> QED
  BY <1>1, <1>2

\* The owners of the gates, for an action that at most closes gates.
LEMMA ClosedTokens ==
  ASSUME GateInv, SameGate
  PROVE  SameTokens
BY DEF SameGate, SameTokens

\* Starting an operation, and unregister_consumer's gate.
LEMMA PublisherBeginFrame ==
  ASSUME FrameInv,
         \/ BeginPublish
         \/ BeginRegister
         \/ \E g \in Token : UnregisterClose(g) \/ UnregisterSweep(g)
  PROVE  /\ SlotSound' /\ WriterSound' /\ SweepKnows' /\ PoisonedIdle'
         /\ \A g \in Token : ConsumerSound(g)'
<1> USE DEF FrameInv
<1>1. ASSUME BeginPublish \/ BeginRegister
             \/ \E g \in Token : UnregisterSweep(g)
      PROVE  /\ SlotSound' /\ WriterSound' /\ SweepKnows' /\ PoisonedIdle'
             /\ \A g \in Token : ConsumerSound(g)'
  <2>1. /\ UNCHANGED <<pageVars, conVars, gpuVars>>
        /\ UNCHANGED <<record, poisoned, nextToken, writerSlot>>
        /\ pubPc' = "probe" /\ pubPc = "idle"
        /\ \/ pubOp' \in {"register", "unregister"}
           \/ pubOp' = "publish" /\ writerSlot = NoSlot
    BY <1>1 DEF BeginPublish, BeginRegister, UnregisterSweep, StartSweep
  <2>2. SameSlots /\ SameTokens
    BY <2>1 DEF SameSlots, SameTokens
  <2>3. nextToken' \in Int /\ nextToken <= nextToken'
    BY <2>1, PageTypes
  <2>4. WriterSound' /\ SweepKnows' /\ PoisonedIdle'
    BY <2>1 DEF WriterSound, SweepKnows, PoisonedIdle
  <2> QED
    BY <2>1, <2>2, <2>3, <2>4, PublisherQuiet
<1>2. ASSUME NEW g \in Token, UnregisterClose(g)
      PROVE  /\ SlotSound' /\ WriterSound' /\ SweepKnows' /\ PoisonedIdle'
             /\ \A h \in Token : ConsumerSound(h)'
  <2>1. /\ SameSlots /\ UNCHANGED <<conVars, gpuVars, pubVars>>
        /\ access' = CloseConsumerAccess(access, index[g], g)
    BY <1>2 DEF UnregisterClose, SameSlots
  <2>2. SameTokens
    <3>1. access \in [Index -> Access] /\ index[g] \in Index
      BY PageTypes, HandleTypes
    <3> QED
      BY <2>1, <3>1, CloseKeepsGate DEF SameTokens
  <2>3. nextToken' \in Int /\ nextToken <= nextToken'
    BY <2>1, PageTypes
  <2>4. WriterSound' /\ SweepKnows' /\ PoisonedIdle'
    BY <2>1 DEF WriterSound, SweepKnows, PoisonedIdle, SameSlots
  <2> QED
    BY <2>1, <2>2, <2>3, <2>4, PublisherQuiet
<1> QED
  BY <1>1, <1>2

\* sweep_consumers_locked moves on: it is past no probe any more, and it only
\* goes on to a claim in a publish.
LEMMA SweepNextFrame ==
  ASSUME FrameInv, pubPc \in {"probe", "slots", "finalize"},
         NEW q, SweepNext(q), UNCHANGED <<writing, writerSlot>>
  PROVE  WriterSound' /\ SweepKnows'
<1>1. pubPc' \in {"idle", "probe", "claim", "register"}
  BY SweepNextTypes DEF FrameInv, GateInv
<1>2. pubOp' \in {"none", pubOp}
  BY DEF SweepNext, PubReturn
<1> QED
  BY <1>1, <1>2 DEF FrameInv, WriterSound, SweepKnows

\* The probe samples a fence value that has been reached, or finds it lost.
LEMMA SweepProbeFrame ==
  ASSUME FrameInv, SweepProbe
  PROVE  /\ SlotSound' /\ WriterSound' /\ SweepKnows' /\ PoisonedIdle'
         /\ \A g \in Token : ConsumerSound(g)'
<1> USE DEF FrameInv
<1>1. /\ SameSlots /\ SameTokens /\ UNCHANGED <<conVars, gpuVars>>
      /\ UNCHANGED <<record, poisoned, nextToken, writerSlot>>
      /\ pubPc = "probe"
  BY DEF SweepProbe, SameSlots, SameTokens
<1>2. nextToken' \in Int /\ nextToken <= nextToken'
  BY <1>1, PageTypes
<1>3. PoisonedIdle'
  BY <1>1 DEF PoisonedIdle
<1>4. WriterSound' /\ SweepKnows'
  <2>1. CASE SweepNext(quarantine)
    BY <1>1, <2>1, SweepNextFrame DEF SameSlots
  <2>2. CASE PubReturn
    BY <1>1, <2>2 DEF PubReturn, WriterSound, SweepKnows, SameSlots
  <2>3. CASE /\ IF sweepAt \in poisoned THEN ~Alive(record[sweepAt])
                ELSE ~shuttingDown
             /\ record[sweepAt] # NoToken
             /\ pubPc' = IF sweepAt \in poisoned THEN "finalize" ELSE "slots"
             /\ sweepDone' \in {completed[record[sweepAt]], Lost}
             /\ UNCHANGED <<pubOp, sweepAt, claimAt, claimed>>
    <3>1. WriterSound'
      BY <1>1, <2>3 DEF WriterSound, SameSlots
    <3>2. record[sweepAt] \in Token
      BY <2>3, PageTypes
    <3>3. sweepDone' = Lost \/ sweepDone' <= completed'[record'[sweepAt']]
      BY <1>1, <2>3, <3>2, HandleTypes, SequenceNat
    <3>4. sweepAt \in poisoned => reads[record[sweepAt]] = {}
      BY DEF PoisonedIdle
    <3>5. SweepKnows'
      BY <1>1, <2>3, <3>3, <3>4 DEF SweepKnows
    <3> QED
      BY <3>1, <3>5
  <2> QED
    BY <2>1, <2>2, <2>3 DEF SweepProbe
<1> QED
  BY <1>1, <1>2, <1>3, <1>4, PublisherQuiet

\* The scan for a slot, giving it up, a refused registration, and the end.
LEMMA PublisherRestFrame ==
  ASSUME FrameInv,
         ClaimScan \/ ClaimRetry \/ RegisterRefused \/ PublisherExit
  PROVE  /\ SlotSound' /\ WriterSound' /\ SweepKnows' /\ PoisonedIdle'
         /\ \A g \in Token : ConsumerSound(g)'
<1> USE DEF FrameInv
<1>1. /\ UNCHANGED <<pageVars, conVars, gpuVars, nextToken>>
      /\ pubPc' \in {"claim", "cas", "idle", "probe", "exited"}
      /\ pubOp' \in {"none", pubOp}
      /\ \/ UNCHANGED <<record, poisoned, writerSlot>> /\ pubPc # "exited"
         \/ poisoned' = {} /\ writerSlot' = NoSlot /\ pubPc' = "exited"
  BY DEF ClaimScan, ClaimRetry, RegisterRefused, PublisherExit, PubReturn
<1>2. SameSlots /\ SameTokens
  BY <1>1 DEF SameSlots, SameTokens
<1>3. nextToken' \in Int /\ nextToken <= nextToken'
  BY <1>1, PageTypes
<1>4. WriterSound' /\ SweepKnows' /\ PoisonedIdle'
  BY <1>1 DEF WriterSound, SweepKnows, PoisonedIdle
<1> QED
  BY <1>1, <1>2, <1>3, <1>4, PublisherQuiet

\* ~SharedFrameBusPublisherState only closes gates.
LEMMA DestroyFrame ==
  ASSUME FrameInv, DestroyPublisher
  PROVE  /\ SlotSound' /\ WriterSound' /\ SweepKnows' /\ PoisonedIdle'
         /\ \A g \in Token : ConsumerSound(g)'
<1> USE DEF FrameInv
<1>1. /\ SameSlots /\ UNCHANGED <<conVars, gpuVars>>
      /\ UNCHANGED <<record, poisoned, nextToken, writerSlot, pubOp>>
      /\ pubPc' = "destroyed" /\ pubPc = "idle"
  BY DEF DestroyPublisher, SameSlots
<1>2. SameTokens
  <2>1. \A i \in Index : access'[i] \in
               {access[i], CloseConsumerAccess(access, i, record[i])[i]}
    BY PageTypes DEF DestroyPublisher
  <2> QED
    BY <2>1, CloseKeepsGate, PageTypes DEF SameTokens
<1>3. nextToken' \in Int /\ nextToken <= nextToken'
  BY <1>1, PageTypes
<1>4. WriterSound' /\ SweepKnows' /\ PoisonedIdle'
  BY <1>1 DEF WriterSound, SweepKnows, PoisonedIdle, SameSlots
<1> QED
  BY <1>1, <1>2, <1>3, <1>4, PublisherQuiet

-----------------------------------------------------------------------------
(* The publisher's steps that take reader bits away.                       *)

\* The consumer a sweep is at: its record and its gate agree.
LEMMA SweepOwner ==
  ASSUME FrameInv, pubPc \in {"slots", "finalize"}
  PROVE  /\ record[sweepAt] \in Token
         /\ access[sweepAt].token = record[sweepAt]
         /\ sweepDone = Lost \/ sweepDone <= completed[record[sweepAt]]
         /\ sweepDead => pc[record[sweepAt]] = "exited"
         /\ \A g \in Token : InsideGate(g) => access[index[g]].token = g
BY PageTypes DEF FrameInv, GateInv, TokensPaired, SweepSound, SweepKnows,
   GateCounts, Alive, NoToken

\* What the sampled fence value proves finished is not being read, nor is it
\* the slot of a frame about to be taken.
LEMMA ProvenFinished ==
  ASSUME FrameInv, pubPc = "slots"
  PROVE  /\ \A r \in reads[record[sweepAt]] : r[1] \notin SweepProven(sweepAt)
         /\ \A g \in Token :
              /\ index[g] = sweepAt
              /\ pc[g] \in {"check", "take"}
              /\ slotSeq[candidate[g]] = newest[g]
              => candidate[g] \notin SweepProven(sweepAt)
<1> DEFINE d == record[sweepAt]
<1>1. /\ d \in Token /\ (sweepDone = Lost \/ sweepDone <= completed[d])
      /\ sweepDead => pc[d] = "exited"
      /\ access[sweepAt].token = d
      /\ \A g \in Token : InsideGate(g) => access[index[g]].token = g
  BY SweepOwner
<1>2. /\ completed[d] \in Nat /\ completed[d] < Lost
      /\ sweepDone \in Nat /\ Lost \in Nat
  BY <1>1, HandleTypes, PageTypes, SequenceNat, MaxSequenceAssumption
  DEF FrameInv, Lost
<1>3. ConsumerSound(d)
  BY <1>1 DEF FrameInv
<1>4. ASSUME NEW r \in reads[d]
      PROVE  r[1] \notin SweepProven(sweepAt)
  <2>1. /\ slotSeq[r[1]] = r[2] /\ completed[d] < r[2]
    BY <1>3, <1>4 DEF ConsumerSound, ReadsCovered
  <2>2. r[2] \in Nat
    BY <1>1, <1>4, HandleTypes, SequenceNat DEF FrameInv
  <2> QED
    BY <1>1, <1>2, <2>1, <2>2 DEF SweepProven
<1>5. ASSUME NEW g \in Token, index[g] = sweepAt, pc[g] \in {"check", "take"},
             slotSeq[candidate[g]] = newest[g]
      PROVE  candidate[g] \notin SweepProven(sweepAt)
  <2>1. g = d
    BY <1>1, <1>5 DEF InsideGate, GatePcs
  <2>2. completed[d] <= observed[d] /\ observed[d] < newest[d]
    BY <1>3, <1>5, <2>1 DEF ConsumerSound, SignalsOrdered, ScanSound
  <2>3. observed[d] \in Nat /\ newest[d] \in Nat
    BY <1>1, HandleTypes, SequenceNat DEF FrameInv
  <2>4. sweepDone = Lost \/ ~(sweepDone >= newest[d])
    BY <1>1, <1>2, <1>5, <2>1, <2>2, <2>3
  <2> QED
    BY <1>5, <2>1, <2>4 DEF SweepProven
<1> QED
  BY <1>4, <1>5

\* The loop over slots.
LEMMA SweepSlotsFrame ==
  ASSUME FrameInv, SweepSlots
  PROVE  /\ SlotSound' /\ WriterSound' /\ SweepKnows' /\ PoisonedIdle'
         /\ \A g \in Token : ConsumerSound(g)'
<1> DEFINE i == sweepAt
           swept == SweepProven(i) \cup SweepGiveUp(i)
<1>1. /\ UNCHANGED <<sequence, slotSeq, stamp, payload, writing, conVars,
                     gpuVars, record, poisoned, nextToken, writerSlot, pubOp,
                     sweepVars>>
      /\ pubPc = "slots" /\ pubPc' = "finalize"
      /\ readers' = [k \in Slot |->
                       IF k \in swept THEN readers[k] \ {i} ELSE readers[k]]
      /\ quarantine' = quarantine \cup SweepGiveUp(i)
  BY DEF SweepSlots
<1>2. GateInv /\ SlotSound /\ \A g \in Token : ConsumerSound(g)
  BY DEF FrameInv
<1>3. SameTokens
  <2>1. /\ access \in [Index -> Access] /\ i \in Index
        /\ access' \in {access, CloseConsumerAccess(access, i, record[i])}
    BY <1>2, PageTypes DEF SweepSlots
  <2> QED
    BY <2>1, CloseKeepsGate DEF SameTokens
<1>4. \A k \in Slot : /\ readers'[k] \subseteq readers[k]
                      /\ k \notin swept => readers'[k] = readers[k]
                      /\ \A j \in Index : j # i /\ j \in readers[k]
                                            => j \in readers'[k]
  BY <1>1
<1>5. \A k \in SweepGiveUp(i) : i \in readers[k]
  BY DEF SweepGiveUp
<1>6. SlotSound'
  BY <1>1, <1>2, <1>4, <1>5 DEF SlotSound
<1>7. WriterSound' /\ PoisonedIdle'
  BY <1>1 DEF FrameInv, WriterSound, PoisonedIdle
<1>8. /\ record[i] \in Token /\ access[i].token = record[i]
      /\ sweepDone = Lost \/ sweepDone <= completed[record[i]]
  BY <1>1, SweepOwner
<1>9. /\ \A r \in reads[record[i]] : r[1] \notin SweepProven(i)
      /\ \A g \in Token :
           /\ index[g] = i
           /\ pc[g] \in {"check", "take"}
           /\ slotSeq[candidate[g]] = newest[g]
           => candidate[g] \notin SweepProven(i)
  BY <1>1, ProvenFinished
<1>10. SweepKnows'
  <2>1. ASSUME sweepDead, NEW r \in reads[record[i]]
        PROVE  r[1] \in quarantine'
    <3>1. r[1] \in quarantine \/ index[record[i]] \in readers[r[1]]
      BY <1>2, <1>8, <2>1 DEF ConsumerSound, ReadsCovered
    <3>2. index[record[i]] = i
      BY <1>2, <1>8, PageTypes DEF GateInv, TokensPaired, Token, NoToken
    <3>3. r[1] \in Slot
      BY <1>2, <1>8, <2>1, HandleTypes
    <3> QED
      BY <1>1, <1>9, <2>1, <3>1, <3>2, <3>3 DEF SweepGiveUp
  <2> QED
    BY <1>1, <1>8, <2>1 DEF SweepKnows
<1>11. ASSUME NEW g \in Token
       PROVE  ConsumerSound(g)'
  <2>1. index[g] \in Index /\ ConsumerSound(g)
    BY <1>2, HandleTypes
  <2>2. ReadsCovered(g)'
    <3> SUFFICES ASSUME NEW r \in reads[g]
                 PROVE  /\ slotSeq[r[1]] = r[2]
                        /\ completed[g] < r[2]
                        /\ r[1] \notin writing
                        /\ \/ r[1] \in quarantine'
                           \/ /\ index[g] \in readers'[r[1]]
                              /\ access'[index[g]].token = g
      BY <1>1 DEF ReadsCovered
    <3>1. /\ slotSeq[r[1]] = r[2]
          /\ completed[g] < r[2]
          /\ r[1] \notin writing
          /\ \/ r[1] \in quarantine
             \/ /\ index[g] \in readers[r[1]]
                /\ access[index[g]].token = g
      BY <2>1 DEF ConsumerSound, ReadsCovered
    <3>2. r[1] \in Slot
      BY <1>2, HandleTypes
    <3>3. CASE index[g] # i
      BY <1>1, <1>3, <1>4, <2>1, <3>1, <3>2, <3>3 DEF SameTokens
    <3>4. CASE index[g] = i /\ r[1] \notin quarantine
      <4>1. g = record[i]
        BY <1>8, <3>1, <3>4
      <4>2. r[1] \notin SweepProven(i)
        BY <1>9, <4>1
      <4> QED
        BY <1>1, <1>3, <1>4, <2>1, <3>1, <3>2, <4>2 DEF SameTokens
    <3> QED
      BY <1>1, <3>1, <3>3, <3>4
  <2>3. BitHeld(g)'
    <3>1. pc[g] \in {"check", "take"} => candidate[g] \in Slot
      BY <1>2 DEF GateInv, CandidateChosen
    <3> QED
      BY <1>1, <1>4, <1>9, <2>1, <3>1 DEF ConsumerSound, BitHeld
  <2>4. /\ LeasesRead(g)' /\ SignalsOrdered(g)' /\ ScanSound(g)'
        /\ Quarantined(g)'
    BY <1>1, <2>1 DEF ConsumerSound, LeasesRead, SignalsOrdered, ScanSound,
                      Quarantined
  <2> QED
    BY <2>2, <2>3, <2>4 DEF ConsumerSound
<1> QED
  BY <1>6, <1>7, <1>10, <1>11

\* The index of a consumer that is reclaimed: nobody is inside its gate, and no
\* read depends on its reader bit.
LEMMA ReclaimedIdle ==
  ASSUME FrameInv, pubPc = "finalize", Reclaimable(sweepAt)
  PROVE  \A g \in Token : index[g] = sweepAt =>
           /\ ~InsideGate(g)
           /\ \A r \in reads[g] : r[1] \in quarantine
<1> SUFFICES ASSUME NEW g \in Token, index[g] = sweepAt
             PROVE  /\ ~InsideGate(g)
                    /\ \A r \in reads[g] : r[1] \in quarantine
  OBVIOUS
<1>1. /\ record[sweepAt] \in Token
      /\ access[sweepAt].token = record[sweepAt]
      /\ sweepDead => pc[record[sweepAt]] = "exited"
      /\ InsideGate(g) => access[sweepAt].token = g
  BY SweepOwner
<1>2. InsideGate(g) => access[sweepAt].refs = 1
  BY DEF FrameInv, GateInv, GateCounts
<1>3. \A r \in reads[g] : /\ r[1] \in Slot
                          /\ \/ r[1] \in quarantine
                             \/ /\ sweepAt \in readers[r[1]]
                                /\ access[sweepAt].token = g
  BY HandleTypes DEF FrameInv, ConsumerSound, ReadsCovered
<1>4. CASE sweepDead
  <2>1. ~InsideGate(g)
    BY <1>1, <1>4 DEF InsideGate, GatePcs
  <2>2. \A r \in reads[record[sweepAt]] : r[1] \in quarantine
    BY <1>4 DEF FrameInv, SweepKnows
  <2> QED
    BY <1>1, <1>3, <2>1, <2>2
<1>5. CASE ~sweepDead
  <2>1. /\ access[sweepAt].refs = 0
        /\ \A k \in Slot : sweepAt \notin readers[k]
    BY <1>5 DEF Reclaimable
  <2> QED
    BY <1>2, <1>3, <2>1
<1> QED
  BY <1>4, <1>5

\* finalize_consumer_locked
LEMMA SweepFinalizeFrame ==
  ASSUME FrameInv, SweepFinalize
  PROVE  /\ SlotSound' /\ WriterSound' /\ SweepKnows' /\ PoisonedIdle'
         /\ \A g \in Token : ConsumerSound(g)'
<1> DEFINE i == sweepAt
<1>1. /\ UNCHANGED <<sequence, slotSeq, stamp, payload, writing, quarantine,
                     conVars, gpuVars, nextToken, writerSlot>>
      /\ pubPc = "finalize" /\ SweepNext(quarantine)
  BY DEF SweepFinalize
<1>2. GateInv /\ SlotSound /\ \A g \in Token : ConsumerSound(g)
  BY DEF FrameInv
<1>3. WriterSound' /\ SweepKnows'
  BY <1>1, SweepNextFrame
<1>4. CASE ~Reclaimable(i)
  <2>1. UNCHANGED <<readers, access, record, poisoned>>
    BY <1>4 DEF SweepFinalize
  <2>2. SameSlots /\ SameTokens /\ nextToken' \in Int /\ nextToken <= nextToken'
    BY <1>1, <1>2, <2>1, PageTypes DEF SameSlots, SameTokens
  <2>3. PoisonedIdle'
    BY <1>1, <2>1 DEF FrameInv, PoisonedIdle
  <2> QED
    BY <1>1, <1>3, <2>2, <2>3, PublisherQuiet
<1>5. CASE Reclaimable(i)
  <2>1. /\ readers' = [k \in Slot |-> readers[k] \ {i}]
        /\ record' = [record EXCEPT ![i] = NoToken]
        /\ poisoned' = poisoned \ {i}
        /\ access' \in {access, [access EXCEPT ![i] = NoAccess]}
    BY <1>5 DEF SweepFinalize, FinalizeConsumer
  <2>2. \A g \in Token : index[g] = i =>
           /\ ~InsideGate(g)
           /\ \A r \in reads[g] : r[1] \in quarantine
    BY <1>1, <1>5, ReclaimedIdle
  <2>3. /\ \A k \in Slot : /\ readers'[k] \subseteq readers[k]
                           /\ \A j \in readers[k] : j # i => j \in readers'[k]
        /\ \A j \in Index : j # i => access'[j] = access[j]
        /\ \A j \in Index : j # i => record'[j] = record[j]
    BY <1>2, <2>1, PageTypes
  <2>4. SlotSound'
    BY <1>1, <1>2, <2>3 DEF SlotSound
  <2>5. PoisonedIdle'
    BY <1>1, <1>2, <2>1, <2>3, PageTypes DEF FrameInv, PoisonedIdle
  <2>6. ASSUME NEW g \in Token
        PROVE  ConsumerSound(g)'
    <3>1. index[g] \in Index /\ ConsumerSound(g)
      BY <1>2, HandleTypes
    <3>2. ReadsCovered(g)'
      <4>1. \A r \in reads[g] : r[1] \in Slot
        BY <1>2, HandleTypes
      <4>2. CASE index[g] = i
        BY <1>1, <2>2, <3>1, <4>2 DEF ConsumerSound, ReadsCovered
      <4>3. CASE index[g] # i
        BY <1>1, <2>3, <3>1, <4>1, <4>3 DEF ConsumerSound, ReadsCovered
      <4> QED
        BY <4>2, <4>3
    <3>3. BitHeld(g)'
      <4>1. pc[g] \in {"check", "take"} => candidate[g] \in Slot
        BY <1>2 DEF GateInv, CandidateChosen
      <4>2. pc[g] \in {"check", "take"} => index[g] # i
        BY <2>2 DEF InsideGate, GatePcs
      <4> QED
        BY <1>1, <2>3, <3>1, <4>1, <4>2 DEF ConsumerSound, BitHeld
    <3>4. /\ LeasesRead(g)' /\ SignalsOrdered(g)' /\ ScanSound(g)'
          /\ Quarantined(g)'
      BY <1>1, <3>1 DEF ConsumerSound, LeasesRead, SignalsOrdered, ScanSound,
                        Quarantined
    <3> QED
      BY <3>2, <3>3, <3>4 DEF ConsumerSound
  <2> QED
    BY <1>3, <2>4, <2>5, <2>6
<1> QED
  BY <1>4, <1>5

-----------------------------------------------------------------------------
(* Registering, claiming, committing and cancelling.                       *)

\* register_consumer: no read depends on the bit of a free index, and the new
\* token has not read anything.
LEMMA RegisterFrame ==
  ASSUME FrameInv, NEW outcome \in {"ok", "failed", "poisoned"},
         RegisterConsumer(outcome)
  PROVE  /\ SlotSound' /\ WriterSound' /\ SweepKnows' /\ PoisonedIdle'
         /\ \A g \in Token : ConsumerSound(g)'
<1>1. /\ SameSlots /\ UNCHANGED <<observed, candidate, newest, acquired,
                                  scanAt, gpuVars, writerSlot>>
      /\ nextToken' = nextToken + 1
      /\ pubPc = "register" /\ pubPc' = "idle" /\ pubOp' = "none"
  BY DEF RegisterConsumer, PubReturn, SameSlots
<1>2. GateInv /\ SlotSound /\ \A g \in Token : ConsumerSound(g)
  BY DEF FrameInv
<1>3. nextToken \in Token /\ nextToken \in Int
  BY <1>1, <1>2, PageTypes DEF GateInv, OperationSound, TypeOK, PublisherTypeOK,
                               Token
<1>4. SlotSound' /\ WriterSound' /\ SweepKnows'
  BY <1>1 DEF FrameInv, SlotSound, WriterSound, SweepKnows, SameSlots
<1>5. CASE outcome = "failed"
  <2>1. UNCHANGED <<record, poisoned, access, conVars>>
    BY <1>5 DEF RegisterConsumer
  <2>2. SameTokens /\ nextToken' \in Int /\ nextToken <= nextToken'
    BY <1>1, <1>3, <2>1 DEF SameTokens
  <2>3. PoisonedIdle'
    BY <1>1, <2>1 DEF FrameInv, PoisonedIdle
  <2> QED
    BY <1>1, <1>4, <2>1, <2>2, <2>3, PublisherQuiet
<1>6. CASE outcome # "failed"
  <2>1. PICK i \in Index :
          /\ record[i] = NoToken
          /\ record' = [record EXCEPT ![i] = nextToken]
          /\ poisoned' = IF outcome = "poisoned"
                         THEN poisoned \cup {i} ELSE poisoned
          /\ access' = [access EXCEPT ![i] =
               [token |-> nextToken,
                tag |-> IF outcome = "ok" THEN nextToken ELSE NoToken,
                open |-> outcome = "ok",
                refs |-> 0]]
          /\ index' = [index EXCEPT ![nextToken] = i]
          /\ pc' = IF outcome = "ok"
                   THEN [pc EXCEPT ![nextToken] = "registered"] ELSE pc
    BY <1>6 DEF RegisterConsumer, FreeIndex
  <2>2. access[i].token = NoToken
    BY <1>1, <1>2, <2>1 DEF GateInv, TokensPaired
  <2>3. /\ \A j \in Index : j # i => /\ access'[j] = access[j]
                                     /\ record'[j] = record[j]
        /\ \A g \in Token : g # nextToken => /\ index'[g] = index[g]
                                             /\ pc'[g] = pc[g]
        /\ record'[i] = nextToken
        /\ pc'[nextToken] = IF outcome = "ok" THEN "registered"
                            ELSE pc[nextToken]
    BY <1>2, <1>3, <2>1, PageTypes, HandleTypes
  <2>4. pc[nextToken] = "none" /\ reads[nextToken] = {}
    BY <1>2, <1>3 DEF GateInv, TokensPaired, ConsumerSound, Quarantined
  <2>5. \A j \in poisoned : /\ j # i /\ j \in Index
                            /\ record[j] \in Token /\ record[j] # nextToken
    BY <1>2, <1>3, <2>1, PageTypes
    DEF FrameInv, PoisonedIdle, GateInv, TokensPaired
  <2>6. PoisonedIdle'
    <3>1. ASSUME NEW j \in poisoned
          PROVE  /\ record'[j] # NoToken
                 /\ pc'[record'[j]] \in {"none", "exited"}
                 /\ reads'[record'[j]] = {}
      BY <1>1, <2>3, <2>5 DEF FrameInv, PoisonedIdle
    <3>2. ASSUME outcome = "poisoned"
          PROVE  /\ record'[i] # NoToken
                 /\ pc'[record'[i]] \in {"none", "exited"}
                 /\ reads'[record'[i]] = {}
      BY <1>1, <1>3, <2>3, <2>4, <3>2, ConstantTypes
    <3> QED
      BY <2>1, <3>1, <3>2 DEF PoisonedIdle
  <2>7. ASSUME NEW g \in Token, g # nextToken
        PROVE  ConsumerSound(g)'
    <3>1. index[g] \in Index /\ ConsumerSound(g) /\ g \in Int /\ g # NoToken
      BY <1>2, HandleTypes DEF Token, NoToken
    <3>2. ReadsCovered(g)'
      <4>1. CASE index[g] = i
        BY <1>1, <2>2, <2>3, <2>7, <3>1, <4>1
        DEF ConsumerSound, ReadsCovered, SameSlots
      <4>2. CASE index[g] # i
        BY <1>1, <2>3, <2>7, <3>1, <4>2
        DEF ConsumerSound, ReadsCovered, SameSlots
      <4> QED
        BY <4>1, <4>2
    <3>3. /\ LeasesRead(g)' /\ SignalsOrdered(g)' /\ ScanSound(g)'
          /\ BitHeld(g)'
      BY <1>1, <2>3, <2>7, <3>1
      DEF ConsumerSound, LeasesRead, SignalsOrdered, ScanSound, BitHeld,
          SameSlots
    <3>4. Quarantined(g)'
      BY <1>1, <1>3, <2>3, <2>7, <3>1 DEF ConsumerSound, Quarantined, SameSlots
    <3> QED
      BY <3>2, <3>3, <3>4 DEF ConsumerSound
  <2>8. ASSUME NEW g \in Token, g = nextToken
        PROVE  ConsumerSound(g)'
    <3>1. ConsumerSound(g) /\ pc'[g] \in {"none", "registered"}
      BY <1>2, <1>3, <2>3, <2>4, <2>8
    <3>2. \A k \in Slot : acquired[g][k] = 0
      BY <2>4, <2>8, <3>1 DEF ConsumerSound, LeasesRead
    <3> QED
      BY <1>1, <1>3, <2>4, <2>8, <3>1, <3>2
      DEF ConsumerSound, ReadsCovered, LeasesRead, SignalsOrdered, ScanSound,
          BitHeld, Quarantined, GatePcs, SameSlots
  <2> QED
    BY <1>4, <2>6, <2>7, <2>8
<1> QED
  BY <1>5, <1>6

\* A slot nobody reads is claimed, stored to or given back: nobody has selected
\* its new sequence, which is 0 or beyond everything committed.
LEMMA RewriteSlot ==
  ASSUME FrameInv, SameTokens, UNCHANGED <<conVars, gpuVars, nextToken>>,
         NEW w \in Slot, readers[w] = {},
         w \in writing \/ w \notin quarantine,
         \A k \in Slot : k # w => /\ slotSeq'[k] = slotSeq[k]
                                  /\ readers'[k] = readers[k]
                                  /\ k \in writing' <=> k \in writing
                                  /\ k \in quarantine' <=> k \in quarantine,
         sequence' \in Sequence, sequence <= sequence',
         \/ slotSeq'[w] \in {0, slotSeq[w]}
         \/ slotSeq'[w] \in Sequence /\ sequence < slotSeq'[w]
  PROVE  \A g \in Token : ConsumerSound(g)'
<1> SUFFICES ASSUME NEW g \in Token
             PROVE  ConsumerSound(g)'
  OBVIOUS
<1>1. GateInv /\ ConsumerSound(g) /\ index[g] \in Index
  BY HandleTypes DEF FrameInv
<1>2. \A r \in reads[g] : r[1] \in Slot /\ r[1] # w
  BY <1>1, HandleTypes DEF ConsumerSound, ReadsCovered
<1>3. ReadsCovered(g)'
  BY <1>1, <1>2 DEF ConsumerSound, ReadsCovered, SameTokens
<1>4. /\ newest[g] \in Nat /\ observed[g] \in Nat /\ sequence \in Nat
      /\ newest[g] <= sequence /\ observed[g] <= sequence
      /\ sequence' \in Nat /\ slotSeq'[w] \in Nat
  BY <1>1, HandleTypes, PageTypes, SequenceNat DEF ConsumerSound, ScanSound
<1>5. ScanSound(g)'
  BY <1>1, <1>4 DEF ConsumerSound, ScanSound
<1>6. BitHeld(g)'
  <2>1. pc[g] \in {"check", "take"} =>
          /\ candidate[g] \in Slot
          /\ observed[g] < newest[g]
    BY <1>1 DEF GateInv, CandidateChosen, ConsumerSound, ScanSound
  <2>2. /\ pc[g] \in {"check", "take"} /\ slotSeq[candidate[g]] = newest[g] =>
             candidate[g] # w
        /\ pc[g] = "take" => slotSeq[candidate[g]] = newest[g]
    BY <1>1 DEF ConsumerSound, BitHeld
  <2>3. pc[g] = "check" /\ slotSeq'[candidate[g]] = newest[g] =>
          candidate[g] # w
    BY <1>4, <2>1, <2>2
  <2> QED
    BY <1>1, <2>1, <2>2, <2>3 DEF ConsumerSound, BitHeld
<1>7. LeasesRead(g)' /\ SignalsOrdered(g)' /\ Quarantined(g)'
  BY <1>1, <1>2 DEF ConsumerSound, LeasesRead, SignalsOrdered, Quarantined
<1> QED
  BY <1>3, <1>5, <1>6, <1>7 DEF ConsumerSound

\* The compare-exchange of claim_slot_locked, which finds the word zero.
LEMMA ClaimFrame ==
  ASSUME FrameInv, ClaimSlot
  PROVE  /\ SlotSound' /\ WriterSound' /\ SweepKnows' /\ PoisonedIdle'
         /\ \A g \in Token : ConsumerSound(g)'
<1>1. /\ UNCHANGED <<sequence, payload, quarantine, readers, access, conVars,
                     gpuVars, record, poisoned, nextToken>>
      /\ claimed # NoSlot /\ Free(claimed)
      /\ writing' = writing \cup {claimed}
      /\ slotSeq' = [slotSeq EXCEPT ![claimed] = 0]
      /\ stamp' = [stamp EXCEPT ![claimed] = 0]
      /\ writerSlot' = claimed
      /\ pubPc = "cas" /\ pubPc' = "idle" /\ pubOp' = "none"
  BY DEF ClaimSlot, PubReturn
<1>2. GateInv /\ SlotSound /\ writerSlot = NoSlot
  BY <1>1 DEF FrameInv, GateInv, OperationSound, WriterSound
<1>3. /\ claimed \in Slot /\ readers[claimed] = {}
      /\ claimed \notin writing /\ claimed \notin quarantine
  BY <1>1, <1>2 DEF GateInv, TypeOK, PublisherTypeOK, Free
<1>4. /\ slotSeq'[claimed] = 0 /\ stamp'[claimed] = 0
      /\ \A k \in Slot : k # claimed => /\ slotSeq'[k] = slotSeq[k]
                                        /\ stamp'[k] = stamp[k]
  BY <1>1, <1>2, <1>3, PageTypes
<1>5. sequence \in Sequence /\ sequence \in Nat
  BY <1>2, PageTypes, SequenceNat
<1>6. SlotSound'
  BY <1>1, <1>2, <1>3, <1>4, <1>5 DEF SlotSound
<1>7. \A k \in Slot : k \notin writing
  BY <1>1, <1>2, ConstantTypes DEF FrameInv, WriterSound
<1>8. WriterSound' /\ SweepKnows' /\ PoisonedIdle'
  BY <1>1, <1>3, <1>7
  DEF FrameInv, WriterSound, SweepKnows, PoisonedIdle
<1>9. \A g \in Token : ConsumerSound(g)'
  <2>1. SameTokens
    BY <1>1 DEF SameTokens
  <2> QED
    BY <1>1, <1>3, <1>4, <1>5, <2>1, RewriteSlot
<1> QED
  BY <1>6, <1>8, <1>9

\* The slot of the write in progress.
LEMMA WriterSlotFacts ==
  ASSUME FrameInv, writerSlot # NoSlot, pubPc # "exited"
  PROVE  /\ writerSlot \in Slot /\ writerSlot \in writing
         /\ readers[writerSlot] = {}
         /\ \A k \in Slot : k \in writing => k = writerSlot
         /\ GateInv /\ SlotSound
         /\ sequence \in Sequence /\ sequence \in Nat
<1>1. GateInv /\ SlotSound
  BY DEF FrameInv
<1>2. writerSlot \in Slot
  BY <1>1, PageTypes
<1>3. \A k \in Slot : k \in writing <=> k = writerSlot
  BY DEF FrameInv, WriterSound
<1>4. sequence \in Sequence /\ sequence \in Nat
  BY <1>1, PageTypes, SequenceNat
<1> QED
  BY <1>1, <1>2, <1>3, <1>4 DEF SlotSound

\* commit_write_locked's stores: the new sequence is one nobody has seen.
LEMMA CommitStoreFrame ==
  ASSUME FrameInv, CommitStore
  PROVE  /\ SlotSound' /\ WriterSound' /\ SweepKnows' /\ PoisonedIdle'
         /\ \A g \in Token : ConsumerSound(g)'
<1> DEFINE w == writerSlot
           next == sequence + 1
<1>1. /\ UNCHANGED <<writing, quarantine, readers, access, conVars, gpuVars,
                     record, poisoned, nextToken, writerSlot, pubOp>>
      /\ writerSlot # NoSlot /\ sequence < MaxSequence
      /\ payload' = [payload EXCEPT ![w] = next]
      /\ stamp' = [stamp EXCEPT ![w] = next]
      /\ slotSeq' = [slotSeq EXCEPT ![w] = next]
      /\ sequence' = next
      /\ pubPc = "idle" /\ pubPc' = "clear"
  BY DEF CommitStore
<1>2. /\ w \in Slot /\ w \in writing /\ readers[w] = {}
      /\ GateInv /\ SlotSound /\ sequence \in Nat
  BY <1>1, WriterSlotFacts
<1>3. next \in Sequence /\ next \in Nat /\ sequence < next
  BY <1>1, <1>2, MaxSequenceAssumption DEF Sequence
<1>4. /\ slotSeq'[w] = next /\ stamp'[w] = next /\ payload'[w] = next
      /\ \A k \in Slot : k # w => /\ slotSeq'[k] = slotSeq[k]
                                  /\ stamp'[k] = stamp[k]
                                  /\ payload'[k] = payload[k]
      /\ \A k \in Slot : slotSeq[k] \in Nat
  BY <1>1, <1>2, PageTypes, SequenceNat
<1>5. SlotSound'
  BY <1>1, <1>2, <1>3, <1>4 DEF SlotSound
<1>6. WriterSound' /\ SweepKnows' /\ PoisonedIdle'
  BY <1>1, <1>2 DEF FrameInv, WriterSound, SweepKnows, PoisonedIdle
<1>7. \A g \in Token : ConsumerSound(g)'
  <2>1. SameTokens
    BY <1>1 DEF SameTokens
  <2>2. sequence' \in Sequence /\ sequence <= sequence'
    BY <1>1, <1>2, <1>3
  <2>3. slotSeq'[w] \in Sequence /\ sequence < slotSeq'[w]
    BY <1>3, <1>4
  <2> HIDE DEF w, next
  <2> QED
    BY <1>1, <1>2, <1>4, <2>1, <2>2, <2>3, RewriteSlot
<1> QED
  BY <1>5, <1>6, <1>7

\* InterlockedExchange(ownership, 0) at the end of a commit or a cancel.
LEMMA DropFrame ==
  ASSUME FrameInv, CommitClear \/ CancelWrite
  PROVE  /\ SlotSound' /\ WriterSound' /\ SweepKnows' /\ PoisonedIdle'
         /\ \A g \in Token : ConsumerSound(g)'
<1> DEFINE w == writerSlot
<1>1. /\ UNCHANGED <<sequence, payload, access, conVars, gpuVars, record,
                     poisoned, nextToken>>
      /\ writing' = writing \ {w}
      /\ quarantine' = quarantine \ {w}
      /\ readers' = [readers EXCEPT ![w] = {}]
      /\ writerSlot' = NoSlot
      /\ pubPc \in {"idle", "clear"} /\ pubPc' = "idle"
      /\ \/ UNCHANGED <<slotSeq, stamp>>
         \/ /\ slotSeq' = [slotSeq EXCEPT ![w] = 0]
            /\ stamp' = [stamp EXCEPT ![w] = 0]
  BY DEF CommitClear, CancelWrite, DropOwnership, PubReturn
<1>2. writerSlot # NoSlot
  BY ConstantTypes DEF FrameInv, WriterSound, CommitClear, CancelWrite
<1>3. /\ w \in Slot /\ w \in writing /\ readers[w] = {}
      /\ \A k \in Slot : k \in writing => k = w
      /\ GateInv /\ SlotSound
      /\ sequence \in Sequence /\ sequence \in Nat
  BY <1>1, <1>2, WriterSlotFacts
<1>4. /\ slotSeq'[w] \in {0, slotSeq[w]}
      /\ \/ slotSeq'[w] = slotSeq[w] /\ stamp'[w] = stamp[w]
         \/ slotSeq'[w] = 0 /\ stamp'[w] = 0
      /\ \A k \in Slot : k # w => /\ slotSeq'[k] = slotSeq[k]
                                  /\ stamp'[k] = stamp[k]
      /\ \A k \in Slot : readers'[k] = readers[k]
  BY <1>1, <1>3, PageTypes
<1>5. SlotSound'
  BY <1>1, <1>3, <1>4 DEF SlotSound
<1>6. WriterSound' /\ SweepKnows' /\ PoisonedIdle'
  BY <1>1, <1>3, ConstantTypes
  DEF FrameInv, WriterSound, SweepKnows, PoisonedIdle
<1>7. \A g \in Token : ConsumerSound(g)'
  <2>1. SameTokens
    BY <1>1 DEF SameTokens
  <2> HIDE DEF w
  <2> QED
    BY <1>1, <1>3, <1>4, <2>1, RewriteSlot
<1> QED
  BY <1>5, <1>6, <1>7

-----------------------------------------------------------------------------
(* The consumers' steps.                                                   *)

\* A step of one handle that leaves the slots and the owners of the gates
\* alone, gets no dead handle going, and takes no fence value back.
LEMMA OtherHandles ==
  ASSUME FrameInv, NEW g \in Token, SameSlots, SameTokens, UNCHANGED pubVars,
         \A h \in Token : h # g => SameHandle(h),
         pc[g] \in {"none", "exited"} =>
           pc'[g] \in {"none", "exited"} /\ reads'[g] \subseteq reads[g],
         completed'[g] \in Nat, completed[g] <= completed'[g]
  PROVE  /\ SlotSound' /\ WriterSound' /\ SweepKnows' /\ PoisonedIdle'
         /\ \A h \in Token : h # g => ConsumerSound(h)'
<1>1. GateInv /\ \A h \in Token : ConsumerSound(h)
  BY DEF FrameInv
<1>2. SlotSound' /\ WriterSound'
  BY DEF FrameInv, SlotSound, WriterSound, SameSlots
<1>3. \A i \in poisoned : record[i] \in Token
  BY <1>1, PageTypes DEF FrameInv, PoisonedIdle
<1>4. PoisonedIdle'
  BY <1>3 DEF FrameInv, PoisonedIdle, SameHandle
<1>5. SweepKnows'
  <2>1. CASE pubPc \notin {"slots", "finalize"}
    BY <2>1 DEF SweepKnows
  <2>2. CASE pubPc \in {"slots", "finalize"}
    <3>1. /\ record[sweepAt] \in Token
          /\ sweepDone = Lost \/ sweepDone <= completed[record[sweepAt]]
          /\ sweepDead => pc[record[sweepAt]] = "exited"
      BY <2>2, SweepOwner
    <3>2. completed[record[sweepAt]] \in Nat /\ sweepDone \in Nat
      BY <1>1, <3>1, PageTypes, HandleTypes, SequenceNat,
         MaxSequenceAssumption DEF Lost
    <3>3. completed[record[sweepAt]] <= completed'[record[sweepAt]]
      BY <3>1, <3>2 DEF SameHandle
    <3>4. sweepDone = Lost \/ sweepDone <= completed'[record[sweepAt]]
      <4>1. completed'[record[sweepAt]] \in Nat
        BY <3>1, <3>2 DEF SameHandle
      <4> QED
        BY <3>1, <3>2, <3>3, <4>1
    <3>5. sweepDead => reads'[record[sweepAt]] \subseteq reads[record[sweepAt]]
      BY <3>1 DEF SameHandle
    <3> QED
      BY <3>4, <3>5 DEF FrameInv, SweepKnows, SameSlots
  <2> QED
    BY <2>1, <2>2
<1>6. nextToken' \in Int /\ nextToken <= nextToken'
  BY <1>1, PageTypes
<1>7. ASSUME NEW h \in Token, h # g
      PROVE  ConsumerSound(h)'
  BY <1>1, <1>6, <1>7, HandleKept
<1> QED
  BY <1>2, <1>4, <1>5, <1>7

\* The page and the other handles, for a handle's step that leaves the slots,
\* the owners of the gates and the GPU alone.
LEMMA ControlStep ==
  ASSUME FrameInv, NEW g \in Token, SameSlots, SameTokens,
         UNCHANGED <<pubVars, index, gpuVars>>,
         \A h \in Token : h # g =>
           /\ pc'[h] = pc[h] /\ observed'[h] = observed[h]
           /\ candidate'[h] = candidate[h] /\ newest'[h] = newest[h]
           /\ acquired'[h] = acquired[h] /\ scanAt'[h] = scanAt[h],
         pc[g] \in {"none", "exited"} => pc'[g] \in {"none", "exited"},
         LeasesRead(g)', SignalsOrdered(g)', ScanSound(g)', BitHeld(g)',
         pc'[g] # "and" \/ (pc'[g] = pc[g] /\ scanAt'[g] = scanAt[g])
  PROVE  /\ SlotSound' /\ WriterSound' /\ SweepKnows' /\ PoisonedIdle'
         /\ \A h \in Token : ConsumerSound(h)'
<1>1. GateInv /\ ConsumerSound(g) /\ index[g] \in Index
  BY HandleTypes DEF FrameInv
<1>2. completed[g] \in Nat
  BY <1>1, HandleTypes, SequenceNat
<1>3. \A h \in Token : h # g => SameHandle(h)
  BY DEF SameHandle
<1>4. /\ SlotSound' /\ WriterSound' /\ SweepKnows' /\ PoisonedIdle'
      /\ \A h \in Token : h # g => ConsumerSound(h)'
  BY <1>2, <1>3, OtherHandles
<1>5. ReadsCovered(g)'
  BY <1>1 DEF ConsumerSound, ReadsCovered, SameSlots, SameTokens
<1>6. Quarantined(g)'
  BY <1>1 DEF ConsumerSound, Quarantined, SameSlots
<1> QED
  BY <1>4, <1>5, <1>6 DEF ConsumerSound

\* A step of a handle outside the scan that changes its program counter alone.
LEMMA OutsideScan ==
  ASSUME FrameInv, NEW g \in Token, SameSlots, SameTokens,
         UNCHANGED <<pubVars, index, gpuVars, observed, candidate, newest,
                     acquired, scanAt>>,
         pc' = [pc EXCEPT ![g] = pc'[g]],
         pc[g] \in {"registered", "idle", "loop"},
         pc'[g] \in {"idle", "loop"}
  PROVE  /\ SlotSound' /\ WriterSound' /\ SweepKnows' /\ PoisonedIdle'
         /\ \A h \in Token : ConsumerSound(h)'
<1>1. GateInv /\ ConsumerSound(g)
  BY DEF FrameInv
<1>2. \A h \in Token : h # g => pc'[h] = pc[h]
  BY <1>1, HandleTypes
<1>3. LeasesRead(g)' /\ SignalsOrdered(g)' /\ ScanSound(g)' /\ BitHeld(g)'
  BY <1>1 DEF ConsumerSound, LeasesRead, SignalsOrdered, ScanSound, BitHeld,
              GatePcs, SameSlots
<1> QED
  BY <1>2, <1>3, ControlStep

\* open, close_explicit, and acquire_latest's call, timeout and gate.
LEMMA CallFrame ==
  ASSUME FrameInv, NEW g \in Token,
         \/ ConsumerOp(g)
         \/ AcquireTimeout(g)
         \/ CloseConsumer(g)
  PROVE  /\ SlotSound' /\ WriterSound' /\ SweepKnows' /\ PoisonedIdle'
         /\ \A h \in Token : ConsumerSound(h)'
<1>1. GateInv /\ TypeOK /\ ConsumerSound(g)
  BY DEF FrameInv, GateInv
<1>2. CASE OpenConsumer(g) \/ AcquireCall(g) \/ AcquireTimeout(g)
  <2>1. /\ SameSlots /\ SameTokens
        /\ UNCHANGED <<pubVars, index, gpuVars, observed, candidate, newest,
                       acquired, scanAt>>
        /\ pc[g] \in {"registered", "idle", "loop"}
        /\ \/ pc' = [pc EXCEPT ![g] = "idle"]
           \/ pc' = [pc EXCEPT ![g] = "loop"]
    BY <1>2 DEF OpenConsumer, AcquireCall, AcquireTimeout, SameSlots, SameTokens
  <2>2. /\ pc' = [pc EXCEPT ![g] = pc'[g]]
        /\ pc'[g] \in {"idle", "loop"}
    BY <1>1, <2>1, HandleTypes
  <2> QED
    BY <2>1, <2>2, OutsideScan
<1>3. CASE OpenFails(g)
  <2>1. /\ SameSlots
        /\ UNCHANGED <<pubVars, index, gpuVars, observed, candidate, newest,
                       acquired, scanAt>>
        /\ pc[g] \in {"registered", "idle", "loop"}
        /\ pc' = [pc EXCEPT ![g] = "idle"]
    BY <1>3 DEF OpenFails, SameSlots
  <2>2. /\ pc' = [pc EXCEPT ![g] = pc'[g]]
        /\ pc'[g] \in {"idle", "loop"}
    BY <1>1, <2>1, HandleTypes
  <2>3. SameTokens
    BY <1>1, <1>3, DeactivateKeepsGate, ClosedTokens DEF OpenFails
  <2> QED
    BY <2>1, <2>2, <2>3, OutsideScan
<1>4. CASE RequestClose(g) \/ CloseConsumer(g)
  <2>1. /\ SameSlots
        /\ UNCHANGED <<pubVars, index, gpuVars, observed, candidate, newest,
                       acquired, scanAt, pc>>
        /\ \/ UNCHANGED access
           \/ Deactivate(g)
    BY <1>4 DEF RequestClose, CloseConsumer, SameSlots
  <2>2. SameTokens
    <3>1. CASE UNCHANGED access
      BY <3>1 DEF SameTokens
    <3>2. CASE Deactivate(g)
      BY <1>1, <3>2, DeactivateKeepsGate, ClosedTokens
    <3> QED
      BY <2>1, <3>1, <3>2
  <2>3. /\ LeasesRead(g)' /\ SignalsOrdered(g)' /\ ScanSound(g)' /\ BitHeld(g)'
        /\ pc'[g] = pc[g] /\ scanAt'[g] = scanAt[g]
    BY <1>1, <2>1
    DEF ConsumerSound, LeasesRead, SignalsOrdered, ScanSound, BitHeld,
        Quarantined, SameSlots
  <2> QED
    BY <2>1, <2>2, <2>3, ControlStep
<1> QED
  BY <1>2, <1>3, <1>4 DEF ConsumerOp

\* enter_consumer_access: the scan starts from the newest frame acquired.
LEMMA EnterFrame ==
  ASSUME FrameInv, NEW g \in Token, EnterAccess(g)
  PROVE  /\ SlotSound' /\ WriterSound' /\ SweepKnows' /\ PoisonedIdle'
         /\ \A h \in Token : ConsumerSound(h)'
<1>1. /\ SameSlots /\ pc[g] = "loop"
      /\ UNCHANGED <<pubVars, index, gpuVars, observed, candidate, acquired,
                     scanAt>>
      /\ \/ /\ pc' = [pc EXCEPT ![g] = "idle"]
            /\ UNCHANGED <<access, newest>>
         \/ /\ pc' = [pc EXCEPT ![g] = "scan"]
            /\ newest' = [newest EXCEPT ![g] = observed[g]]
            /\ access' = [access EXCEPT ![index[g]].refs = @ + 1]
  BY DEF EnterAccess, SameSlots
<1>2. GateInv /\ ConsumerSound(g)
  BY DEF FrameInv
<1>3. SameTokens
  <2>1. access \in [Index -> Access] /\ index[g] \in Index
    BY <1>2, PageTypes, HandleTypes
  <2>2. \A i \in Index :
          access'[i] \in {access[i], [access[i] EXCEPT !.refs = @ + 1]}
    BY <1>1, <2>1
  <2> QED
    BY <2>1, <2>2 DEF SameTokens, Access
<1>4. /\ \A h \in Token : h # g => pc'[h] = pc[h] /\ newest'[h] = newest[h]
      /\ \/ pc'[g] = "idle" /\ newest'[g] = newest[g]
         \/ pc'[g] = "scan" /\ newest'[g] = observed[g]
      /\ observed[g] \in Nat
  BY <1>1, <1>2, HandleTypes, SequenceNat
<1>5. /\ LeasesRead(g)' /\ SignalsOrdered(g)' /\ ScanSound(g)' /\ BitHeld(g)'
      /\ pc'[g] # "and"
  BY <1>1, <1>2, <1>4
  DEF ConsumerSound, LeasesRead, SignalsOrdered, ScanSound, BitHeld, GatePcs,
      SameSlots
<1> QED
  BY <1>1, <1>3, <1>4, <1>5, ControlStep

\* One slot of the scan: a better candidate is a newer frame.
LEMMA ScanFrame ==
  ASSUME FrameInv, NEW g \in Token, ScanSlot(g)
  PROVE  /\ SlotSound' /\ WriterSound' /\ SweepKnows' /\ PoisonedIdle'
         /\ \A h \in Token : ConsumerSound(h)'
<1> DEFINE k == scanAt[g]
<1>1. /\ SameSlots /\ SameTokens /\ pc[g] = "scan"
      /\ UNCHANGED <<pubVars, index, gpuVars, observed, acquired>>
  BY DEF ScanSlot, SameSlots, SameTokens
<1>2. /\ GateInv /\ ConsumerSound(g) /\ k \in Slot
      /\ slotSeq[k] <= sequence
  BY DEF FrameInv, GateInv, TypeOK, ConsumerTypeOK, SlotSound
<1>3. \A h \in Token : h # g => /\ pc'[h] = pc[h] /\ newest'[h] = newest[h]
                                /\ candidate'[h] = candidate[h]
                                /\ scanAt'[h] = scanAt[h]
  BY <1>2, HandleTypes DEF ScanSlot
<1>4. /\ \/ newest'[g] = newest[g] /\ candidate'[g] = candidate[g]
         \/ /\ newest'[g] = slotSeq[k] /\ newest[g] < slotSeq[k]
            /\ candidate'[g] = k
      /\ pc'[g] \in {"scan", "leave", "cas"}
      /\ pc'[g] = "cas" => candidate'[g] # NoSlot
  <2>1. /\ candidate \in [Token -> Slot \cup {NoSlot}]
        /\ newest \in [Token -> Sequence] /\ pc \in [Token -> ConPcs]
    BY <1>2, HandleTypes
  <2>2. newest[g] \in Nat /\ slotSeq[k] \in Nat
    BY <1>2, <2>1, PageTypes, SequenceNat
  <2>3. pc'[g] \in {"scan", "leave", "cas"}
    BY <1>1, <2>1 DEF ScanSlot
  <2>4. pc'[g] = "cas" => candidate'[g] # NoSlot
    BY <1>1, <2>1 DEF ScanSlot
  <2> QED
    BY <2>1, <2>2, <2>3, <2>4 DEF ScanSlot
<1>5. newest[g] \in Nat /\ slotSeq[k] \in Nat /\ observed[g] \in Nat
  BY <1>2, HandleTypes, PageTypes, SequenceNat
<1>6. ScanSound(g)'
  BY <1>1, <1>2, <1>4, <1>5, ConstantTypes
  DEF ConsumerSound, ScanSound, GatePcs, SameSlots
<1>7. LeasesRead(g)' /\ SignalsOrdered(g)' /\ BitHeld(g)'
  BY <1>1, <1>2, <1>4
  DEF ConsumerSound, LeasesRead, SignalsOrdered, BitHeld, SameSlots
<1> QED
  BY <1>1, <1>3, <1>4, <1>6, <1>7, ControlStep

\* The sequence is read again once the bit is set.
LEMMA CheckFrame ==
  ASSUME FrameInv, NEW g \in Token, CheckStable(g)
  PROVE  /\ SlotSound' /\ WriterSound' /\ SweepKnows' /\ PoisonedIdle'
         /\ \A h \in Token : ConsumerSound(h)'
<1>1. /\ SameSlots /\ SameTokens /\ pc[g] = "check"
      /\ UNCHANGED <<pubVars, index, gpuVars, observed, candidate, newest,
                     acquired, scanAt>>
      /\ pc' = [pc EXCEPT ![g] = IF Stable(g) THEN "take" ELSE "undo"]
  BY DEF CheckStable, SameSlots, SameTokens
<1>2. GateInv /\ ConsumerSound(g)
  BY DEF FrameInv
<1>3. /\ \A h \in Token : h # g => pc'[h] = pc[h]
      /\ \/ pc'[g] = "take" /\ slotSeq[candidate[g]] = newest[g]
         \/ pc'[g] = "undo"
  BY <1>1, <1>2, HandleTypes DEF Stable
<1>4. /\ LeasesRead(g)' /\ SignalsOrdered(g)' /\ ScanSound(g)' /\ BitHeld(g)'
      /\ pc'[g] # "and"
  BY <1>1, <1>2, <1>3
  DEF ConsumerSound, LeasesRead, SignalsOrdered, ScanSound, BitHeld, GatePcs,
      SameSlots
<1> QED
  BY <1>1, <1>3, <1>4, ControlStep

\* leave_consumer_access.
LEMMA LeaveFrame ==
  ASSUME FrameInv, NEW g \in Token, LeaveAccess(g)
  PROVE  /\ SlotSound' /\ WriterSound' /\ SweepKnows' /\ PoisonedIdle'
         /\ \A h \in Token : ConsumerSound(h)'
<1>1. /\ SameSlots /\ pc[g] \in {"leave", "leave_frame", "leave_close"}
      /\ UNCHANGED <<pubVars, index, gpuVars, observed, acquired, scanAt>>
      /\ candidate' = [candidate EXCEPT ![g] = NoSlot]
      /\ newest' = [newest EXCEPT ![g] = 0]
      /\ \/ pc' = [pc EXCEPT ![g] = "loop"]
         \/ pc' = [pc EXCEPT ![g] = "idle"]
      /\ access' \in {LeaveGate(index[g]),
                      CloseConsumerAccess(LeaveGate(index[g]), index[g], g)}
  BY DEF LeaveAccess, SameSlots
<1>2. GateInv /\ ConsumerSound(g)
  BY DEF FrameInv
<1>3. SameTokens
  <2>1. /\ access \in [Index -> Access] /\ index[g] \in Index
        /\ access[index[g]].refs = 1
    BY <1>1, <1>2, PageTypes, HandleTypes
    DEF GateInv, GateCounts, InsideGate, GatePcs
  <2>2. /\ LeaveGate(index[g]) \in [Index -> Access]
        /\ \A i \in Index : LeaveGate(index[g])[i].token = access[i].token
    <3> DEFINE left == [access[index[g]] EXCEPT !.refs = 0]
    <3>1. LeaveGate(index[g]) = [access EXCEPT ![index[g]] = left]
      BY <2>1 DEF LeaveGate, Access
    <3>2. left \in Access /\ left.token = access[index[g]].token
      BY <2>1 DEF Access
    <3> HIDE DEF left
    <3> QED
      BY <2>1, <3>1, <3>2
  <2> QED
    BY <1>1, <2>1, <2>2, CloseKeepsGate DEF SameTokens
<1>4. /\ \A h \in Token : h # g => /\ pc'[h] = pc[h] /\ newest'[h] = newest[h]
                                   /\ candidate'[h] = candidate[h]
      /\ pc'[g] \in {"loop", "idle"}
      /\ candidate'[g] = NoSlot /\ newest'[g] = 0
  BY <1>1, <1>2, HandleTypes
<1>5. sequence \in Nat
  BY <1>2, PageTypes, SequenceNat
<1>6. /\ LeasesRead(g)' /\ SignalsOrdered(g)' /\ ScanSound(g)' /\ BitHeld(g)'
      /\ pc'[g] # "and"
  BY <1>1, <1>2, <1>4, <1>5
  DEF ConsumerSound, LeasesRead, SignalsOrdered, ScanSound, BitHeld, SameSlots
<1> QED
  BY <1>1, <1>3, <1>4, <1>6, ControlStep

\* The process exits: its reads go on, its acquisitions are forgotten.
LEMMA ExitFrame ==
  ASSUME FrameInv, NEW g \in Token, ConsumerExit(g)
  PROVE  /\ SlotSound' /\ WriterSound' /\ SweepKnows' /\ PoisonedIdle'
         /\ \A h \in Token : ConsumerSound(h)'
<1>1. /\ SameSlots /\ SameTokens
      /\ UNCHANGED <<pubVars, index, gpuVars>>
      /\ pc' = [pc EXCEPT ![g] = "exited"]
      /\ observed' = [observed EXCEPT ![g] = 0]
      /\ scanAt' = [scanAt EXCEPT ![g] = 0]
      /\ candidate' = [candidate EXCEPT ![g] = NoSlot]
      /\ newest' = [newest EXCEPT ![g] = 0]
      /\ acquired' = [acquired EXCEPT ![g] = [k \in Slot |-> 0]]
  BY DEF ConsumerExit, SameSlots, SameTokens
<1>2. GateInv /\ ConsumerSound(g)
  BY DEF FrameInv
<1>3. /\ \A h \in Token : h # g =>
           /\ pc'[h] = pc[h] /\ observed'[h] = observed[h]
           /\ candidate'[h] = candidate[h] /\ newest'[h] = newest[h]
           /\ acquired'[h] = acquired[h] /\ scanAt'[h] = scanAt[h]
      /\ pc'[g] = "exited" /\ observed'[g] = 0 /\ newest'[g] = 0
      /\ candidate'[g] = NoSlot /\ \A k \in Slot : acquired'[g][k] = 0
  BY <1>1, <1>2, HandleTypes
<1>4. sequence \in Nat
  BY <1>2, PageTypes, SequenceNat
<1>5. /\ LeasesRead(g)' /\ SignalsOrdered(g)' /\ ScanSound(g)' /\ BitHeld(g)'
      /\ pc'[g] # "and"
  BY <1>1, <1>2, <1>3, <1>4
  DEF ConsumerSound, LeasesRead, SignalsOrdered, ScanSound, BitHeld, GatePcs,
      SameSlots
<1> QED
  BY <1>1, <1>3, <1>5, ControlStep

\* What a handle at the reader bit knows: it is inside the gate of its index,
\* which is therefore no other handle's.
LEMMA AtReaderBit ==
  ASSUME FrameInv, NEW g \in Token, pc[g] \in {"cas", "check", "take", "undo"}
  PROVE  /\ candidate[g] \in Slot /\ index[g] \in Index
         /\ access[index[g]].token = g
         /\ g < nextToken
         /\ newest[g] \in Sequence /\ newest[g] \in Nat
         /\ observed[g] \in Nat /\ observed[g] < newest[g]
         /\ GateInv /\ ConsumerSound(g)
BY HandleTypes, SequenceNat
DEF FrameInv, GateInv, CandidateChosen, GateCounts, InsideGate, GatePcs,
    TokensPaired, ConsumerSound, ScanSound

\* Reader bits change in one slot that is not being written, or a slot goes into
\* quarantine: what the page says stays sound.
LEMMA ReaderBitPage ==
  ASSUME FrameInv, NEW g \in Token,
         pc[g] \in {"cas", "take", "undo", "or", "and"},
         UNCHANGED <<sequence, slotSeq, stamp, payload, writing, pubVars,
                     gpuVars>>,
         quarantine \subseteq quarantine',
         pc' = [pc EXCEPT ![g] = pc'[g]],
         \A k \in Slot : k \in writing => readers'[k] = {}
  PROVE  SlotSound' /\ WriterSound' /\ SweepKnows' /\ PoisonedIdle'
<1>1. \A i \in poisoned : record[i] \in Token /\ record[i] # g
  BY PageTypes DEF FrameInv, PoisonedIdle
<1>2. \A h \in Token : h # g => pc'[h] = pc[h]
  BY HandleTypes DEF FrameInv
<1>3. PoisonedIdle'
  BY <1>1, <1>2 DEF FrameInv, PoisonedIdle
<1> QED
  BY <1>3 DEF FrameInv, SlotSound, WriterSound, SweepKnows

\* The compare-exchange that sets the reader bit: the bit was clear and the slot
\* is not in quarantine, so nothing of this handle's is being read there.
LEMMA SetBitFrame ==
  ASSUME FrameInv, NEW g \in Token, SetReaderBit(g)
  PROVE  /\ SlotSound' /\ WriterSound' /\ SweepKnows' /\ PoisonedIdle'
         /\ \A h \in Token : ConsumerSound(h)'
<1> DEFINE k == candidate[g]
           i == index[g]
<1>1. /\ UNCHANGED <<sequence, slotSeq, stamp, payload, writing, quarantine,
                     access, pubVars, index, gpuVars, observed, candidate,
                     newest, acquired, scanAt>>
      /\ pc[g] = "cas"
      /\ \/ pc' = [pc EXCEPT ![g] = "leave"] /\ UNCHANGED readers
         \/ /\ k \notin writing \cup quarantine /\ i \notin readers[k]
            /\ readers' = [readers EXCEPT ![k] = readers[k] \cup {i}]
            /\ pc' = [pc EXCEPT ![g] = "check"]
  BY DEF SetReaderBit, SlotUnavailable
<1>2. /\ k \in Slot /\ i \in Index
      /\ GateInv /\ ConsumerSound(g)
  BY <1>1, AtReaderBit
<1>3. \A h \in Token : h # g => pc'[h] = pc[h] /\ ConsumerSound(h)
  BY <1>1, <1>2, HandleTypes DEF FrameInv
<1>4. CASE UNCHANGED readers /\ pc' = [pc EXCEPT ![g] = "leave"]
  <2>1. SameSlots /\ SameTokens /\ pc'[g] = "leave"
    BY <1>1, <1>2, <1>4, HandleTypes DEF SameSlots, SameTokens
  <2>2. LeasesRead(g)' /\ SignalsOrdered(g)' /\ ScanSound(g)' /\ BitHeld(g)'
    BY <1>1, <1>2, <2>1
    DEF ConsumerSound, LeasesRead, SignalsOrdered, ScanSound, BitHeld, GatePcs,
        SameSlots
  <2> QED
    BY <1>1, <1>3, <2>1, <2>2, ControlStep
<1>5. CASE /\ k \notin writing \cup quarantine /\ i \notin readers[k]
           /\ readers' = [readers EXCEPT ![k] = readers[k] \cup {i}]
           /\ pc' = [pc EXCEPT ![g] = "check"]
  <2>1. /\ \A j \in Slot : readers[j] \subseteq readers'[j]
        /\ \A j \in Slot : j # k => readers'[j] = readers[j]
        /\ i \in readers'[k] /\ pc'[g] = "check"
        /\ pc' = [pc EXCEPT ![g] = pc'[g]]
    BY <1>2, <1>5, PageTypes, HandleTypes
  <2>2. SlotSound' /\ WriterSound' /\ SweepKnows' /\ PoisonedIdle'
    <3>1. \A j \in Slot : j \in writing => readers'[j] = {}
      BY <1>5, <2>1 DEF FrameInv, SlotSound
    <3> QED
      BY <1>1, <2>1, <3>1, ReaderBitPage
  <2>3. ASSUME NEW h \in Token
        PROVE  ConsumerSound(h)'
    <3>1. ConsumerSound(h) /\ \A r \in reads[h] : r[1] \in Slot
      BY <1>2, HandleTypes DEF FrameInv
    <3>2. ReadsCovered(h)'
      BY <1>1, <2>1, <3>1 DEF ConsumerSound, ReadsCovered
    <3>3. LeasesRead(h)'
      BY <1>1, <3>1 DEF ConsumerSound, LeasesRead
    <3>4. SignalsOrdered(h)' /\ ScanSound(h)' /\ Quarantined(h)'
      BY <1>1, <1>3, <2>1, <3>1
      DEF ConsumerSound, SignalsOrdered, ScanSound, Quarantined, GatePcs
    <3>5. BitHeld(h)'
      <4>1. CASE h = g
        <5>1. \A r \in reads[g] : r[1] # k
          BY <1>2, <1>5 DEF ConsumerSound, ReadsCovered
        <5> QED
          BY <1>1, <1>5, <2>1, <4>1, <5>1 DEF BitHeld
      <4>2. CASE h # g
        <5>1. pc[h] \in {"check", "take"} => candidate[h] \in Slot
          BY <1>2 DEF GateInv, CandidateChosen
        <5> QED
          BY <1>1, <1>3, <2>1, <3>1, <4>2, <5>1 DEF ConsumerSound, BitHeld
      <4> QED
        BY <4>1, <4>2
    <3> QED
      BY <3>2, <3>3, <3>4, <3>5 DEF ConsumerSound
  <2> QED
    BY <2>2, <2>3
<1> QED
  BY <1>1, <1>4, <1>5

\* Taking the bit back, because the frame changed or because its ready fence
\* failed: it is this handle's own, and protects no earlier read.
LEMMA UndoBitFrame ==
  ASSUME FrameInv, NEW g \in Token, UndoReaderBit(g) \/ WaitFails(g)
  PROVE  /\ SlotSound' /\ WriterSound' /\ SweepKnows' /\ PoisonedIdle'
         /\ \A h \in Token : ConsumerSound(h)'
<1> DEFINE k == candidate[g]
           i == index[g]
<1>1. /\ UNCHANGED <<sequence, slotSeq, stamp, payload, writing, quarantine,
                     access, pubVars, index, gpuVars, observed, candidate,
                     newest, acquired, scanAt>>
      /\ pc[g] \in {"take", "undo"}
      /\ readers' = [readers EXCEPT ![k] = readers[k] \ {i}]
      /\ \/ pc' = [pc EXCEPT ![g] = "leave"]
         \/ pc' = [pc EXCEPT ![g] = "leave_close"]
  BY DEF UndoReaderBit, WaitFails
<1>2. /\ k \in Slot /\ i \in Index /\ access[i].token = g
      /\ GateInv /\ ConsumerSound(g)
  BY <1>1, AtReaderBit
<1>3. /\ \A h \in Token : h # g => pc'[h] = pc[h]
      /\ pc'[g] \in {"leave", "leave_close"}
      /\ pc' = [pc EXCEPT ![g] = pc'[g]]
      /\ \A j \in Slot : /\ readers'[j] \subseteq readers[j]
                         /\ j # k => readers'[j] = readers[j]
                         /\ \A m \in readers[j] : m # i => m \in readers'[j]
  BY <1>1, <1>2, PageTypes, HandleTypes
<1>4. SlotSound' /\ WriterSound' /\ SweepKnows' /\ PoisonedIdle'
  <2>1. \A j \in Slot : j \in writing => readers'[j] = {}
    BY <1>3 DEF FrameInv, SlotSound
  <2> QED
    BY <1>1, <1>3, <2>1, ReaderBitPage
<1>5. ASSUME NEW h \in Token
      PROVE  ConsumerSound(h)'
  <2>1. ConsumerSound(h) /\ \A r \in reads[h] : r[1] \in Slot
    BY <1>2, HandleTypes DEF FrameInv
  <2>2. ReadsCovered(h)'
    <3>1. CASE h = g
      <4>1. \A r \in reads[g] : r[1] # k
        BY <1>1, <1>2 DEF ConsumerSound, BitHeld
      <4> QED
        BY <1>1, <1>3, <2>1, <3>1, <4>1 DEF ConsumerSound, ReadsCovered
    <3>2. CASE h # g
      BY <1>1, <1>2, <1>3, <2>1, <3>2 DEF ConsumerSound, ReadsCovered
    <3> QED
      BY <3>1, <3>2
  <2>3. LeasesRead(h)'
    BY <1>1, <2>1 DEF ConsumerSound, LeasesRead
  <2>4. SignalsOrdered(h)' /\ ScanSound(h)' /\ Quarantined(h)'
    BY <1>1, <1>3, <2>1
    DEF ConsumerSound, SignalsOrdered, ScanSound, Quarantined, GatePcs
  <2>5. BitHeld(h)'
    <3>1. CASE h = g
      BY <1>3, <3>1 DEF BitHeld
    <3>2. CASE h # g
      <4>1. pc[h] \in {"check", "take"} =>
              candidate[h] \in Slot /\ index[h] # i
        BY <1>2, <3>2, AtReaderBit
      <4> QED
        BY <1>1, <1>3, <2>1, <3>2, <4>1 DEF ConsumerSound, BitHeld
    <3> QED
      BY <3>1, <3>2
  <2> QED
    BY <2>2, <2>3, <2>4, <2>5 DEF ConsumerSound
<1> QED
  BY <1>4, <1>5

\* A handle about to take a frame finds the metadata of that frame and a slot
\* it does not hold.
LEMMA TakeReady ==
  ASSUME FrameInv, NEW g \in Token, pc[g] = "take"
  PROVE  /\ slotSeq[candidate[g]] = newest[g]
         /\ stamp[candidate[g]] = newest[g]
         /\ payload[candidate[g]] = newest[g]
         /\ acquired[g][candidate[g]] = 0
         /\ \/ index[g] \in readers[candidate[g]]
            \/ candidate[g] \in quarantine
         /\ candidate[g] \notin writing
<1>1. /\ candidate[g] \in Slot /\ ConsumerSound(g) /\ newest[g] # 0
      /\ SlotSound
  BY AtReaderBit DEF FrameInv
<1>2. /\ slotSeq[candidate[g]] = newest[g]
      /\ candidate[g] \notin writing
      /\ \/ index[g] \in readers[candidate[g]]
         \/ candidate[g] \in quarantine
      /\ \A r \in reads[g] : r[1] # candidate[g]
  BY <1>1 DEF ConsumerSound, BitHeld
<1>3. acquired[g][candidate[g]] = 0
  BY <1>1, <1>2 DEF ConsumerSound, LeasesRead
<1> QED
  BY <1>1, <1>2, <1>3 DEF SlotSound

\* Taking the frame: the read is covered by the bit, and the frame is newer than
\* everything signalled.
LEMMA TakeFrameFrame ==
  ASSUME FrameInv, NEW g \in Token, TakeFrame(g)
  PROVE  /\ SlotSound' /\ WriterSound' /\ SweepKnows' /\ PoisonedIdle'
         /\ \A h \in Token : ConsumerSound(h)'
<1> DEFINE k == candidate[g]
           s == newest[g]
<1>1. /\ pc[g] = "take"
      /\ slotSeq[k] = s /\ stamp[k] = s /\ acquired[g][k] = 0
      /\ index[g] \in readers[k] \/ k \in quarantine
      /\ k \notin writing
  BY TakeReady DEF TakeFrame
<1>2. /\ k \in Slot /\ index[g] \in Index /\ access[index[g]].token = g
      /\ g < nextToken /\ s \in Sequence /\ s \in Nat
      /\ observed[g] \in Nat /\ observed[g] < s
      /\ GateInv /\ ConsumerSound(g)
  BY <1>1, AtReaderBit
<1>3. /\ SameSlots /\ SameTokens
      /\ UNCHANGED <<pubVars, index, scanAt, candidate, newest, signals,
                     completed>>
      /\ acquired' = [acquired EXCEPT ![g][k] = s]
      /\ observed' = [observed EXCEPT ![g] = s]
      /\ reads' = [reads EXCEPT ![g] = reads[g] \cup {<<k, s>>}]
      /\ pc' = [pc EXCEPT ![g] = "leave_frame"]
  BY <1>1 DEF TakeFrame, SameSlots, SameTokens
<1>4. /\ \A h \in Token : h # g => SameHandle(h)
      /\ observed'[g] = s /\ pc'[g] = "leave_frame"
      /\ reads'[g] = reads[g] \cup {<<k, s>>}
      /\ acquired'[g][k] = s
      /\ \A j \in Slot : j # k => acquired'[g][j] = acquired[g][j]
  BY <1>2, <1>3, HandleTypes DEF SameHandle
<1>5. /\ completed[g] \in Nat /\ completed[g] < s
      /\ \A t \in signals[g] : t \in Nat /\ t < s
  <2>1. /\ completed[g] \in Nat
        /\ \A t \in signals[g] : t \in Nat
    BY <1>2, HandleTypes, SequenceNat
  <2>2. /\ completed[g] <= observed[g]
        /\ \A t \in signals[g] : t <= observed[g]
    BY <1>1, <1>2 DEF ConsumerSound, SignalsOrdered
  <2> QED
    BY <1>2, <2>1, <2>2
<1>6. /\ SlotSound' /\ WriterSound' /\ SweepKnows' /\ PoisonedIdle'
      /\ \A h \in Token : h # g => ConsumerSound(h)'
  BY <1>1, <1>3, <1>4, <1>5, OtherHandles
<1>7. ReadsCovered(g)'
  <2>1. <<k, s>>[1] = k /\ <<k, s>>[2] = s
    OBVIOUS
  <2> QED
    BY <1>1, <1>2, <1>3, <1>4, <1>5, <2>1
    DEF ConsumerSound, ReadsCovered, SameSlots, SameTokens
<1>8. LeasesRead(g)'
  <2>1. ASSUME NEW j \in Slot, acquired'[g][j] # 0, j # k
        PROVE  /\ <<j, acquired'[g][j]>> \in reads'[g]
               /\ \A t \in signals[g] : t < acquired'[g][j]
               /\ acquired'[g][j] <= observed'[g]
    <3>1. /\ acquired'[g][j] = acquired[g][j]
          /\ acquired[g][j] \in Nat
      BY <1>2, <1>4, <2>1, HandleTypes, SequenceNat
    <3>2. /\ <<j, acquired[g][j]>> \in reads[g]
          /\ \A t \in signals[g] : t < acquired[g][j]
          /\ acquired[g][j] <= observed[g]
      BY <1>2, <2>1, <3>1 DEF ConsumerSound, LeasesRead
    <3> QED
      BY <1>2, <1>4, <3>1, <3>2
  <2> QED
    BY <1>2, <1>3, <1>4, <1>5, <2>1 DEF LeasesRead
<1>9. SignalsOrdered(g)'
  BY <1>2, <1>3, <1>4, <1>5 DEF ConsumerSound, SignalsOrdered
<1>10. ScanSound(g)' /\ BitHeld(g)' /\ Quarantined(g)'
  <2>1. nextToken \in Int /\ g \in Int
    BY <1>2, PageTypes DEF Token
  <2> QED
    BY <1>2, <1>3, <1>4, <2>1
    DEF ConsumerSound, ScanSound, BitHeld, Quarantined, GatePcs, SameSlots
<1> QED
  BY <1>6, <1>7, <1>8, <1>9, <1>10 DEF ConsumerSound

\* Leases are retired in the order they were acquired: what stays held is newer
\* than everything retired, whatever order the application releases in.
LEMMA RetiredIsOlder ==
  ASSUME GateInv, NEW g \in Token, NEW k \in Slot, NEW s \in Sequence,
         IsLastRetired(g, k, s), NEW j \in Holding(g) \ Retired(g, k)
  PROVE  s < acquired[g][j]
<1> DEFINE done == released[g] \cup {k}
<1>1. \A m \in Slot : acquired[g][m] \in Nat
  BY HandleTypes, SequenceNat
<1>2. PICK m \in Holding(g) : acquired[g][m] <= acquired[g][j] /\ m \notin done
  BY DEF Retired
<1>3. PICK n \in Holding(g) :
         /\ s = acquired[g][n]
         /\ \A l \in Holding(g) : acquired[g][l] <= acquired[g][n] => l \in done
  BY DEF IsLastRetired, Retired
<1>4. ~(acquired[g][m] <= acquired[g][n])
  BY <1>2, <1>3
<1>5. m \in Slot /\ n \in Slot /\ j \in Slot
  BY DEF Holding
<1> QED
  BY <1>1, <1>2, <1>3, <1>4, <1>5

\* Releasing: the signal covers the retired frames and no frame still held,
\* whether or not it turns out to have failed.
LEMMA ReleaseFrameFrame ==
  ASSUME FrameInv, NEW g \in Token, NEW k \in Slot,
         ReleaseFrame(g, k) \/ ReleaseFails(g, k)
  PROVE  /\ SlotSound' /\ WriterSound' /\ SweepKnows' /\ PoisonedIdle'
         /\ \A h \in Token : ConsumerSound(h)'
<1>1. /\ SameSlots /\ SameTokens
      /\ UNCHANGED <<pubVars, index, observed, scanAt, candidate, newest,
                     completed, reads>>
      /\ pc[g] = "idle"
      /\ pc' \in {pc, [pc EXCEPT ![g] = "quarantine"]}
      /\ acquired' = [acquired EXCEPT ![g] = [j \in Slot |->
           IF j \in Retired(g, k) THEN 0 ELSE acquired[g][j]]]
      /\ \/ UNCHANGED signals
         \/ \E s \in Sequence :
              /\ IsLastRetired(g, k, s)
              /\ signals' = [signals EXCEPT ![g] = signals[g] \cup {s}]
  BY DEF ReleaseFrame, ReleaseFails, Retire, SameSlots, SameTokens
<1>2. GateInv /\ ConsumerSound(g) /\ index[g] \in Index
  BY HandleTypes DEF FrameInv
<1>3. /\ \A h \in Token : h # g => SameHandle(h)
      /\ \A j \in Slot : acquired'[g][j] =
           IF j \in Retired(g, k) THEN 0 ELSE acquired[g][j]
      /\ completed[g] \in Nat
      /\ pc'[g] \in {"idle", "quarantine"}
  BY <1>1, <1>2, HandleTypes, SequenceNat DEF SameHandle
<1>4. ASSUME NEW t \in signals'[g], t \notin signals[g]
      PROVE  /\ t \in Nat /\ completed[g] <= t /\ t <= observed[g]
             /\ \A j \in Holding(g) \ Retired(g, k) : t < acquired[g][j]
  <2>1. t \in Sequence /\ IsLastRetired(g, k, t)
    BY <1>1, <1>2, <1>4, HandleTypes
  <2>2. PICK n \in Holding(g) : t = acquired[g][n]
    BY <2>1 DEF IsLastRetired, Retired
  <2>3. <<n, t>> \in reads[g] /\ t <= observed[g]
    BY <1>2, <2>2 DEF ConsumerSound, LeasesRead, Holding
  <2>4. completed[g] < t
    <3>1. <<n, t>>[2] = t
      OBVIOUS
    <3> QED
      BY <1>2, <2>3, <3>1 DEF ConsumerSound, ReadsCovered
  <2>5. \A j \in Holding(g) \ Retired(g, k) : t < acquired[g][j]
    BY <1>2, <2>1, RetiredIsOlder
  <2> QED
    BY <1>3, <2>1, <2>3, <2>4, <2>5, SequenceNat
<1>5. /\ SlotSound' /\ WriterSound' /\ SweepKnows' /\ PoisonedIdle'
      /\ \A h \in Token : h # g => ConsumerSound(h)'
  BY <1>1, <1>3, OtherHandles
<1>6. LeasesRead(g)'
  <2> SUFFICES ASSUME NEW j \in Slot, acquired'[g][j] # 0
               PROVE  /\ <<j, acquired[g][j]>> \in reads[g]
                      /\ \A s \in signals'[g] : s < acquired[g][j]
                      /\ acquired[g][j] <= observed[g]
    BY <1>1, <1>3 DEF LeasesRead
  <2>1. j \notin Retired(g, k) /\ acquired[g][j] # 0
    BY <1>3
  <2>2. j \in Holding(g) \ Retired(g, k)
    BY <2>1 DEF Holding
  <2> QED
    BY <1>2, <1>4, <2>1, <2>2 DEF ConsumerSound, LeasesRead
<1>7. SignalsOrdered(g)'
  BY <1>1, <1>2, <1>4 DEF ConsumerSound, SignalsOrdered
<1>8. ReadsCovered(g)' /\ ScanSound(g)' /\ BitHeld(g)' /\ Quarantined(g)'
  BY <1>1, <1>2, <1>3
  DEF ConsumerSound, ReadsCovered, ScanSound, BitHeld, Quarantined, SameSlots,
      SameTokens, GatePcs
<1> QED
  BY <1>5, <1>6, <1>7, <1>8 DEF ConsumerSound

\* What quarantine_all_readers_locked does between two slots and at its end.
LEMMA QuarantineNextEffect ==
  ASSUME GateInv, NEW g \in Token, QuarantineNext(g)
  PROVE  /\ SameTokens
         /\ pc' = [pc EXCEPT ![g] = pc'[g]]
         /\ pc'[g] \in {"quarantine", "idle"}
         /\ \/ acquired'[g] = acquired[g]
            \/ \A k \in Slot : acquired'[g][k] = 0
         /\ \A h \in Token : h # g => /\ pc'[h] = pc[h]
                                      /\ acquired'[h] = acquired[h]
                                      /\ scanAt'[h] = scanAt[h]
<1>1. TypeOK /\ pc \in [Token -> ConPcs]
      /\ acquired \in [Token -> [Slot -> Sequence]]
      /\ scanAt \in [Token -> Slot]
  BY HandleTypes DEF GateInv
<1>2. SameTokens
  BY <1>1, QuarantineNextTypes, ClosedTokens
<1>3. CASE scanAt[g] + 1 < SlotCount
  <2>1. /\ scanAt' = [scanAt EXCEPT ![g] = @ + 1]
        /\ pc' = [pc EXCEPT ![g] = "quarantine"]
        /\ UNCHANGED acquired
    BY <1>3 DEF QuarantineNext
  <2> QED
    BY <1>1, <1>2, <2>1
<1>4. CASE ~(scanAt[g] + 1 < SlotCount)
  <2>1. /\ scanAt' = [scanAt EXCEPT ![g] = 0]
        /\ pc' = [pc EXCEPT ![g] = "idle"]
        /\ acquired' = [acquired EXCEPT ![g] = [k \in Slot |-> 0]]
    BY <1>4 DEF QuarantineNext
  <2> QED
    BY <1>1, <1>2, <2>1
<1> QED
  BY <1>3, <1>4

\* The test of one slot's reader bit.
LEMMA QuarantineTestFrame ==
  ASSUME FrameInv, NEW g \in Token, QuarantineTest(g)
  PROVE  /\ SlotSound' /\ WriterSound' /\ SweepKnows' /\ PoisonedIdle'
         /\ \A h \in Token : ConsumerSound(h)'
<1>1. /\ SameSlots /\ pc[g] = "quarantine"
      /\ UNCHANGED <<pubVars, index, gpuVars, observed, candidate, newest>>
      /\ \/ /\ pc' = [pc EXCEPT ![g] = "or"]
            /\ UNCHANGED <<scanAt, access, acquired>>
         \/ QuarantineNext(g)
  BY DEF QuarantineTest, SameSlots
<1>2. GateInv /\ ConsumerSound(g)
  BY DEF FrameInv
<1>3. /\ SameTokens
      /\ pc'[g] \in {"or", "quarantine", "idle"}
      /\ \/ acquired'[g] = acquired[g]
         \/ \A k \in Slot : acquired'[g][k] = 0
      /\ \A h \in Token : h # g => /\ pc'[h] = pc[h]
                                   /\ acquired'[h] = acquired[h]
                                   /\ scanAt'[h] = scanAt[h]
  <2>1. CASE /\ pc' = [pc EXCEPT ![g] = "or"]
             /\ UNCHANGED <<scanAt, access, acquired>>
    BY <1>2, <2>1, HandleTypes DEF SameTokens
  <2>2. CASE QuarantineNext(g)
    BY <1>2, <2>2, QuarantineNextEffect
  <2> QED
    BY <1>1, <2>1, <2>2
<1>4. LeasesRead(g)' /\ SignalsOrdered(g)' /\ ScanSound(g)' /\ BitHeld(g)'
  BY <1>1, <1>2, <1>3
  DEF ConsumerSound, LeasesRead, SignalsOrdered, ScanSound, BitHeld, GatePcs,
      SameSlots
<1> QED
  BY <1>1, <1>3, <1>4, ControlStep

\* InterlockedOr(ownership, quarantine_bit): a quarantine only protects more.
LEMMA QuarantineOrFrame ==
  ASSUME FrameInv, NEW g \in Token, QuarantineOr(g)
  PROVE  /\ SlotSound' /\ WriterSound' /\ SweepKnows' /\ PoisonedIdle'
         /\ \A h \in Token : ConsumerSound(h)'
<1>1. /\ UNCHANGED <<sequence, slotSeq, stamp, payload, writing, readers,
                     access, pubVars, index, gpuVars, observed, candidate,
                     newest, acquired, scanAt>>
      /\ pc[g] = "or"
      /\ quarantine' = quarantine \cup {scanAt[g]}
      /\ pc' = [pc EXCEPT ![g] = "and"]
  BY DEF QuarantineOr
<1>2. GateInv /\ \A h \in Token : ConsumerSound(h)
  BY DEF FrameInv
<1>3. /\ \A h \in Token : h # g => pc'[h] = pc[h]
      /\ pc'[g] = "and" /\ pc' = [pc EXCEPT ![g] = pc'[g]]
  BY <1>1, <1>2, HandleTypes
<1>4. SlotSound' /\ WriterSound' /\ SweepKnows' /\ PoisonedIdle'
  <2>1. \A k \in Slot : k \in writing => readers'[k] = {}
    BY <1>1 DEF FrameInv, SlotSound
  <2> QED
    BY <1>1, <1>3, <2>1, ReaderBitPage
<1>5. ASSUME NEW h \in Token
      PROVE  ConsumerSound(h)'
  <2>1. ConsumerSound(h)
    BY <1>2
  <2>2. ReadsCovered(h)' /\ LeasesRead(h)' /\ SignalsOrdered(h)'
    BY <1>1, <1>3, <2>1
    DEF ConsumerSound, ReadsCovered, LeasesRead, SignalsOrdered
  <2>3. ScanSound(h)' /\ BitHeld(h)'
    BY <1>1, <1>3, <2>1 DEF ConsumerSound, ScanSound, BitHeld, GatePcs
  <2>4. Quarantined(h)'
    BY <1>1, <1>3, <2>1 DEF ConsumerSound, Quarantined
  <2> QED
    BY <2>2, <2>3, <2>4 DEF ConsumerSound
<1> QED
  BY <1>4, <1>5

\* InterlockedAnd(ownership, ~bit): the bit is nobody else's, and what this
\* handle reads in the slot is in quarantine.
LEMMA QuarantineAndFrame ==
  ASSUME FrameInv, QuarantineOwn, NEW g \in Token, QuarantineAnd(g)
  PROVE  /\ SlotSound' /\ WriterSound' /\ SweepKnows' /\ PoisonedIdle'
         /\ \A h \in Token : ConsumerSound(h)'
<1> DEFINE k == scanAt[g]
           i == index[g]
<1>1. /\ UNCHANGED <<sequence, slotSeq, stamp, payload, writing, quarantine,
                     pubVars, index, gpuVars, observed, candidate, newest>>
      /\ pc[g] = "and" /\ QuarantineNext(g)
      /\ readers' = [readers EXCEPT ![k] = readers[k] \ {i}]
  BY DEF QuarantineAnd
<1>2. /\ GateInv /\ ConsumerSound(g) /\ k \in Slot /\ i \in Index
      /\ access[i].token \in {g, NoToken}
  BY <1>1, HandleTypes DEF FrameInv, QuarantineOwn
<1>3. /\ SameTokens
      /\ pc' = [pc EXCEPT ![g] = pc'[g]]
      /\ pc'[g] \in {"quarantine", "idle"}
      /\ \/ acquired'[g] = acquired[g]
         \/ \A j \in Slot : acquired'[g][j] = 0
      /\ \A h \in Token : h # g => /\ pc'[h] = pc[h]
                                   /\ acquired'[h] = acquired[h]
                                   /\ scanAt'[h] = scanAt[h]
  BY <1>1, <1>2, QuarantineNextEffect
<1>4. \A j \in Slot : /\ readers'[j] \subseteq readers[j]
                      /\ j # k => readers'[j] = readers[j]
                      /\ \A m \in readers[j] : m # i => m \in readers'[j]
  BY <1>1, <1>2, PageTypes
<1>5. SlotSound' /\ WriterSound' /\ SweepKnows' /\ PoisonedIdle'
  <2>1. \A j \in Slot : j \in writing => readers'[j] = {}
    BY <1>4 DEF FrameInv, SlotSound
  <2> QED
    BY <1>1, <1>3, <2>1, ReaderBitPage
<1>6. ASSUME NEW h \in Token
      PROVE  ConsumerSound(h)'
  <2>1. /\ ConsumerSound(h) /\ index[h] \in Index
        /\ \A r \in reads[h] : r[1] \in Slot
    BY <1>2, HandleTypes DEF FrameInv
  <2>2. ReadsCovered(h)'
    <3>1. CASE h = g
      <4>1. \A r \in reads[g] : r[1] = k => r[1] \in quarantine
        BY <1>1, <1>2 DEF ConsumerSound, Quarantined
      <4> QED
        BY <1>1, <1>3, <1>4, <2>1, <3>1, <4>1
        DEF ConsumerSound, ReadsCovered, SameTokens
    <3>2. CASE h # g
      <4>1. index[h] = i => access[index[h]].token # h
        BY <1>2, <3>2 DEF Token, NoToken
      <4> QED
        BY <1>1, <1>3, <1>4, <2>1, <4>1
        DEF ConsumerSound, ReadsCovered, SameTokens
    <3> QED
      BY <3>1, <3>2
  <2>3. LeasesRead(h)'
    <3>1. \/ acquired'[h] = acquired[h]
          \/ \A j \in Slot : acquired'[h][j] = 0
      BY <1>3
    <3> QED
      BY <1>1, <2>1, <3>1 DEF ConsumerSound, LeasesRead
  <2>4. SignalsOrdered(h)' /\ ScanSound(h)' /\ Quarantined(h)'
    BY <1>1, <1>3, <2>1
    DEF ConsumerSound, SignalsOrdered, ScanSound, Quarantined, GatePcs
  <2>5. BitHeld(h)'
    <3>1. CASE h = g
      BY <1>3, <3>1 DEF BitHeld
    <3>2. CASE h # g
      <4>1. pc[h] \in {"check", "take"} =>
              candidate[h] \in Slot /\ index[h] # i
        BY <1>2, <3>2, AtReaderBit DEF Token, NoToken
      <4> QED
        BY <1>1, <1>3, <1>4, <2>1, <3>2, <4>1 DEF ConsumerSound, BitHeld
    <3> QED
      BY <3>1, <3>2
  <2> QED
    BY <2>2, <2>3, <2>4, <2>5 DEF ConsumerSound
<1> QED
  BY <1>5, <1>6

\* The GPU executes a signal: the reads it finishes are of released frames.
LEMMA GpuSignalFrame ==
  ASSUME FrameInv, NEW g \in Token, GpuSignal(g)
  PROVE  /\ SlotSound' /\ WriterSound' /\ SweepKnows' /\ PoisonedIdle'
         /\ \A h \in Token : ConsumerSound(h)'
<1>1. PICK s \in signals[g] :
         /\ \A t \in signals[g] : s <= t
         /\ signals' = [signals EXCEPT ![g] = signals[g] \ {s}]
         /\ completed' = [completed EXCEPT ![g] = s]
         /\ reads' = [reads EXCEPT ![g] = {r \in reads[g] : r[2] > s}]
         /\ UNCHANGED <<pageVars, pubVars, conVars>>
  BY DEF GpuSignal
<1>2. GateInv /\ ConsumerSound(g) /\ index[g] \in Index
  BY HandleTypes DEF FrameInv
<1>3. /\ SameSlots /\ SameTokens
      /\ \A h \in Token : h # g => SameHandle(h)
      /\ signals'[g] = signals[g] \ {s} /\ completed'[g] = s
      /\ reads'[g] = {r \in reads[g] : r[2] > s}
      /\ s \in Nat /\ completed[g] \in Nat
      /\ \A r \in reads[g] : r[2] \in Nat
      /\ \A k \in Slot : acquired[g][k] \in Nat
  BY <1>1, <1>2, HandleTypes, SequenceNat DEF SameHandle, SameSlots, SameTokens
<1>4. /\ completed[g] <= s
      /\ pc[g] # "exited" => s <= observed[g]
  BY <1>2 DEF ConsumerSound, SignalsOrdered
<1>5. /\ SlotSound' /\ WriterSound' /\ SweepKnows' /\ PoisonedIdle'
      /\ \A h \in Token : h # g => ConsumerSound(h)'
  BY <1>1, <1>3, <1>4, OtherHandles
<1>6. ReadsCovered(g)'
  BY <1>1, <1>2, <1>3
  DEF ConsumerSound, ReadsCovered, SameSlots, SameTokens
<1>7. LeasesRead(g)'
  <2> SUFFICES ASSUME NEW k \in Slot, acquired[g][k] # 0
               PROVE  /\ <<k, acquired[g][k]>> \in reads'[g]
                      /\ \A t \in signals'[g] : t < acquired[g][k]
                      /\ acquired[g][k] <= observed[g]
    BY <1>1 DEF LeasesRead
  <2>1. /\ <<k, acquired[g][k]>> \in reads[g]
        /\ \A t \in signals[g] : t < acquired[g][k]
        /\ acquired[g][k] <= observed[g]
    BY <1>2 DEF ConsumerSound, LeasesRead
  <2>2. <<k, acquired[g][k]>>[2] = acquired[g][k]
    OBVIOUS
  <2> QED
    BY <1>3, <2>1, <2>2
<1>8. SignalsOrdered(g)'
  BY <1>1, <1>2, <1>3, <1>4 DEF ConsumerSound, SignalsOrdered
<1>9. ScanSound(g)' /\ BitHeld(g)' /\ Quarantined(g)'
  BY <1>1, <1>2, <1>3
  DEF ConsumerSound, ScanSound, BitHeld, Quarantined, SameSlots
<1> QED
  BY <1>5, <1>6, <1>7, <1>8, <1>9 DEF ConsumerSound

-----------------------------------------------------------------------------
(* The invariant is inductive, and what follows from it.                   *)

LEMMA FrameStep ==
  ASSUME FrameInv, QuarantineOwn, [Next]_vars
  PROVE  FrameInv'
<1> SUFFICES /\ SlotSound' /\ WriterSound' /\ SweepKnows' /\ PoisonedIdle'
             /\ \A g \in Token : ConsumerSound(g)'
  BY GateStep DEF FrameInv
<1>1. CASE PublisherOp
  BY <1>1, PublisherBeginFrame, CommitStoreFrame, DropFrame DEF PublisherOp
<1>2. CASE PublisherStep
  BY <1>2, SweepProbeFrame, SweepSlotsFrame, SweepFinalizeFrame,
     PublisherRestFrame, ClaimFrame, DropFrame, RegisterFrame
  DEF PublisherStep
<1>3. CASE PublisherEnd
  BY <1>3, DestroyFrame, PublisherRestFrame DEF PublisherEnd
<1>4. ASSUME NEW g \in Token, ConsumerOp(g)
      PROVE  /\ SlotSound' /\ WriterSound' /\ SweepKnows' /\ PoisonedIdle'
             /\ \A h \in Token : ConsumerSound(h)'
  BY <1>4, CallFrame
<1>5. ASSUME NEW g \in Token, ConsumerStep(g)
      PROVE  /\ SlotSound' /\ WriterSound' /\ SweepKnows' /\ PoisonedIdle'
             /\ \A h \in Token : ConsumerSound(h)'
  BY <1>5, CallFrame, EnterFrame, ScanFrame, SetBitFrame, CheckFrame,
     UndoBitFrame, TakeFrameFrame, LeaveFrame, QuarantineTestFrame,
     QuarantineOrFrame, QuarantineAndFrame DEF ConsumerStep
<1>6. ASSUME NEW g \in Token, ConsumerRelease(g)
      PROVE  /\ SlotSound' /\ WriterSound' /\ SweepKnows' /\ PoisonedIdle'
             /\ \A h \in Token : ConsumerSound(h)'
  BY <1>6, ReleaseFrameFrame DEF ConsumerRelease
<1>7. ASSUME NEW g \in Token, ConsumerFault(g)
      PROVE  /\ SlotSound' /\ WriterSound' /\ SweepKnows' /\ PoisonedIdle'
             /\ \A h \in Token : ConsumerSound(h)'
  BY <1>7, CallFrame, ExitFrame, UndoBitFrame, ReleaseFrameFrame
  DEF ConsumerFault
<1>8. ASSUME NEW g \in Token, GpuSignal(g)
      PROVE  /\ SlotSound' /\ WriterSound' /\ SweepKnows' /\ PoisonedIdle'
             /\ \A h \in Token : ConsumerSound(h)'
  BY <1>8, GpuSignalFrame
<1>9. CASE UNCHANGED vars
  BY <1>9 DEF vars, FrameInv, SlotSound, WriterSound, SweepKnows, PoisonedIdle,
     ConsumerSound, ReadsCovered, LeasesRead, SignalsOrdered, ScanSound,
     BitHeld, Quarantined
<1> QED
  BY <1>1, <1>2, <1>3, <1>4, <1>5, <1>6, <1>7, <1>8, <1>9 DEF Next

-----------------------------------------------------------------------------
(* While the fences work no handle is in the quarantine's loop.            *)

NoneQuarantining == \A g \in Token : pc[g] \notin {"quarantine", "or", "and"}

\* A step of one handle that does not begin a quarantine.
LEMMA HandleQuarantinesNot ==
  ASSUME pc \in [Token -> ConPcs], NoneQuarantining, NEW g \in Token,
         NEW next, next \notin {"quarantine", "or", "and"},
         pc' = [pc EXCEPT ![g] = next]
  PROVE  NoneQuarantining'
BY DEF NoneQuarantining

\* Only a release whose fence fails begins one.
LEMMA NoneQuarantiningStep ==
  ASSUME GateInv, NoneQuarantining, [Next]_vars, "fence" \notin Faults
  PROVE  NoneQuarantining'
<1>1. pc \in [Token -> ConPcs] /\ index \in [Token -> Index]
  BY HandleTypes
<1>2. CASE PublisherOp
  BY <1>2 DEF PublisherOp, BeginPublish, BeginRegister, UnregisterClose,
     UnregisterSweep, CommitStore, CancelWrite, NoneQuarantining
<1>3. CASE PublisherStep
  <2>1. ASSUME NEW outcome \in {"ok", "failed", "poisoned"},
               RegisterConsumer(outcome)
        PROVE  NoneQuarantining'
    <3>1. pc' = pc \/ pc' = [pc EXCEPT ![nextToken] = "registered"]
      BY <2>1 DEF RegisterConsumer
    <3> QED
      BY <1>1, <3>1 DEF NoneQuarantining
  <2> QED
    BY <1>3, <2>1 DEF PublisherStep, SweepProbe, SweepSlots, SweepFinalize,
       ClaimScan, ClaimSlot, ClaimRetry, CommitClear, RegisterRefused,
       NoneQuarantining
<1>4. CASE PublisherEnd
  BY <1>4 DEF PublisherEnd, DestroyPublisher, PublisherExit, NoneQuarantining
<1>5. ASSUME NEW g \in Token, ConsumerOp(g)
      PROVE  NoneQuarantining'
  <2>1. \/ pc' = pc
        \/ pc' = [pc EXCEPT ![g] = "idle"]
        \/ pc' = [pc EXCEPT ![g] = "loop"]
    BY <1>5 DEF ConsumerOp, OpenConsumer, OpenFails, RequestClose, AcquireCall
  <2> QED
    BY <1>1, <2>1, HandleQuarantinesNot DEF NoneQuarantining
<1>6. ASSUME NEW g \in Token, ConsumerStep(g)
      PROVE  NoneQuarantining'
  <2>1. pc[g] \notin {"quarantine", "or", "and"}
    BY DEF NoneQuarantining
  <2>2. CASE ScanSlot(g) \/ CheckStable(g) \/ LeaveAccess(g)
    <3>1. \/ pc' = pc
          \/ \E next \in {"leave", "cas", "take", "undo", "loop", "idle"} :
               pc' = [pc EXCEPT ![g] = next]
      BY <2>2 DEF ScanSlot, CheckStable, LeaveAccess
    <3> QED
      BY <1>1, <3>1, HandleQuarantinesNot DEF NoneQuarantining
  <2>3. CASE CloseConsumer(g) \/ EnterAccess(g) \/ SetReaderBit(g)
             \/ UndoReaderBit(g) \/ TakeFrame(g)
    <3>1. \/ pc' = pc
          \/ \E next \in {"scan", "idle", "leave", "check", "leave_frame",
                          "leave_close"} :
               pc' = [pc EXCEPT ![g] = next]
      BY <2>3 DEF CloseConsumer, EnterAccess, SetReaderBit, UndoReaderBit,
                  TakeFrame
    <3> QED
      BY <1>1, <3>1, HandleQuarantinesNot DEF NoneQuarantining
  <2> QED
    BY <1>6, <2>1, <2>2, <2>3
    DEF ConsumerStep, QuarantineTest, QuarantineOr, QuarantineAnd
<1>7. ASSUME NEW g \in Token, ConsumerRelease(g)
      PROVE  NoneQuarantining'
  BY <1>7 DEF ConsumerRelease, ReleaseFrame, NoneQuarantining
<1>8. ASSUME NEW g \in Token, ConsumerFault(g)
      PROVE  NoneQuarantining'
  <2>1. \/ pc' = [pc EXCEPT ![g] = "idle"]
        \/ pc' = [pc EXCEPT ![g] = "exited"]
    BY <1>8 DEF ConsumerFault, AcquireTimeout, WaitFails, ReleaseFails,
                ConsumerExit
  <2> QED
    BY <1>1, <2>1, HandleQuarantinesNot
<1>9. ASSUME NEW g \in Token, GpuSignal(g)
      PROVE  NoneQuarantining'
  BY <1>9 DEF GpuSignal, NoneQuarantining
<1>10. CASE UNCHANGED vars
  BY <1>10 DEF vars, NoneQuarantining
<1> QED
  BY <1>2, <1>3, <1>4, <1>5, <1>6, <1>7, <1>8, <1>9, <1>10 DEF Next

\* Without fence faults no handle ever quarantines under an index that is not
\* its own any more: the hypothesis of the theorems below is met.
THEOREM FencesSuffice ==
  ASSUME "fence" \notin Faults
  PROVE  Spec => []QuarantineOwn
<1>1. Init => GateInv /\ NoneQuarantining
  BY InitGateInv DEF Init, NoneQuarantining
<1>2. GateInv /\ NoneQuarantining /\ [Next]_vars
        => (GateInv /\ NoneQuarantining)'
  BY GateStep, NoneQuarantiningStep
<1>3. NoneQuarantining => QuarantineOwn
  BY DEF NoneQuarantining, QuarantineOwn
<1> QED
  BY <1>1, <1>2, <1>3, PTL DEF Spec

-----------------------------------------------------------------------------
(* What follows from the invariant.                                        *)

\* As long as no index is given away while its old holder is inside its
\* quarantine, a texture the GPU may still read is never handed to the producer
\* and keeps its frame, however many consumers share it, lose their fence or
\* device, exit, are reclaimed and have their index given to others.
THEOREM FramesKept == Spec /\ []QuarantineOwn => []NoOverwriteWhileRead
<1>1. Init => FrameInv
  BY InitFrameInv
<1>2. FrameInv /\ QuarantineOwn /\ [Next]_vars => FrameInv'
  BY FrameStep
<1>3. FrameInv => NoOverwriteWhileRead
  BY DEF FrameInv, ConsumerSound, ReadsCovered, NoOverwriteWhileRead
<1> QED
  BY <1>1, <1>2, <1>3, PTL DEF Spec

\* Likewise the reader bit, or the quarantine, covers every read.
THEOREM ReadersHeld == Spec /\ []QuarantineOwn => []ReaderBitHeld
<1>1. Init => FrameInv
  BY InitFrameInv
<1>2. FrameInv /\ QuarantineOwn /\ [Next]_vars => FrameInv'
  BY FrameStep
<1>3. FrameInv => ReaderBitHeld
  BY DEF FrameInv, ConsumerSound, ReadsCovered, ReaderBitHeld
<1> QED
  BY <1>1, <1>2, <1>3, PTL DEF Spec

\* Likewise acquire_latest never pairs a frame with another frame's metadata,
\* and never selects a slot its handle already holds.
THEOREM MetadataAgrees == Spec /\ []QuarantineOwn => []MetadataPaired
<1>1. Init => FrameInv
  BY InitFrameInv
<1>2. FrameInv /\ QuarantineOwn /\ [Next]_vars => FrameInv'
  BY FrameStep
<1>3. FrameInv => MetadataPaired
  BY TakeReady DEF MetadataPaired
<1> QED
  BY <1>1, <1>2, <1>3, PTL DEF Spec

\* Likewise a frame lease stays good until it is released, whatever order the
\* leases are released in.
THEOREM LeasesKept == Spec /\ []QuarantineOwn => []LeaseValid
<1>1. Init => FrameInv
  BY InitFrameInv
<1>2. FrameInv /\ QuarantineOwn /\ [Next]_vars => FrameInv'
  BY FrameStep
<1>3. FrameInv => LeaseValid
  <2> SUFFICES ASSUME FrameInv, NEW g \in Token, NEW k \in Holding(g)
               PROVE  k \notin writing /\ slotSeq[k] = acquired[g][k]
    BY DEF LeaseValid
  <2>1. <<k, acquired[g][k]>> \in reads[g]
    BY DEF Holding, FrameInv, ConsumerSound, LeasesRead
  <2>2. /\ <<k, acquired[g][k]>>[1] = k
        /\ <<k, acquired[g][k]>>[2] = acquired[g][k]
    OBVIOUS
  <2> QED
    BY <2>1, <2>2 DEF FrameInv, ConsumerSound, ReadsCovered
<1> QED
  BY <1>1, <1>2, <1>3, PTL DEF Spec

-----------------------------------------------------------------------------
(* The bus implements FrameExchange.                                       *)

\* A slot being written shows nothing until its number is stored, which is the
\* last thing before it is let go of.
StoreSound ==
  /\ pubPc \notin {"clear", "exited"} => \A k \in writing : slotSeq[k] = 0
  /\ pubPc = "clear" => slotSeq[writerSlot] = sequence /\ sequence # 0

\* Only acquired slots wait for their release.
ReleasedHeld(g) == \A k \in released[g] : k \in Slot /\ acquired[g][k] # 0

ExchangeInv ==
  /\ FrameInv
  /\ StoreSound
  /\ \A g \in Token : ReleasedHeld(g)

\* What is to be shown of a step, besides FrameStep.
ExchangeKept ==
  /\ StoreSound'
  /\ \A g \in Token : ReleasedHeld(g)'
  /\ [Exchange!Next]_Exchange!exchangeVars

LEMMA HeldElements ==
  ASSUME NEW g \in Token
  PROVE  /\ \A x : x \in Held(g) <=>
              \E k \in Slot : /\ acquired[g][k] # 0 /\ k \notin released[g]
                             /\ x = <<k, acquired[g][k]>>
         /\ \A x : x \in Held(g)' <=>
              \E k \in Slot : /\ acquired'[g][k] # 0 /\ k \notin released'[g]
                             /\ x = <<k, acquired'[g][k]>>
BY DEF Held, Holding

LEMMA InitExchange == Init => StoreSound /\ (\A g \in Token : ReleasedHeld(g))
                              /\ Exchange!Init
<1> SUFFICES ASSUME Init
             PROVE  /\ StoreSound /\ \A g \in Token : ReleasedHeld(g)
                    /\ Exchange!Init
  OBVIOUS
<1>1. StoreSound /\ \A g \in Token : ReleasedHeld(g)
  BY DEF Init, StoreSound, ReleasedHeld
<1>2. ShownSequence = 0 /\ Shown = [k \in Slot |-> 0]
  BY DEF Init, ShownSequence, Shown
<1>3. Living = [g \in Token |-> TRUE]
  BY DEF Init, Living, Alive
<1>4. Leases = [g \in Token |-> {}]
  BY DEF Init, Leases, Held, Holding
<1>5. observed = [g \in Token |-> 0] /\ reads = [g \in Token |-> {}]
  BY DEF Init
<1> QED
  BY <1>1, <1>2, <1>3, <1>4, <1>5 DEF Exchange!Init

\* The parts of the mapping, for steps that leave them alone.
LEMMA SameShown ==
  ASSUME UNCHANGED <<sequence, slotSeq, writing>>
  PROVE  UNCHANGED <<ShownSequence, Shown>>
BY DEF ShownSequence, Shown

LEMMA SameLiving ==
  ASSUME \A g \in Token : pc'[g] = "exited" <=> pc[g] = "exited"
  PROVE  UNCHANGED Living
BY DEF Living, Alive

LEMMA SameLeases ==
  ASSUME UNCHANGED <<acquired, released>>
  PROVE  UNCHANGED Leases
BY DEF Leases, Held, Holding

\* A step the applications do not see.
LEMMA Unseen ==
  ASSUME ExchangeInv,
         UNCHANGED <<sequence, slotSeq, writing, writerSlot, acquired, released,
                     observed, reads>>,
         \A g \in Token : pc'[g] = "exited" <=> pc[g] = "exited",
         \/ pubPc' = pubPc
         \/ pubPc # "exited" /\ pubPc # "clear" /\ pubPc' # "clear"
  PROVE  ExchangeKept
<1>1. StoreSound' /\ \A g \in Token : ReleasedHeld(g)'
  BY DEF ExchangeInv, StoreSound, ReleasedHeld
<1>2. UNCHANGED <<ShownSequence, Shown, Living, Leases, observed, reads>>
  BY SameShown, SameLiving, SameLeases
<1> QED
  BY <1>1, <1>2 DEF ExchangeKept, Exchange!exchangeVars

\* The publisher's steps that move no slot, but PublisherExit.
LEMMA PublisherUnseen ==
  ASSUME ExchangeInv,
         \/ BeginPublish \/ BeginRegister
         \/ \E g \in Token : UnregisterClose(g) \/ UnregisterSweep(g)
         \/ SweepProbe \/ SweepSlots \/ SweepFinalize \/ ClaimScan \/ ClaimRetry
         \/ RegisterRefused \/ DestroyPublisher
  PROVE  ExchangeKept
<1>1. GateInv
  BY DEF ExchangeInv, FrameInv
<1>2. /\ UNCHANGED <<sequence, slotSeq, writing, writerSlot, conVars, gpuVars>>
      /\ \/ pubPc' = pubPc
         \/ pubPc # "exited" /\ pubPc # "clear" /\ pubPc' # "clear"
  <2>1. CASE \/ BeginPublish \/ BeginRegister
             \/ \E g \in Token : UnregisterClose(g) \/ UnregisterSweep(g)
    BY <2>1 DEF BeginPublish, BeginRegister, UnregisterClose, UnregisterSweep,
                StartSweep
  <2>2. CASE SweepProbe \/ SweepFinalize
    <3>1. /\ UNCHANGED <<sequence, slotSeq, writing, writerSlot, conVars,
                         gpuVars>>
          /\ pubPc \in {"probe", "finalize"}
          /\ \/ SweepNext(quarantine) \/ PubReturn
             \/ pubPc' \in {"finalize", "slots"}
      BY <2>2 DEF SweepProbe, SweepFinalize
    <3>2. pubPc' # "clear"
      BY <1>1, <3>1, SweepNextTypes DEF GateInv, PubReturn
    <3> QED
      BY <3>1, <3>2
  <2>3. CASE SweepSlots \/ ClaimScan \/ ClaimRetry
             \/ RegisterRefused \/ DestroyPublisher
    BY <2>3 DEF SweepSlots, ClaimScan, ClaimRetry, RegisterRefused,
                DestroyPublisher, PubReturn
  <2> QED
    BY <2>1, <2>2, <2>3
<1> QED
  BY <1>2, Unseen

\* The publisher's exit leaves a slot it was writing hidden for good.
LEMMA PublisherExitUnseen ==
  ASSUME ExchangeInv, PublisherExit
  PROVE  ExchangeKept
<1>1. /\ UNCHANGED <<pageVars, conVars, gpuVars>>
      /\ pubPc' = "exited"
  BY DEF PublisherExit
<1>2. StoreSound' /\ \A g \in Token : ReleasedHeld(g)'
  BY <1>1 DEF ExchangeInv, StoreSound, ReleasedHeld
<1>3. UNCHANGED <<ShownSequence, Shown, Living, Leases, observed, reads>>
  BY <1>1, SameShown, SameLiving, SameLeases
<1> QED
  BY <1>2, <1>3 DEF ExchangeKept, Exchange!exchangeVars

\* Registering starts a process's handle; it does not end one.
LEMMA RegisterUnseen ==
  ASSUME ExchangeInv, NEW outcome \in {"ok", "failed", "poisoned"},
         RegisterConsumer(outcome)
  PROVE  ExchangeKept
<1>1. /\ UNCHANGED <<sequence, slotSeq, writing, writerSlot, acquired, released,
                     observed, reads>>
      /\ pubPc = "register" /\ pubPc' = "idle"
      /\ pc' = pc \/ pc' = [pc EXCEPT ![nextToken] = "registered"]
  BY DEF RegisterConsumer, PubReturn
<1>2. /\ pc \in [Token -> ConPcs] /\ nextToken \in Int
      /\ \A g \in Token : g \in Int
      /\ \A g \in Token : pc[g] # "none" => g < nextToken
  BY PageTypes, HandleTypes
  DEF ExchangeInv, FrameInv, GateInv, TokensPaired, Token
<1>3. nextToken \in Token => pc[nextToken] = "none"
  BY <1>2
<1>4. \A g \in Token : pc'[g] = "exited" <=> pc[g] = "exited"
  BY <1>1, <1>2, <1>3
<1> QED
  BY <1>1, <1>4, Unseen

\* What claiming, committing and cancelling share: nothing of a consumer moves.
LEMMA WriterStep ==
  ASSUME ExchangeInv, UNCHANGED <<conVars, gpuVars>>, StoreSound',
         NEW w \in Slot,
         \/ Exchange!Empty(w) \/ Exchange!Publish(w)
         \/ UNCHANGED <<ShownSequence, Shown>>
  PROVE  ExchangeKept
<1>1. \A g \in Token : ReleasedHeld(g)'
  BY DEF ExchangeInv, ReleasedHeld
<1>2. UNCHANGED <<Living, Leases, observed, reads>>
  BY SameLiving, SameLeases
<1>3. [Exchange!Next]_Exchange!exchangeVars
  BY <1>2 DEF Exchange!Next, Exchange!exchangeVars
<1> QED
  BY <1>1, <1>3 DEF ExchangeKept

\* The claim empties a slot that nobody reads.
LEMMA ClaimEmpties ==
  ASSUME ExchangeInv, ClaimSlot
  PROVE  ExchangeKept
<1>1. /\ UNCHANGED <<sequence, quarantine, readers, conVars, gpuVars>>
      /\ claimed # NoSlot /\ Free(claimed)
      /\ writing' = writing \cup {claimed}
      /\ slotSeq' = [slotSeq EXCEPT ![claimed] = 0]
      /\ writerSlot' = claimed
      /\ pubPc = "cas" /\ pubPc' = "idle"
  BY DEF ClaimSlot, PubReturn
<1>2. /\ GateInv /\ claimed \in Slot
      /\ slotSeq \in [Slot -> Sequence] /\ writing \subseteq Slot
      /\ readers[claimed] = {}
      /\ claimed \notin writing /\ claimed \notin quarantine
  BY <1>1, PageTypes
  DEF ExchangeInv, FrameInv, GateInv, TypeOK, PublisherTypeOK, Free
<1>3. \A k \in writing : slotSeq[k] = 0
  BY <1>1 DEF ExchangeInv, StoreSound
<1>4. \A k \in Slot : slotSeq'[k] = IF k = claimed THEN 0 ELSE slotSeq[k]
  BY <1>1, <1>2
<1>5. StoreSound'
  BY <1>1, <1>2, <1>3, <1>4 DEF StoreSound
<1>6. Shown' = [Shown EXCEPT ![claimed] = 0]
  BY <1>1, <1>2, <1>4 DEF Shown
<1>7. ShownSequence' = ShownSequence
  BY <1>1, <1>2, <1>3, <1>4 DEF ShownSequence
<1>8. \A g \in Token : \A r \in reads[g] : r[1] # claimed
  BY <1>2 DEF ExchangeInv, FrameInv, ConsumerSound, ReadsCovered
<1>9. UNCHANGED <<Living, Leases, observed, reads>>
  BY <1>1, SameLiving, SameLeases
<1>10. Exchange!Empty(claimed)
  BY <1>6, <1>7, <1>8, <1>9 DEF Exchange!Empty
<1> QED
  BY <1>1, <1>2, <1>5, <1>10, WriterStep

\* The store of the number is not seen, the slot is still being written.
LEMMA StoreUnseen ==
  ASSUME ExchangeInv, CommitStore
  PROVE  ExchangeKept
<1> DEFINE w == writerSlot
<1>1. /\ UNCHANGED <<writing, writerSlot, conVars, gpuVars>>
      /\ w # NoSlot
      /\ slotSeq' = [slotSeq EXCEPT ![w] = sequence + 1]
      /\ sequence' = sequence + 1
      /\ pubPc = "idle" /\ pubPc' = "clear"
  BY DEF CommitStore
<1>2. /\ w \in Slot /\ w \in writing /\ GateInv /\ sequence \in Nat
      /\ \A k \in Slot : k \in writing => k = w
  BY <1>1, WriterSlotFacts DEF ExchangeInv
<1>3. slotSeq \in [Slot -> Sequence] /\ writing \subseteq Slot
  BY <1>2, PageTypes
<1>4. \A k \in writing : slotSeq[k] = 0
  BY <1>1 DEF ExchangeInv, StoreSound
<1>5. \A k \in Slot : slotSeq'[k] = IF k = w THEN sequence + 1 ELSE slotSeq[k]
  BY <1>1, <1>2, <1>3
<1>6. StoreSound'
  BY <1>1, <1>2, <1>5 DEF StoreSound
<1>7. Shown' = Shown
  BY <1>1, <1>2, <1>5 DEF Shown
<1>8. ShownSequence = sequence
  BY <1>4 DEF ShownSequence
<1>9. ShownSequence' = sequence
  <2>1. w \in writing' /\ slotSeq'[w] # 0 /\ sequence' - 1 = sequence
    BY <1>1, <1>2, <1>5
  <2> QED
    BY <2>1 DEF ShownSequence
<1> HIDE DEF w
<1> QED
  BY <1>1, <1>2, <1>6, <1>7, <1>8, <1>9, WriterStep

\* Letting the slot go at the end of a commit shows the frame.
LEMMA ClearPublishes ==
  ASSUME ExchangeInv, CommitClear
  PROVE  ExchangeKept
<1> DEFINE w == writerSlot
<1>1. /\ UNCHANGED <<sequence, slotSeq, conVars, gpuVars>>
      /\ writing' = writing \ {w}
      /\ pubPc = "clear" /\ pubPc' = "idle"
  BY DEF CommitClear, DropOwnership, PubReturn
<1>2. w # NoSlot
  BY <1>1, ConstantTypes DEF ExchangeInv, FrameInv, WriterSound
<1>3. /\ w \in Slot /\ w \in writing /\ GateInv /\ sequence \in Nat
      /\ \A k \in Slot : k \in writing => k = w
  BY <1>1, <1>2, WriterSlotFacts DEF ExchangeInv
<1>4. slotSeq[w] = sequence /\ sequence # 0 /\ writing \subseteq Slot
  BY <1>1, <1>3, PageTypes DEF ExchangeInv, StoreSound
<1>5. writing' = {} /\ StoreSound'
  BY <1>1, <1>3, <1>4 DEF StoreSound
<1>6. ShownSequence = sequence - 1 /\ ShownSequence' = sequence
  BY <1>1, <1>3, <1>4, <1>5 DEF ShownSequence
<1>7. ShownSequence' = ShownSequence + 1
  BY <1>3, <1>6
<1>8. Shown' = [Shown EXCEPT ![w] = ShownSequence'] /\ Shown[w] = 0
  BY <1>1, <1>3, <1>4, <1>5, <1>6 DEF Shown
<1>9. UNCHANGED <<Living, Leases, observed, reads>>
  BY <1>1, SameLiving, SameLeases
<1> HIDE DEF w
<1>10. Exchange!Publish(w)
  BY <1>7, <1>8, <1>9 DEF Exchange!Publish
<1> QED
  BY <1>1, <1>3, <1>5, <1>10, WriterStep

\* A write that is given up was never seen.
LEMMA CancelUnseen ==
  ASSUME ExchangeInv, CancelWrite
  PROVE  ExchangeKept
<1> DEFINE w == writerSlot
<1>1. /\ UNCHANGED <<sequence, conVars, gpuVars, pubPc>>
      /\ writing' = writing \ {w}
      /\ slotSeq' = [slotSeq EXCEPT ![w] = 0]
      /\ w # NoSlot /\ pubPc = "idle"
  BY DEF CancelWrite, DropOwnership
<1>2. /\ w \in Slot /\ w \in writing /\ GateInv
      /\ \A k \in Slot : k \in writing => k = w
  BY <1>1, WriterSlotFacts DEF ExchangeInv
<1>3. /\ slotSeq \in [Slot -> Sequence] /\ writing \subseteq Slot
      /\ \A k \in writing : slotSeq[k] = 0
  BY <1>1, <1>2, PageTypes DEF ExchangeInv, StoreSound
<1>4. writing' = {} /\ slotSeq' = slotSeq
  BY <1>1, <1>2, <1>3
<1>5. StoreSound' /\ Shown' = Shown /\ ShownSequence' = ShownSequence
  BY <1>1, <1>2, <1>3, <1>4 DEF StoreSound, Shown, ShownSequence
<1> HIDE DEF w
<1> QED
  BY <1>1, <1>2, <1>5, WriterStep

\* The handle's steps that neither take nor return a frame.
LEMMA HandleUnseen ==
  ASSUME ExchangeInv, NEW g \in Token,
         \/ ConsumerOp(g) \/ AcquireTimeout(g) \/ CloseConsumer(g)
         \/ EnterAccess(g) \/ ScanSlot(g) \/ SetReaderBit(g) \/ CheckStable(g)
         \/ UndoReaderBit(g) \/ WaitFails(g) \/ LeaveAccess(g)
         \/ QuarantineOr(g)
  PROVE  ExchangeKept
<1>1. pc \in [Token -> ConPcs]
  BY HandleTypes DEF ExchangeInv, FrameInv
<1>2. UNCHANGED <<sequence, slotSeq, writing, pubVars, acquired, released,
                  observed, reads>>
  BY DEF ConsumerOp, OpenConsumer, OpenFails, RequestClose, AcquireCall,
         AcquireTimeout, CloseConsumer, EnterAccess, ScanSlot, SetReaderBit,
         CheckStable, UndoReaderBit, WaitFails, LeaveAccess, QuarantineOr
<1>3. /\ pc[g] # "exited" \/ pc' = pc
      /\ \/ pc' = pc
         \/ \E next \in {"idle", "loop", "scan", "leave", "cas", "check", "take",
                         "undo", "leave_close", "and"} :
              pc' = [pc EXCEPT ![g] = next]
  <2>1. CASE ConsumerOp(g) \/ AcquireTimeout(g) \/ CloseConsumer(g)
    BY <2>1 DEF ConsumerOp, OpenConsumer, OpenFails, RequestClose, AcquireCall,
                AcquireTimeout, CloseConsumer
  <2>2. CASE EnterAccess(g) \/ ScanSlot(g) \/ SetReaderBit(g)
    BY <2>2 DEF EnterAccess, ScanSlot, SetReaderBit
  <2>3. CASE \/ CheckStable(g) \/ UndoReaderBit(g) \/ WaitFails(g)
             \/ LeaveAccess(g) \/ QuarantineOr(g)
    BY <2>3 DEF CheckStable, UndoReaderBit, WaitFails, LeaveAccess, QuarantineOr
  <2> QED
    BY <2>1, <2>2, <2>3
<1>4. \A h \in Token : pc'[h] = "exited" <=> pc[h] = "exited"
  BY <1>1, <1>3
<1> QED
  BY <1>2, <1>4, Unseen

\* The lease sets after a step that changes those of one handle.
LEMMA LeasesOfOne ==
  ASSUME NEW g \in Token,
         \A h \in Token : h # g => /\ acquired'[h] = acquired[h]
                                  /\ released'[h] = released[h]
  PROVE  Leases' = [Leases EXCEPT ![g] = Held(g)']
<1>1. \A h \in Token : h # g => Held(h)' = Held(h)
  BY DEF Held, Holding
<1> QED
  BY <1>1 DEF Leases

\* Taking a frame is acquiring it: it is shown, and newer than all before.
LEMMA TakeAcquires ==
  ASSUME ExchangeInv, NEW g \in Token, TakeFrame(g)
  PROVE  ExchangeKept
<1> DEFINE k == candidate[g]
           s == newest[g]
<1>1. /\ FrameInv /\ pc[g] = "take"
      /\ slotSeq[k] = s /\ stamp[k] = s /\ acquired[g][k] = 0
      /\ k \notin writing
  BY TakeReady DEF ExchangeInv, TakeFrame
<1>2. /\ k \in Slot /\ s \in Nat /\ observed[g] \in Nat /\ observed[g] < s
      /\ GateInv
  BY <1>1, AtReaderBit
<1>3. /\ UNCHANGED <<sequence, slotSeq, writing, pubVars, released>>
      /\ acquired' = [acquired EXCEPT ![g][k] = s]
      /\ observed' = [observed EXCEPT ![g] = s]
      /\ reads' = [reads EXCEPT ![g] = reads[g] \cup {<<k, s>>}]
      /\ pc' = [pc EXCEPT ![g] = "leave_frame"]
  BY <1>1 DEF TakeFrame
<1>4. /\ \A h \in Token : h # g => acquired'[h] = acquired[h]
      /\ acquired'[g][k] = s
      /\ \A j \in Slot : j # k => acquired'[g][j] = acquired[g][j]
      /\ \A h \in Token : pc'[h] = "exited" <=> pc[h] = "exited"
  BY <1>1, <1>2, <1>3, HandleTypes
<1>5. k \notin released[g]
  BY <1>1 DEF ExchangeInv, ReleasedHeld
<1>6. StoreSound'
  BY <1>3 DEF ExchangeInv, StoreSound
<1>7. \A h \in Token : ReleasedHeld(h)'
  BY <1>1, <1>3, <1>4, <1>5 DEF ExchangeInv, ReleasedHeld
<1>8. UNCHANGED <<ShownSequence, Shown, Living>>
  BY <1>3, <1>4, SameShown, SameLiving
<1>9. Shown[k] = s /\ Living[g]
  BY <1>1, <1>2 DEF Shown, Living, Alive
<1>10. Held(g)' = Held(g) \cup {<<k, s>>}
  <2>1. ASSUME NEW x
        PROVE  x \in Held(g)' <=> x \in Held(g) \cup {<<k, s>>}
    <3>1. /\ x \in Held(g) <=>
                \E j \in Slot : /\ acquired[g][j] # 0 /\ j \notin released[g]
                               /\ x = <<j, acquired[g][j]>>
          /\ x \in Held(g)' <=>
                \E j \in Slot : /\ acquired'[g][j] # 0 /\ j \notin released'[g]
                               /\ x = <<j, acquired'[g][j]>>
      BY HeldElements
    <3>2. ASSUME NEW j \in Slot, acquired'[g][j] # 0, j \notin released'[g],
                 x = <<j, acquired'[g][j]>>
          PROVE  x \in Held(g) \cup {<<k, s>>}
      BY <1>3, <1>4, <3>1, <3>2
    <3>3. ASSUME NEW j \in Slot, acquired[g][j] # 0, j \notin released[g],
                 x = <<j, acquired[g][j]>>
          PROVE  x \in Held(g)'
      BY <1>1, <1>3, <1>4, <3>1, <3>3
    <3>4. <<k, s>> \in Held(g)'
      BY <1>2, <1>3, <1>4, <1>5, HeldElements
    <3> QED
      BY <3>1, <3>2, <3>3, <3>4
  <2> QED
    BY <2>1
<1>11. Leases' = [Leases EXCEPT ![g] = Leases[g] \cup {<<k, s>>}]
  <2>1. Leases' = [Leases EXCEPT ![g] = Held(g)']
    BY <1>3, <1>4, LeasesOfOne
  <2>2. Leases[g] = Held(g)
    BY DEF Leases
  <2> QED
    BY <1>10, <2>1, <2>2
<1> HIDE DEF k, s
<1>12. Exchange!Acquire(g, k)
  BY <1>2, <1>3, <1>8, <1>9, <1>11 DEF Exchange!Acquire
<1>13. Exchange!Next
  BY <1>2, <1>12 DEF Exchange!Next
<1> QED
  BY <1>6, <1>7, <1>13 DEF ExchangeKept

\* A release ends one lease, whatever it retires and whether or not the fence
\* can be signalled.
LEMMA ReleaseReleases ==
  ASSUME ExchangeInv, NEW g \in Token, NEW k \in Slot,
         ReleaseFrame(g, k) \/ ReleaseFails(g, k)
  PROVE  ExchangeKept
<1> DEFINE gone == Retired(g, k)
           lease == <<k, acquired[g][k]>>
<1>1. /\ UNCHANGED <<sequence, slotSeq, writing, pubVars, observed, reads>>
      /\ pc[g] = "idle"
      /\ pc' \in {pc, [pc EXCEPT ![g] = "quarantine"]}
      /\ k \in Holding(g) \ released[g]
      /\ acquired' = [acquired EXCEPT ![g] = [j \in Slot |->
           IF j \in gone THEN 0 ELSE acquired[g][j]]]
      /\ released' = [released EXCEPT ![g] = (released[g] \cup {k}) \ gone]
  BY DEF ReleaseFrame, ReleaseFails, Retire
<1>2. /\ pc \in [Token -> ConPcs]
      /\ acquired \in [Token -> [Slot -> Sequence]]
      /\ released \in [Token -> SUBSET Slot]
  BY DEF ExchangeInv, FrameInv, GateInv, TypeOK, ConsumerTypeOK
<1>3. gone \subseteq released[g] \cup {k}
  <2>1. ASSUME NEW j \in gone
        PROVE  j \in released[g] \cup {k}
    <3>1. /\ j \in Holding(g)
          /\ \A m \in Holding(g) : acquired[g][m] <= acquired[g][j]
                => m \in released[g] \cup {k}
      BY DEF Retired
    <3>2. acquired[g][j] \in Nat
      BY <1>2, <3>1, SequenceNat DEF Holding
    <3> QED
      BY <3>1, <3>2
  <2> QED
    BY <2>1
<1>4. /\ \A h \in Token : h # g => /\ acquired'[h] = acquired[h]
                                   /\ released'[h] = released[h]
      /\ \A j \in Slot : acquired'[g][j] =
                          IF j \in gone THEN 0 ELSE acquired[g][j]
      /\ released'[g] = (released[g] \cup {k}) \ gone
      /\ \A h \in Token : pc'[h] = "exited" <=> pc[h] = "exited"
      /\ acquired[g][k] # 0 /\ k \notin released[g]
  BY <1>1, <1>2 DEF Holding
<1> HIDE DEF gone
<1>5. StoreSound'
  BY <1>1 DEF ExchangeInv, StoreSound
<1>6. \A h \in Token : ReleasedHeld(h)'
  BY <1>2, <1>4 DEF ExchangeInv, ReleasedHeld
<1>7. UNCHANGED <<ShownSequence, Shown, Living>>
  BY <1>1, <1>4, SameShown, SameLiving
<1>8. lease \in Held(g)
  BY <1>4, HeldElements
<1>9. Held(g)' = Held(g) \ {lease}
  <2>1. ASSUME NEW x
        PROVE  x \in Held(g)' <=> x \in Held(g) \ {lease}
    <3>1. /\ x \in Held(g) <=>
                \E j \in Slot : /\ acquired[g][j] # 0 /\ j \notin released[g]
                               /\ x = <<j, acquired[g][j]>>
          /\ x \in Held(g)' <=>
                \E j \in Slot : /\ acquired'[g][j] # 0 /\ j \notin released'[g]
                               /\ x = <<j, acquired'[g][j]>>
      BY HeldElements
    <3>2. ASSUME NEW j \in Slot, acquired'[g][j] # 0, j \notin released'[g],
                 x = <<j, acquired'[g][j]>>
          PROVE  x \in Held(g) \ {lease}
      BY <1>4, <3>1, <3>2
    <3>3. ASSUME NEW j \in Slot, acquired[g][j] # 0, j \notin released[g],
                 x = <<j, acquired[g][j]>>, x # lease
          PROVE  x \in Held(g)'
      <4>1. j # k
        BY <3>3
      <4>2. j \notin gone /\ j \notin released'[g]
        BY <1>3, <1>4, <3>3, <4>1
      <4> QED
        BY <1>4, <3>1, <3>3, <4>2
    <3> QED
      BY <3>1, <3>2, <3>3
  <2> QED
    BY <2>1
<1>10. Leases' = [Leases EXCEPT ![g] = Leases[g] \ {lease}]
       /\ lease \in Leases[g]
  <2>1. Leases' = [Leases EXCEPT ![g] = Held(g)']
    BY <1>4, LeasesOfOne
  <2>2. Leases[g] = Held(g)
    BY DEF Leases
  <2> QED
    BY <1>8, <1>9, <2>1, <2>2
<1> HIDE DEF lease
<1>11. Exchange!Release(g, lease)
  BY <1>1, <1>7, <1>10 DEF Exchange!Release
<1>12. Exchange!Next
  BY <1>10, <1>11 DEF Exchange!Next
<1> QED
  BY <1>5, <1>6, <1>12 DEF ExchangeKept

\* The end of a quarantine revokes the leases; the rest of it is not seen.
LEMMA QuarantineRevokes ==
  ASSUME ExchangeInv, NEW g \in Token, QuarantineTest(g) \/ QuarantineAnd(g)
  PROVE  ExchangeKept
<1>1. /\ UNCHANGED <<sequence, slotSeq, writing, pubVars, observed, reads>>
      /\ pc[g] \in {"quarantine", "and"}
      /\ \/ /\ pc' = [pc EXCEPT ![g] = "or"]
            /\ UNCHANGED <<acquired, released>>
         \/ /\ pc' = [pc EXCEPT ![g] = "quarantine"]
            /\ UNCHANGED <<acquired, released>>
         \/ /\ pc' = [pc EXCEPT ![g] = "idle"]
            /\ acquired' = [acquired EXCEPT ![g] = [k \in Slot |-> 0]]
            /\ released' = [released EXCEPT ![g] = {}]
  BY DEF QuarantineTest, QuarantineAnd, QuarantineNext
<1>2. /\ pc \in [Token -> ConPcs]
      /\ acquired \in [Token -> [Slot -> Sequence]]
      /\ released \in [Token -> SUBSET Slot]
  BY DEF ExchangeInv, FrameInv, GateInv, TypeOK, ConsumerTypeOK
<1>3. \A h \in Token : pc'[h] = "exited" <=> pc[h] = "exited"
  BY <1>1, <1>2
<1>4. CASE UNCHANGED <<acquired, released>>
  BY <1>1, <1>3, <1>4, Unseen
<1>5. CASE /\ acquired' = [acquired EXCEPT ![g] = [k \in Slot |-> 0]]
           /\ released' = [released EXCEPT ![g] = {}]
  <2>1. /\ \A h \in Token : h # g => /\ acquired'[h] = acquired[h]
                                     /\ released'[h] = released[h]
        /\ \A k \in Slot : acquired'[g][k] = 0
        /\ released'[g] = {}
    BY <1>2, <1>5
  <2>2. StoreSound'
    BY <1>1 DEF ExchangeInv, StoreSound
  <2>3. \A h \in Token : ReleasedHeld(h)'
    BY <2>1 DEF ExchangeInv, ReleasedHeld
  <2>4. Leases' = [Leases EXCEPT ![g] = {}]
    <3>1. Held(g)' = {}
      BY <2>1, HeldElements
    <3> QED
      BY <2>1, <3>1, LeasesOfOne
  <2>5. UNCHANGED <<ShownSequence, Shown, Living>>
    BY <1>1, <1>3, SameShown, SameLiving
  <2>6. Exchange!Revoke(g)
    BY <1>1, <2>4, <2>5 DEF Exchange!Revoke
  <2>7. Exchange!Next
    BY <2>6 DEF Exchange!Next
  <2> QED
    BY <2>2, <2>3, <2>7 DEF ExchangeKept
<1> QED
  BY <1>1, <1>4, <1>5

\* The process exits.
LEMMA ExitExits ==
  ASSUME ExchangeInv, NEW g \in Token, ConsumerExit(g)
  PROVE  ExchangeKept
<1>1. /\ UNCHANGED <<sequence, slotSeq, writing, pubVars, reads>>
      /\ pc[g] # "exited"
      /\ pc' = [pc EXCEPT ![g] = "exited"]
      /\ observed' = [observed EXCEPT ![g] = 0]
      /\ acquired' = [acquired EXCEPT ![g] = [k \in Slot |-> 0]]
      /\ released' = [released EXCEPT ![g] = {}]
  BY DEF ConsumerExit, Alive
<1>2. /\ pc \in [Token -> ConPcs]
      /\ acquired \in [Token -> [Slot -> Sequence]]
      /\ released \in [Token -> SUBSET Slot]
  BY DEF ExchangeInv, FrameInv, GateInv, TypeOK, ConsumerTypeOK
<1>3. /\ \A h \in Token : h # g => /\ acquired'[h] = acquired[h]
                                   /\ released'[h] = released[h]
      /\ \A k \in Slot : acquired'[g][k] = 0
      /\ released'[g] = {}
  BY <1>1, <1>2
<1>4. StoreSound'
  BY <1>1 DEF ExchangeInv, StoreSound
<1>5. \A h \in Token : ReleasedHeld(h)'
  BY <1>3 DEF ExchangeInv, ReleasedHeld
<1>6. Leases' = [Leases EXCEPT ![g] = {}]
  <2>1. Held(g)' = {}
    BY <1>3, HeldElements
  <2> QED
    BY <1>3, <2>1, LeasesOfOne
<1>7. Living[g] /\ Living' = [Living EXCEPT ![g] = FALSE]
  BY <1>1, <1>2 DEF Living, Alive
<1>8. UNCHANGED <<ShownSequence, Shown>>
  BY <1>1, SameShown
<1>9. Exchange!Exit(g)
  BY <1>1, <1>6, <1>7, <1>8 DEF Exchange!Exit
<1>10. Exchange!Next
  BY <1>9 DEF Exchange!Next
<1> QED
  BY <1>4, <1>5, <1>10 DEF ExchangeKept

\* The GPU executes a signal: it finishes the oldest reads, and no lease.
LEMMA SignalFinishes ==
  ASSUME ExchangeInv, NEW g \in Token, GpuSignal(g)
  PROVE  ExchangeKept
<1>1. PICK s \in signals[g] :
         /\ reads' = [reads EXCEPT ![g] = {r \in reads[g] : r[2] > s}]
         /\ UNCHANGED <<pageVars, pubVars, conVars>>
  BY DEF GpuSignal
<1>2. /\ reads \in [Token -> SUBSET (Slot \X Sequence)]
      /\ s \in Nat /\ \A r \in reads[g] : r[2] \in Nat
      /\ \A k \in Slot : acquired[g][k] \in Nat
  BY HandleTypes, SequenceNat DEF ExchangeInv, FrameInv
<1> DEFINE done == {r \in reads[g] : ~(r[2] > s)}
<1>3. /\ done \in SUBSET reads[g]
      /\ \A r \in done, q \in reads[g] \ done : r[2] < q[2]
      /\ {r \in reads[g] : r[2] > s} = reads[g] \ done
  BY <1>2
<1>4. done \cap Leases[g] = {}
  <2>1. ASSUME NEW r \in done, r \in Held(g)
        PROVE  FALSE
    <3>1. PICK k \in Slot : acquired[g][k] # 0 /\ r = <<k, acquired[g][k]>>
      BY <2>1, HeldElements
    <3>2. s < acquired[g][k]
      BY <3>1 DEF ExchangeInv, FrameInv, ConsumerSound, LeasesRead
    <3>3. r[2] = acquired[g][k]
      BY <3>1
    <3> QED
      BY <1>2, <3>2, <3>3
  <2>2. Leases[g] = Held(g)
    BY DEF Leases
  <2> QED
    BY <2>1, <2>2
<1> HIDE DEF done
<1>5. UNCHANGED <<ShownSequence, Shown, Living, Leases, observed>>
  BY <1>1, SameShown, SameLiving, SameLeases
<1>6. Exchange!Finish(g, done)
  BY <1>1, <1>3, <1>4, <1>5 DEF Exchange!Finish
<1>7. Exchange!Next
  BY <1>3, <1>6 DEF Exchange!Next
<1>8. StoreSound' /\ \A h \in Token : ReleasedHeld(h)'
  BY <1>1 DEF ExchangeInv, StoreSound, ReleasedHeld
<1> QED
  BY <1>7, <1>8 DEF ExchangeKept

LEMMA ExchangeStep ==
  ASSUME ExchangeInv, [Next]_vars
  PROVE  ExchangeKept
<1>1. CASE PublisherOp
  BY <1>1, PublisherUnseen, StoreUnseen, CancelUnseen DEF PublisherOp
<1>2. CASE PublisherStep
  BY <1>2, PublisherUnseen, ClaimEmpties, ClearPublishes, RegisterUnseen
  DEF PublisherStep
<1>3. CASE PublisherEnd
  BY <1>3, PublisherUnseen, PublisherExitUnseen DEF PublisherEnd
<1>4. ASSUME NEW g \in Token, ConsumerOp(g) \/ ConsumerStep(g)
      PROVE  ExchangeKept
  BY <1>4, HandleUnseen, TakeAcquires, QuarantineRevokes DEF ConsumerStep
<1>5. ASSUME NEW g \in Token, ConsumerRelease(g) \/ ConsumerFault(g)
      PROVE  ExchangeKept
  BY <1>5, HandleUnseen, ReleaseReleases, ExitExits
  DEF ConsumerRelease, ConsumerFault
<1>6. ASSUME NEW g \in Token, GpuSignal(g)
      PROVE  ExchangeKept
  BY <1>6, SignalFinishes
<1>7. CASE UNCHANGED vars
  BY <1>7, Unseen DEF vars
<1> QED
  BY <1>1, <1>2, <1>3, <1>4, <1>5, <1>6, <1>7 DEF Next

\* As long as no index is given away while its old holder is inside its
\* quarantine, the bus is a frame exchange: every consumer acquires newer and
\* newer frames, each shown whole, a slot is emptied only when nobody reads it,
\* and the fence finishes no frame that is still leased.
THEOREM BusExchanges == Spec /\ []QuarantineOwn => Exchanges
<1>1. Init => ExchangeInv /\ Exchange!Init
  BY InitFrameInv, InitExchange DEF ExchangeInv
<1>2. ExchangeInv /\ QuarantineOwn /\ [Next]_vars => ExchangeInv'
  BY FrameStep, ExchangeStep DEF ExchangeInv, ExchangeKept
<1>3. ExchangeInv /\ [Next]_vars => [Exchange!Next]_Exchange!exchangeVars
  BY ExchangeStep DEF ExchangeKept
<1> QED
  BY <1>1, <1>2, <1>3, PTL DEF Spec, Exchanges, Exchange!Spec

\* All five without a condition on the behaviour, as long as the consumers'
\* fences work; any other fault may occur.
COROLLARY FramesSafeWithFences ==
  ASSUME "fence" \notin Faults
  PROVE  Spec => /\ []NoOverwriteWhileRead
                 /\ []ReaderBitHeld
                 /\ []MetadataPaired
                 /\ []LeaseValid
                 /\ Exchanges
BY FencesSuffice, FramesKept, ReadersHeld, MetadataAgrees, LeasesKept,
   BusExchanges, PTL
============================================================================
