-------------------- MODULE RecoverableGpuPipelineProofs --------------------
(***************************************************************************)
(* Proofs about RecoverableGpuPipeline for every number of threads that    *)
(* stop it, every retry budget, every number of faults and every bus mode. *)
(***************************************************************************)
EXTENDS RecoverableGpuPipeline, TLAPS

\* The part of the variables' types the arguments below need.
RecoveryTyped ==
  /\ graph \in Graphs \cup {NoGraph}
  /\ candidate \in Graphs \cup {NoGraph}
  /\ ticket \in [epoch : Nat \ {0}, nonce : Nonces]
  /\ ctl \in ControlPoints
  /\ callback \in {"out", "in", "requested"}
  /\ busMode \in BusModes /\ planarDisabled \in BOOLEAN
  /\ failedBuilds \in Nat /\ faultCount \in 0 .. MaxFaults

BuildPoints == {"dimensions", "candidate", "native", "built"}
ActivatePoints == {"activate", "starting", "activated"}
WatchPoints == {"monitor", "detect", "detect_encoder", "detect_error"}
RunningPoints ==
  {"none", "init", "monitor", "detect", "detect_encoder", "detect_error",
   "start_stopped", "initial_failed", "recover", "target_closed"}

\* Where the control thread is tells how far the supervisor got.
InStage(c, e) ==
  /\ e \in {"running", "quiescing", "retired", "building", "ready"}
  /\ c \in RunningPoints => e = "running"
  /\ c \in BuildPoints => e \in {"running", "building"}
  /\ c \in ActivatePoints => e \in {"running", "ready"}
  /\ c = "retire" => e = "quiescing"
  /\ c \in {"backoff", "begin", "recover_failed"} => e = "retired"
  /\ c = "abandon_stopped" => e = "building"
  /\ c = "abandon" => e \in {"building", "ready"}

TicketHeld == held = ticket /\ InStage(ctl, epochState)

NotStarted == starter \in {"idle", "locked"} => ctl = "none"

\* A graph is installed only while its epoch runs; a worker that rejects
\* frames has failed.
GraphPlaced ==
  /\ graph.alive =>
       /\ ctl \in WatchPoints \cup {"recover", "caught", "finish"}
       /\ epochState = "running"
       /\ ~candidate.alive
       /\ graph.encoder # "accepting" => graph.faults # {}
  /\ ctl \in WatchPoints => graph.alive
  /\ ctl = "detect_error" => graph.faults # {}

\* Where a graph is under construction or tear-down; what is going to be
\* installed has not failed.
CandidatePlaced ==
  /\ candidate.alive =>
       /\ ctl \in {"built", "start_stopped", "initial_failed", "retire",
                   "abandon_stopped", "abandon", "target_closed", "caught",
                   "ending"} \cup ActivatePoints
       /\ epochState # "retired"
       /\ ctl \in {"built"} \cup ActivatePoints =>
            candidate.faults = {} /\ candidate.encoder = "accepting"
  /\ ctl = "built" /\ result = "ok" => candidate.alive
  /\ ctl \in ActivatePoints => candidate.alive

CallbackInside == callback # "out" => graph.alive \/ candidate.alive

\* The epochs that the faults so far may have cost.
Allowed == faultCount * (MaxRetry + 1)

\* What is spent of the retry budget at each point of a recovery.
BudgetKept ==
  /\ ticket.epoch <= Allowed + MaxRetry + 1
  /\ /\ epochState = "running" /\ ~graph.alive
     /\ ctl \in BuildPoints \cup ActivatePoints
          \cup {"none", "init", "start_stopped", "initial_failed"}
     => ticket.epoch = 1
  /\ graph.alive /\ graph.faults # {} => ticket.epoch <= Allowed
  /\ ctl \in {"recover", "retire", "backoff", "begin"} =>
       ticket.epoch <= Allowed + failedBuilds
  /\ ctl \in {"backoff", "begin"} => failedBuilds <= MaxRetry
  /\ epochState \in {"building", "ready"} =>
       /\ ticket.epoch <= Allowed + failedBuilds + 1
       /\ failedBuilds <= MaxRetry

RecoveryInv ==
  /\ RecoveryTyped
  /\ TicketHeld
  /\ NotStarted
  /\ GraphPlaced
  /\ CandidatePlaced
  /\ CallbackInside
  /\ BudgetKept

USE DEF envVars, apiVars, stateVars, startVars, graphVars, buildVars,
        retryVars, supervisorVars

-----------------------------------------------------------------------------
\* What a graph is and what becomes of it.
LEMMA NoGraphIs == NoGraph.alive = FALSE
BY DEF NoGraph

LEMMA NewGraphIs ==
  ASSUME NEW planar \in BOOLEAN
  PROVE  /\ NewGraph(planar) \in Graphs
         /\ NewGraph(planar).alive
         /\ NewGraph(planar).faults = {}
         /\ NewGraph(planar).encoder = "accepting"
BY DEF NewGraph, Graphs

LEMMA ShapeOf ==
  ASSUME NEW g \in Graphs \cup {NoGraph}
  PROVE  /\ g.alive \in BOOLEAN
         /\ g.alive => g \in Graphs
         /\ ~g.alive => g = NoGraph
<1>1. CASE g \in Graphs
  BY <1>1 DEF Graphs
<1>2. CASE g = NoGraph
  BY <1>2, NoGraphIs
<1> QED
  BY <1>1, <1>2

\* The beginning of a tear-down keeps all but the packet bridge.
LEMMA ClosingKeeps ==
  ASSUME NEW g \in Graphs \cup {NoGraph}
  PROVE  /\ Closing(g) \in Graphs \cup {NoGraph}
         /\ Closing(g).alive = g.alive
BY DEF Closing, Graphs, NoGraph

\* One more fault allows one more round of builds.
LEMMA AllowedStep ==
  ASSUME NEW n \in Nat, NEW m \in Nat
  PROVE  /\ n * (m + 1) \in Nat
         /\ (n + 1) * (m + 1) = n * (m + 1) + m + 1
OBVIOUS

LEMMA AllowedNat == RecoveryTyped => Allowed \in Nat
BY AllowedStep, RecoveryAssumption DEF RecoveryTyped, Allowed

LEMMA InitRecoveryInv == Init => RecoveryInv
<1> SUFFICES ASSUME Init PROVE RecoveryInv
  OBVIOUS
<1>1. /\ ticket.epoch = 1
      /\ ticket \in [epoch : Nat \ {0}, nonce : Nonces]
  BY RecoveryAssumption DEF Init
<1>2. RecoveryTyped
  <2>1. graph \in Graphs \cup {NoGraph} /\ candidate \in Graphs \cup {NoGraph}
    BY DEF Init
  <2>2. failedBuilds \in Nat /\ faultCount \in 0 .. MaxFaults
    BY RecoveryAssumption DEF Init
  <2> QED
    BY <1>1, <2>1, <2>2 DEF Init, RecoveryTyped, ControlPoints
<1>3. ~graph.alive /\ ~candidate.alive
  BY NoGraphIs DEF Init
<1>4. TicketHeld /\ NotStarted
  BY DEF Init, TicketHeld, NotStarted, InStage, RunningPoints, BuildPoints,
    ActivatePoints
<1>5. GraphPlaced /\ CandidatePlaced /\ CallbackInside
  BY <1>3 DEF Init, GraphPlaced, CandidatePlaced, CallbackInside,
    WatchPoints, ActivatePoints
<1>6. Allowed \in Nat
  BY <1>2, AllowedNat
<1>7. BudgetKept
  BY <1>1, <1>3, <1>6, RecoveryAssumption DEF Init, BudgetKept
<1> QED
  BY <1>2, <1>4, <1>5, <1>7 DEF RecoveryInv

\* A step that changes nothing the invariant speaks of preserves it.
LEMMA QuietStep ==
  ASSUME RecoveryInv,
         UNCHANGED <<graph, candidate, callback, ticket, held, epochState,
                     busMode, planarDisabled, failedBuilds, faultCount,
                     result, ctl>>,
         NotStarted'
  PROVE  RecoveryInv'
<1>1. Allowed' = Allowed
  BY DEF Allowed
<1>2. RecoveryTyped' /\ TicketHeld' /\ CallbackInside'
  BY DEF RecoveryInv, RecoveryTyped, TicketHeld, CallbackInside
<1>3. GraphPlaced' /\ CandidatePlaced'
  BY DEF RecoveryInv, GraphPlaced, CandidatePlaced
<1>4. BudgetKept'
  BY <1>1 DEF RecoveryInv, BudgetKept
<1> QED
  BY <1>2, <1>3, <1>4 DEF RecoveryInv

\* start() and stop(): only the making of the thread moves ctl.
LEMMA ApiInv ==
  ASSUME RecoveryInv, ApiSteps,
         \/ StartLock \/ StartThread \/ StartWake \/ StartJoin
         \/ StartJoinLock
         \/ \E s \in Stoppers : \/ StopRequest(s) \/ StopState(s)
                                \/ StopJoin(s) \/ StopJoinLock(s)
  PROVE  RecoveryInv'
<1>1. CASE ctl' = ctl
  <2>1. NotStarted'
    BY <1>1 DEF RecoveryInv, NotStarted, StartLock, StartThread, StartWake,
      StartJoin, StartJoinLock, StopRequest, StopState, StopJoin,
      StopJoinLock
  <2> QED
    BY <1>1, <2>1, QuietStep DEF ApiSteps
<1>2. CASE ctl' # ctl
  <2>1. ctl = "none" /\ ctl' = "init" /\ starter' = "waiting"
    BY <1>2 DEF RecoveryInv, NotStarted, StartLock, StartThread, StartWake,
      StartJoin, StartJoinLock, StopRequest, StopState, StopJoin,
      StopJoinLock
  <2>2. /\ UNCHANGED <<graph, candidate, callback, ticket, held, epochState,
                       busMode, planarDisabled, failedBuilds, faultCount,
                       result>>
        /\ Allowed' = Allowed
    BY DEF ApiSteps, Allowed
  <2>3. RecoveryTyped' /\ TicketHeld' /\ NotStarted' /\ CallbackInside'
    BY <2>1, <2>2 DEF RecoveryInv, RecoveryTyped, TicketHeld, NotStarted,
      CallbackInside, ControlPoints, InStage, RunningPoints, BuildPoints,
      ActivatePoints
  <2>4. GraphPlaced' /\ CandidatePlaced'
    BY <2>1, <2>2 DEF RecoveryInv, GraphPlaced, CandidatePlaced,
      WatchPoints, ActivatePoints
  <2>5. BudgetKept'
    BY <2>1, <2>2 DEF RecoveryInv, BudgetKept
  <2> QED
    BY <2>3, <2>4, <2>5 DEF RecoveryInv
<1> QED
  BY <1>1, <1>2

\* The packet callback runs on the worker of a live graph.
LEMMA CallbackInv ==
  ASSUME RecoveryInv, GraphSteps,
         CallbackEnter \/ CallbackStop \/ CallbackReturn
  PROVE  RecoveryInv'
<1>1. /\ UNCHANGED <<graph, candidate, ticket, held, epochState, busMode,
                     planarDisabled, failedBuilds, faultCount, result, ctl,
                     starter>>
      /\ Allowed' = Allowed
  BY DEF GraphSteps, CallbackEnter, CallbackStop, CallbackReturn, Allowed
<1>2. /\ callback' \in {"out", "in", "requested"}
      /\ callback' # "out" => callback # "out" \/ Enabled(graph)
                                \/ Enabled(candidate)
  BY DEF CallbackEnter, CallbackStop, CallbackReturn
<1>3. RecoveryTyped' /\ TicketHeld' /\ NotStarted' /\ CallbackInside'
  BY <1>1, <1>2 DEF RecoveryInv, RecoveryTyped, TicketHeld, NotStarted,
    CallbackInside, Enabled
<1>4. GraphPlaced' /\ CandidatePlaced'
  BY <1>1 DEF RecoveryInv, GraphPlaced, CandidatePlaced
<1>5. BudgetKept'
  BY <1>1 DEF RecoveryInv, BudgetKept
<1> QED
  BY <1>3, <1>4, <1>5 DEF RecoveryInv

\* A fault of the running graph adds a round of builds to the budget.
LEMMA GraphFailsInv ==
  ASSUME RecoveryInv, GraphSteps, NEW cause \in Causes, GraphFails(cause)
  PROVE  RecoveryInv'
<1> DEFINE failing == [graph EXCEPT !.faults = @ \cup {cause}]
<1>1. /\ UNCHANGED <<candidate, callback, ticket, held, epochState, busMode,
                     planarDisabled, failedBuilds, result, ctl, starter>>
      /\ graph.alive /\ faultCount < MaxFaults
      /\ graph' = failing /\ faultCount' = faultCount + 1
  BY DEF GraphSteps, GraphFails
<1>2. graph \in Graphs
  BY <1>1, ShapeOf DEF RecoveryInv, RecoveryTyped
<1>3. /\ failing \in Graphs /\ failing.alive
      /\ failing.faults # {} /\ failing.encoder = graph.encoder
  BY <1>2 DEF Graphs
<1>4. /\ Allowed \in Nat
      /\ Allowed' = Allowed + MaxRetry + 1
  BY <1>1, AllowedStep, RecoveryAssumption DEF RecoveryInv, RecoveryTyped,
    Allowed
<1> HIDE DEF failing
<1>5. RecoveryTyped' /\ TicketHeld' /\ NotStarted' /\ CallbackInside'
  BY <1>1, <1>3, RecoveryAssumption DEF RecoveryInv, RecoveryTyped,
    TicketHeld, NotStarted, CallbackInside
<1>6. GraphPlaced' /\ CandidatePlaced'
  BY <1>1, <1>3 DEF RecoveryInv, GraphPlaced, CandidatePlaced
<1>7. ticket.epoch \in Nat /\ failedBuilds \in Nat /\ MaxRetry \in Nat
  BY RecoveryAssumption DEF RecoveryInv, RecoveryTyped
<1>8. BudgetKept'
  BY <1>1, <1>3, <1>4, <1>7 DEF RecoveryInv, BudgetKept
<1> QED
  BY <1>5, <1>6, <1>8 DEF RecoveryInv

\* The failing worker stops accepting, then publishes its error.
LEMMA EncoderStepInv ==
  ASSUME RecoveryInv, GraphSteps, EncoderStep
  PROVE  RecoveryInv'
<1>1. /\ UNCHANGED <<candidate, callback, ticket, held, epochState, busMode,
                     planarDisabled, failedBuilds, faultCount, result, ctl,
                     starter>>
      /\ Allowed' = Allowed
      /\ graph.alive /\ graph.faults # {}
  BY DEF GraphSteps, EncoderStep, Allowed
<1>2. graph \in Graphs
  BY <1>1, ShapeOf DEF RecoveryInv, RecoveryTyped
<1>3. /\ graph' \in Graphs /\ graph'.alive
      /\ graph'.faults = graph.faults
  BY <1>2 DEF EncoderStep, Graphs
<1>4. RecoveryTyped' /\ TicketHeld' /\ NotStarted' /\ CallbackInside'
  BY <1>1, <1>3 DEF RecoveryInv, RecoveryTyped, TicketHeld, NotStarted,
    CallbackInside
<1>5. GraphPlaced' /\ CandidatePlaced'
  BY <1>1, <1>3 DEF RecoveryInv, GraphPlaced, CandidatePlaced
<1>6. BudgetKept'
  BY <1>1, <1>3 DEF RecoveryInv, BudgetKept
<1> QED
  BY <1>4, <1>5, <1>6 DEF RecoveryInv

-----------------------------------------------------------------------------
\* What every step of the control thread leaves alone.
LEMMA ControlKeeps ==
  ASSUME RecoveryInv, ControlSteps, ctl # "none"
  PROVE  /\ UNCHANGED <<starter, callback, busMode, faultCount>>
         /\ NotStarted'
         /\ Allowed' = Allowed /\ Allowed \in Nat
         /\ ticket.epoch \in Nat /\ failedBuilds \in Nat
         /\ MaxRetry \in Nat
<1>1. UNCHANGED <<starter, callback, busMode, faultCount>>
  BY DEF ControlSteps
<1>2. NotStarted' /\ Allowed' = Allowed
  BY <1>1 DEF RecoveryInv, NotStarted, Allowed
<1> QED
  BY <1>1, <1>2, AllowedNat, RecoveryAssumption
    DEF RecoveryInv, RecoveryTyped

\* The first step of the control thread, and build_epoch.
LEMMA BuildInv ==
  ASSUME RecoveryInv, ControlSteps,
         \/ ControlInit \/ DimensionsKnown \/ DimensionsStopped
         \/ \E eligible \in BOOLEAN : BuildCandidate(eligible)
         \/ BuildNative
  PROVE  RecoveryInv'
<1>1. /\ ctl \in {"init", "dimensions", "candidate", "native"}
      /\ UNCHANGED <<graph, ticket, epochState, failedBuilds>>
      /\ held' = ticket
  BY DEF ControlInit, DimensionsKnown, DimensionsStopped, BuildCandidate,
    BuildNative, RecoveryInv, TicketHeld
<1>2. ~graph.alive /\ ~candidate.alive
  BY <1>1 DEF RecoveryInv, GraphPlaced, CandidatePlaced, WatchPoints,
    ActivatePoints
<1>3. planarDisabled' \in BOOLEAN
  BY DEF ControlInit, DimensionsKnown, DimensionsStopped, BuildCandidate,
    BuildNative, RecoveryInv, RecoveryTyped
<1>4. /\ ctl = "init" => ctl' \in {"ended", "dimensions"}
      /\ ctl # "init" => ctl' \in {"candidate", "native", "built"}
  BY DEF ControlInit, DimensionsKnown, DimensionsStopped, BuildCandidate,
    BuildNative
<1>5. \/ /\ candidate' = candidate
         /\ ctl' = "built" => result' # "ok"
      \/ /\ ctl' = "built"
         /\ \E planar \in BOOLEAN : candidate' = NewGraph(planar)
  <2>1. CASE ControlInit \/ DimensionsKnown \/ DimensionsStopped
    BY <2>1 DEF ControlInit, DimensionsKnown, DimensionsStopped, BuildErrors
  <2>2. ASSUME NEW eligible \in BOOLEAN, BuildCandidate(eligible)
        PROVE  <1>5
    <3>1. Planar(eligible) \in BOOLEAN
      BY RecoveryAssumption DEF Planar, RecoveryInv, RecoveryTyped
    <3> QED
      BY <2>2, <3>1 DEF BuildCandidate, BuildErrors
  <2>3. CASE BuildNative
    BY <2>3 DEF BuildNative, BuildErrors
  <2> QED
    BY <2>1, <2>2, <2>3
<1>6. \/ candidate' = candidate /\ (ctl' = "built" => result' # "ok")
      \/ /\ ctl' = "built" /\ candidate' \in Graphs /\ candidate'.alive
         /\ candidate'.faults = {} /\ candidate'.encoder = "accepting"
  BY <1>5, NewGraphIs
<1>7. RecoveryTyped' /\ CallbackInside'
  BY <1>1, <1>2, <1>3, <1>4, <1>6, ControlKeeps DEF RecoveryInv,
    RecoveryTyped, CallbackInside, ControlPoints
<1>8. TicketHeld'
  BY <1>1, <1>4 DEF RecoveryInv, TicketHeld, InStage, RunningPoints,
    BuildPoints, ActivatePoints
<1>9. GraphPlaced' /\ CandidatePlaced'
  BY <1>1, <1>2, <1>4, <1>6 DEF RecoveryInv, GraphPlaced, CandidatePlaced,
    WatchPoints, ActivatePoints, TicketHeld, InStage, RunningPoints,
    BuildPoints
<1>10. BudgetKept'
  BY <1>1, <1>2, <1>4, ControlKeeps DEF RecoveryInv, BudgetKept,
    BuildPoints, ActivatePoints
<1> QED
  BY <1>1, <1>7, <1>8, <1>9, <1>10, ControlKeeps DEF RecoveryInv

\* After build_epoch: the first graph, and a replacement, which the
\* supervisor is told of.
LEMMA BuiltInv ==
  ASSUME RecoveryInv, ControlSteps, InitialBuilt \/ ReplacementBuilt
  PROVE  RecoveryInv'
<1>1. /\ ctl = "built"
      /\ UNCHANGED <<graph, ticket, held, failedBuilds, planarDisabled,
                     result>>
  BY DEF InitialBuilt, ReplacementBuilt, Supervisor!MarkReady
<1>2. ~graph.alive
  BY <1>1 DEF RecoveryInv, GraphPlaced, WatchPoints
<1>3. \/ /\ epochState = "running" /\ epochState' = "running"
         /\ candidate' = candidate
         /\ \/ ctl' = "initial_failed"
            \/ ctl' \in {"activate", "activated"} /\ result = "ok"
      \/ /\ epochState = "building" /\ epochState' = "building"
         /\ candidate' = Closing(candidate) /\ ctl' = "abandon_stopped"
      \/ /\ epochState = "building" /\ epochState' = "ready"
         /\ candidate' = candidate /\ ctl' = "activate" /\ result = "ok"
      \/ /\ epochState = "building" /\ epochState' = "building"
         /\ candidate' = candidate /\ ctl' = "abandon"
  BY <1>1 DEF InitialBuilt, ReplacementBuilt, Supervisor!MarkReady, Initial,
    RecoveryInv, TicketHeld, InStage, BuildPoints
<1>4. /\ candidate' \in Graphs \cup {NoGraph}
      /\ candidate'.alive = candidate.alive
      /\ ctl' = "abandon_stopped" \/ candidate' = candidate
  BY <1>3, ClosingKeeps DEF RecoveryInv, RecoveryTyped
<1>5. RecoveryTyped' /\ CallbackInside'
  BY <1>1, <1>2, <1>3, <1>4, ControlKeeps DEF RecoveryInv,
    RecoveryTyped, CallbackInside, ControlPoints
<1>6. TicketHeld'
  BY <1>1, <1>3 DEF RecoveryInv, TicketHeld, InStage, RunningPoints,
    BuildPoints, ActivatePoints
<1>7. GraphPlaced' /\ CandidatePlaced'
  BY <1>1, <1>2, <1>3, <1>4 DEF RecoveryInv, GraphPlaced, CandidatePlaced,
    WatchPoints, ActivatePoints
<1>8. BudgetKept'
  BY <1>1, <1>2, <1>3, ControlKeeps DEF RecoveryInv, BudgetKept,
    BuildPoints, ActivatePoints
<1> QED
  BY <1>1, <1>5, <1>6, <1>7, <1>8, ControlKeeps DEF RecoveryInv

\* activate_epoch enables the packet bridge and starts the capture.
LEMMA ActivateInv ==
  ASSUME RecoveryInv, ControlSteps, Activate \/ StartCapture
  PROVE  RecoveryInv'
<1>1. /\ ctl \in {"activate", "starting"}
      /\ UNCHANGED <<graph, ticket, held, epochState, failedBuilds>>
  BY DEF Activate, StartCapture
<1>2. candidate.alive /\ candidate \in Graphs
  BY <1>1, ShapeOf DEF RecoveryInv, RecoveryTyped, CandidatePlaced,
    ActivatePoints
<1>3. ~graph.alive /\ epochState \in {"running", "ready"}
  BY <1>1 DEF RecoveryInv, GraphPlaced, WatchPoints, TicketHeld, InStage,
    ActivatePoints
<1>4. planarDisabled' \in BOOLEAN
  BY DEF Activate, StartCapture, RecoveryInv, RecoveryTyped
<1>5. \/ /\ ctl' \in {"starting", "activated"}
         /\ \/ candidate' = candidate
            \/ candidate' = [candidate EXCEPT !.enabled = TRUE]
      \/ /\ candidate' = Closing(candidate)
         /\ ctl' = IF epochState = "running" THEN "initial_failed"
                   ELSE "abandon"
  BY DEF Activate, StartCapture, Initial
<1>6. /\ candidate' \in Graphs /\ candidate'.alive
      /\ candidate'.faults = candidate.faults
      /\ candidate'.encoder = candidate.encoder
  BY <1>2, <1>5 DEF Closing, Graphs
<1>7. RecoveryTyped' /\ CallbackInside'
  BY <1>1, <1>4, <1>5, <1>6, ControlKeeps DEF RecoveryInv,
    RecoveryTyped, CallbackInside, ControlPoints
<1>8. TicketHeld'
  BY <1>1, <1>3, <1>5 DEF RecoveryInv, TicketHeld, InStage, RunningPoints,
    BuildPoints, ActivatePoints
<1>9. GraphPlaced' /\ CandidatePlaced'
  BY <1>1, <1>2, <1>3, <1>5, <1>6 DEF RecoveryInv, GraphPlaced,
    CandidatePlaced, WatchPoints, ActivatePoints
<1>10. BudgetKept'
  BY <1>1, <1>3, <1>5, ControlKeeps DEF RecoveryInv, BudgetKept,
    BuildPoints, ActivatePoints
<1> QED
  BY <1>1, <1>7, <1>8, <1>9, <1>10, ControlKeeps DEF RecoveryInv

\* install_graph, for the first graph and for a replacement.
LEMMA InstallInv ==
  ASSUME RecoveryInv, ControlSteps, ctl = "activated",
         \/ InitialActivated /\ ~InitialStopped
         \/ ReplacementActivated
  PROVE  RecoveryInv'
<1>1. /\ graph' = candidate /\ candidate' = NoGraph
      /\ ctl' = "monitor" /\ epochState' = "running"
      /\ UNCHANGED <<ticket, held, planarDisabled>>
      /\ failedBuilds' \in Nat
      /\ epochState \in {"running", "ready"}
  BY DEF InitialActivated, ReplacementActivated, Supervisor!Resume, Initial,
    RecoveryInv, RecoveryTyped
<1>2. /\ candidate.alive /\ candidate \in Graphs
      /\ candidate.faults = {} /\ candidate.encoder = "accepting"
  BY ShapeOf DEF RecoveryInv, RecoveryTyped, CandidatePlaced, ActivatePoints
<1>3. ~NoGraph.alive
  BY NoGraphIs
<1>4. RecoveryTyped' /\ CallbackInside'
  BY <1>1, <1>2, ControlKeeps DEF RecoveryInv, RecoveryTyped,
    CallbackInside, ControlPoints
<1>5. TicketHeld'
  BY <1>1 DEF RecoveryInv, TicketHeld, InStage, RunningPoints, BuildPoints,
    ActivatePoints
<1>6. GraphPlaced' /\ CandidatePlaced'
  BY <1>1, <1>2, <1>3 DEF GraphPlaced, CandidatePlaced, WatchPoints,
    ActivatePoints
<1>7. BudgetKept'
  BY <1>1, <1>2, ControlKeeps DEF RecoveryInv, BudgetKept, BuildPoints,
    ActivatePoints
<1> QED
  BY <1>4, <1>5, <1>6, <1>7, ControlKeeps DEF RecoveryInv

-----------------------------------------------------------------------------
\* A tear-down ends when no worker of its graph is left in the callback.
LEMMA ClosedKeeps ==
  ASSUME RecoveryInv, Closed, candidate' = NoGraph,
         UNCHANGED <<graph, callback>>
  PROVE  /\ CallbackInside'
         /\ candidate' \in Graphs \cup {NoGraph} /\ ~candidate'.alive
BY NoGraphIs DEF RecoveryInv, CallbackInside, Closed

\* The control thread goes on, or ends, after a tear-down that leaves the
\* supervisor alone.
LEMMA TornDownInv ==
  ASSUME RecoveryInv, ControlSteps,
         StartStopped \/ InitialFailed \/ TargetClosed \/ Caught \/ End
  PROVE  RecoveryInv'
<1>1. /\ UNCHANGED <<graph, ticket, held, epochState, planarDisabled>>
      /\ candidate' = NoGraph /\ Closed
      /\ ctl \in {"start_stopped", "initial_failed", "target_closed",
                  "caught", "ending"}
  BY DEF StartStopped, InitialFailed, TargetClosed, Caught, End
<1>2. \/ /\ ctl' \in {"ended", "finish"} /\ failedBuilds' = failedBuilds
         /\ graph.alive => ctl' = "finish"
      \/ /\ ctl = "initial_failed" /\ ctl' = "recover"
         /\ failedBuilds' = 1
  BY <1>1 DEF StartStopped, InitialFailed, TargetClosed, Caught, End,
    RecoveryInv, GraphPlaced, WatchPoints
<1>3. ctl = "initial_failed" => ~graph.alive /\ epochState = "running"
  BY DEF RecoveryInv, GraphPlaced, WatchPoints, TicketHeld, InStage,
    RunningPoints
<1>4. /\ UNCHANGED callback
      /\ CallbackInside' /\ ~candidate'.alive
      /\ candidate' \in Graphs \cup {NoGraph}
  BY <1>1, ControlKeeps, ClosedKeeps
<1>5. RecoveryTyped'
  BY <1>1, <1>2, <1>4, ControlKeeps DEF RecoveryInv, RecoveryTyped,
    ControlPoints
<1>6. TicketHeld'
  BY <1>1, <1>2, <1>3 DEF RecoveryInv, TicketHeld, InStage, RunningPoints,
    BuildPoints, ActivatePoints
<1>7. GraphPlaced' /\ CandidatePlaced'
  BY <1>1, <1>2, <1>3, <1>4 DEF RecoveryInv, GraphPlaced, CandidatePlaced,
    WatchPoints, ActivatePoints
<1>8. BudgetKept'
  BY <1>1, <1>2, <1>3, ControlKeeps DEF RecoveryInv, BudgetKept,
    BuildPoints, ActivatePoints, TicketHeld, InStage, RunningPoints
<1> QED
  BY <1>1, <1>4, <1>5, <1>6, <1>7, <1>8, ControlKeeps DEF RecoveryInv

\* retire() and abandon_build(), with the budget that was checked.
LEMMA RetiredInv ==
  ASSUME RecoveryInv, ControlSteps, Retire \/ AbandonStopped \/ Abandon
  PROVE  RecoveryInv'
<1>1. /\ UNCHANGED <<graph, ticket, held, planarDisabled>>
      /\ candidate' = NoGraph /\ Closed
      /\ ctl \in {"retire", "abandon_stopped", "abandon"}
      /\ epochState' = "retired"
  BY DEF Retire, AbandonStopped, Abandon, AbandonBuild, Supervisor!Retire,
    Supervisor!AbandonBuild
<1>2. \/ /\ ctl' = "recover_failed"
         /\ failedBuilds' \in {failedBuilds, failedBuilds + 1}
      \/ /\ ctl = "retire" /\ ctl' \in {"backoff", "begin"}
         /\ failedBuilds' = failedBuilds /\ ~(failedBuilds > MaxRetry)
      \/ /\ ctl = "abandon" /\ ctl' = "backoff"
         /\ failedBuilds' = failedBuilds + 1 /\ ~(failedBuilds' > MaxRetry)
  BY DEF Retire, AbandonStopped, Abandon, Exhausted
<1>3. /\ ~graph.alive
      /\ ctl = "abandon" => epochState \in {"building", "ready"}
  BY <1>1 DEF RecoveryInv, GraphPlaced, WatchPoints, TicketHeld, InStage
<1>4. /\ UNCHANGED callback
      /\ CallbackInside' /\ ~candidate'.alive
      /\ candidate' \in Graphs \cup {NoGraph}
  BY <1>1, ControlKeeps, ClosedKeeps
<1>5. RecoveryTyped'
  BY <1>1, <1>2, <1>4, ControlKeeps DEF RecoveryInv, RecoveryTyped,
    ControlPoints
<1>6. TicketHeld'
  BY <1>1, <1>2 DEF RecoveryInv, TicketHeld, InStage, RunningPoints,
    BuildPoints, ActivatePoints
<1>7. GraphPlaced' /\ CandidatePlaced'
  BY <1>1, <1>2, <1>3, <1>4 DEF GraphPlaced, CandidatePlaced,
    WatchPoints, ActivatePoints
<1>8. BudgetKept'
  BY <1>1, <1>2, <1>3, ControlKeeps DEF RecoveryInv, BudgetKept,
    BuildPoints, ActivatePoints
<1> QED
  BY <1>1, <1>4, <1>5, <1>6, <1>7, <1>8, ControlKeeps DEF RecoveryInv

\* The tear-down of a graph that is not installed begins.
LEMMA UnbuiltInv ==
  ASSUME RecoveryInv, ControlSteps,
         (InitialActivated /\ InitialStopped) \/ Throw
  PROVE  RecoveryInv'
<1>1. /\ UNCHANGED <<graph, ticket, held, epochState, planarDisabled,
                     failedBuilds>>
      /\ candidate' = Closing(candidate)
      /\ \/ /\ ctl = "activated" /\ epochState = "running"
            /\ ctl' = "start_stopped"
         \/ /\ ctl' = "caught"
            /\ ctl \in {"candidate", "native", "starting", "activated",
                        "begin", "detect", "detect_error", "recover"}
  BY DEF InitialActivated, Throw, Initial
<1>2. /\ candidate' \in Graphs \cup {NoGraph}
      /\ candidate'.alive = candidate.alive
  BY <1>1, ClosingKeeps DEF RecoveryInv, RecoveryTyped
<1>3. RecoveryTyped' /\ CallbackInside'
  BY <1>1, <1>2, ControlKeeps DEF RecoveryInv, RecoveryTyped,
    CallbackInside, ControlPoints
<1>4. TicketHeld'
  BY <1>1 DEF RecoveryInv, TicketHeld, InStage, RunningPoints, BuildPoints,
    ActivatePoints
<1>5. GraphPlaced' /\ CandidatePlaced'
  BY <1>1, <1>2 DEF RecoveryInv, GraphPlaced, CandidatePlaced, WatchPoints,
    ActivatePoints
<1>6. BudgetKept'
  BY <1>1, ControlKeeps DEF RecoveryInv, BudgetKept, BuildPoints,
    ActivatePoints
<1> QED
  BY <1>1, <1>3, <1>4, <1>5, <1>6, ControlKeeps DEF RecoveryInv

\* The tear-down of the installed graph begins.
LEMMA TakenInv ==
  ASSUME RecoveryInv, ControlSteps,
         \/ Quiesce \/ Finish
         \/ DetectCapture /\ ctl' = "target_closed"
  PROVE  RecoveryInv'
<1>1. /\ UNCHANGED <<ticket, held, failedBuilds>>
      /\ candidate' = Closing(graph) /\ graph' = NoGraph
      /\ \/ /\ ctl = "recover" /\ ctl' = "retire"
            /\ epochState' = "quiescing"
         \/ /\ ctl = "finish" /\ ctl' = "ending"
            /\ epochState' = epochState
         \/ /\ ctl = "detect" /\ ctl' = "target_closed"
            /\ epochState' = epochState
  BY DEF Quiesce, Finish, DetectCapture, TakeGraph,
    Supervisor!ReportDeviceLost
<1>2. ~candidate.alive
  BY <1>1 DEF RecoveryInv, CandidatePlaced, ActivatePoints
<1>3. /\ candidate' \in Graphs \cup {NoGraph}
      /\ candidate'.alive = graph.alive
      /\ ~graph'.alive /\ graph' \in Graphs \cup {NoGraph}
  BY <1>1, ClosingKeeps, NoGraphIs DEF RecoveryInv, RecoveryTyped
<1>4. planarDisabled' \in BOOLEAN
  BY DEF Quiesce, Finish, DetectCapture, RecoveryInv, RecoveryTyped
<1>5. RecoveryTyped' /\ CallbackInside'
  BY <1>1, <1>2, <1>3, <1>4, ControlKeeps DEF RecoveryInv, RecoveryTyped,
    CallbackInside, ControlPoints
<1>6. TicketHeld'
  BY <1>1 DEF RecoveryInv, TicketHeld, InStage, RunningPoints, BuildPoints,
    ActivatePoints
<1>7. GraphPlaced' /\ CandidatePlaced'
  BY <1>1, <1>2, <1>3 DEF RecoveryInv, GraphPlaced, CandidatePlaced,
    WatchPoints, ActivatePoints
<1>8. BudgetKept'
  BY <1>1, <1>3, ControlKeeps DEF RecoveryInv, BudgetKept, BuildPoints,
    ActivatePoints
<1> QED
  BY <1>1, <1>5, <1>6, <1>7, <1>8, ControlKeeps DEF RecoveryInv

\* The next epoch opens: one more of the builds the budget allows.
LEMMA BeginBuildInv ==
  ASSUME RecoveryInv, ControlSteps, BeginBuild, ~(ctl' = "recover_failed")
  PROVE  RecoveryInv'
<1>1. /\ ctl = "begin" /\ ctl' = "dimensions"
      /\ epochState' = "building" /\ held' = ticket'
      /\ UNCHANGED <<graph, candidate, planarDisabled, failedBuilds>>
      /\ \E n \in Nonces :
           ticket' = [epoch |-> ticket.epoch + 1, nonce |-> n]
  BY DEF BeginBuild, Supervisor!BeginBuild
<1>2. /\ ticket'.epoch = ticket.epoch + 1
      /\ ticket' \in [epoch : Nat \ {0}, nonce : Nonces]
  BY <1>1 DEF RecoveryInv, RecoveryTyped
<1>3. ~graph.alive /\ ~candidate.alive
  BY <1>1 DEF RecoveryInv, GraphPlaced, CandidatePlaced, WatchPoints,
    ActivatePoints
<1>4. RecoveryTyped' /\ CallbackInside'
  BY <1>1, <1>2, ControlKeeps DEF RecoveryInv, RecoveryTyped,
    CallbackInside, ControlPoints
<1>5. TicketHeld'
  BY <1>1 DEF TicketHeld, InStage, RunningPoints, BuildPoints,
    ActivatePoints
<1>6. GraphPlaced' /\ CandidatePlaced'
  BY <1>1, <1>3 DEF GraphPlaced, CandidatePlaced, WatchPoints,
    ActivatePoints
<1>7. BudgetKept'
  BY <1>1, <1>2, <1>3, ControlKeeps DEF RecoveryInv, BudgetKept,
    BuildPoints, ActivatePoints
<1> QED
  BY <1>1, <1>4, <1>5, <1>6, <1>7, ControlKeeps DEF RecoveryInv

\* The steps that only move the control thread on: recovery waits or is
\* given up, and the running graph is watched.
LEMMA MoveInv ==
  ASSUME RecoveryInv, ControlSteps,
         \/ Backoff \/ RecoverFailed \/ Monitor \/ DetectEncoder
         \/ DetectError
         \/ BeginBuild /\ ctl' = "recover_failed"
         \/ DetectCapture /\ ctl' # "target_closed"
  PROVE  RecoveryInv'
<1>1. /\ UNCHANGED <<graph, candidate, ticket, held, epochState,
                     planarDisabled, failedBuilds>>
      /\ \/ /\ ctl = "backoff" /\ ctl' \in {"recover_failed", "begin"}
         \/ /\ ctl = "begin" /\ ctl' = "recover_failed"
         \/ /\ ctl = "recover_failed" /\ ctl' \in {"finish", "ended"}
         \/ /\ ctl = "monitor" /\ ctl' \in {"finish", "detect"}
         \/ /\ ctl = "detect" /\ ctl' = "detect_encoder"
         \/ /\ ctl = "detect" /\ ctl' = "recover" /\ graph.faults # {}
         \/ /\ ctl = "detect_encoder" /\ ctl' = "monitor"
         \/ /\ ctl = "detect_encoder" /\ ctl' = "detect_error"
            /\ graph.encoder # "accepting"
         \/ /\ ctl = "detect_error" /\ ctl' = "recover"
  BY DEF Backoff, RecoverFailed, Monitor, DetectEncoder, DetectError,
    BeginBuild, DetectCapture, Supervisor!AcknowledgeFramePublished
<1>2. /\ ctl \in WatchPoints => graph.alive /\ ~candidate.alive
      /\ ctl \notin WatchPoints => ~graph.alive /\ ~candidate.alive
  BY <1>1 DEF RecoveryInv, GraphPlaced, CandidatePlaced, WatchPoints,
    ActivatePoints
<1>3. /\ ctl = "detect_error" => graph.faults # {}
      /\ ctl' \in {"detect_error", "recover"} => graph.faults # {}
  BY <1>1, <1>2 DEF RecoveryInv, GraphPlaced, WatchPoints
<1>4. RecoveryTyped' /\ CallbackInside'
  BY <1>1, ControlKeeps DEF RecoveryInv, RecoveryTyped, CallbackInside,
    ControlPoints
<1>5. TicketHeld'
  BY <1>1 DEF RecoveryInv, TicketHeld, InStage, RunningPoints, BuildPoints,
    ActivatePoints
<1>6. GraphPlaced' /\ CandidatePlaced'
  BY <1>1, <1>2, <1>3 DEF RecoveryInv, GraphPlaced, CandidatePlaced,
    WatchPoints, ActivatePoints
<1>7. BudgetKept'
  BY <1>1, <1>2, <1>3, ControlKeeps DEF RecoveryInv, BudgetKept,
    BuildPoints, ActivatePoints, WatchPoints
<1> QED
  BY <1>1, <1>4, <1>5, <1>6, <1>7, ControlKeeps DEF RecoveryInv

LEMMA ControlInv ==
  ASSUME RecoveryInv, SizeKnown \/ Control
  PROVE  RecoveryInv'
<1>1. ControlSteps
  BY DEF SizeKnown, Control
<1>2. InitialActivated \/ ReplacementActivated => ctl = "activated"
  BY DEF InitialActivated, ReplacementActivated
<1>3. CASE DimensionsKnown \/ Build
  BY <1>1, <1>2, <1>3, BuildInv, BuiltInv, ActivateInv, InstallInv,
    UnbuiltInv, TornDownInv DEF Build
<1>4. CASE Recover
  BY <1>1, <1>4, TakenInv, RetiredInv, BeginBuildInv, MoveInv DEF Recover
<1>5. CASE Watch
  BY <1>1, <1>5, TakenInv, TornDownInv, MoveInv DEF Watch
<1>6. CASE Leave
  BY <1>1, <1>6, UnbuiltInv, TornDownInv, TakenInv DEF Leave
<1> QED
  BY <1>3, <1>4, <1>5, <1>6 DEF SizeKnown, Control

LEMMA NextRecoveryInv ==
  ASSUME RecoveryInv, [Next]_vars
  PROVE  RecoveryInv'
<1>1. CASE Next
  BY <1>1, ApiInv, CallbackInv, GraphFailsInv, EncoderStepInv, ControlInv
    DEF Next, StartAgain, StartWaits, StopAgain, StopWaits, CallbackEnds,
        WorkerEnds
<1>2. CASE UNCHANGED vars
  <2>1. NotStarted'
    BY <1>2 DEF vars, RecoveryInv, NotStarted
  <2> QED
    BY <1>2, <2>1, QuietStep DEF vars
<1> QED
  BY <1>1, <1>2

THEOREM RecoveryInvariant == Spec => []RecoveryInv
BY InitRecoveryInv, NextRecoveryInv, PTL DEF Spec

-----------------------------------------------------------------------------
(* The control thread and its supervisor never disagree: at every call the *)
(* control thread holds the current ticket and the supervisor is in the    *)
(* state the call needs, whatever failed, was stopped or was retried       *)
(* before, for every retry budget and any number of faults.                *)
THEOREM NeverRefused == Spec => []SupervisorAgrees
<1>1. RecoveryInv => SupervisorAgrees
  BY DEF RecoveryInv, TicketHeld, InStage, SupervisorAgrees, Awaits,
    RunningPoints, BuildPoints, ActivatePoints
<1> QED
  BY <1>1, RecoveryInvariant, PTL

(* No two graphs of one pipeline are ever alive together, an epoch is      *)
(* retired only when none is, and the packet callback never outlives the   *)
(* graph whose worker runs it.                                             *)
THEOREM OneGraph == Spec => []OneEpochAlive
<1>1. RecoveryInv => OneEpochAlive
  BY DEF RecoveryInv, GraphPlaced, CandidatePlaced, CallbackInside,
    OneEpochAlive
<1> QED
  BY <1>1, RecoveryInvariant, PTL

(* The rebuilds are bounded by the faults: the first graph and every fault *)
(* cost at most max_retry_count + 1 epochs.                                *)
THEOREM BudgetHolds == Spec => []RetryBudget
<1>1. RecoveryInv => RetryBudget
  <2> SUFFICES ASSUME RecoveryInv PROVE RetryBudget
    OBVIOUS
  <2>1. (faultCount + 1) * (MaxRetry + 1) = Allowed + MaxRetry + 1
    BY AllowedStep, RecoveryAssumption DEF RecoveryInv, RecoveryTyped,
      Allowed
  <2> QED
    BY <2>1 DEF RecoveryInv, BudgetKept, RetryBudget
<1> QED
  BY <1>1, RecoveryInvariant, PTL

(* MaxEpoch never bounds anything: whenever the next epoch is to be        *)
(* opened, the supervisor of the model opens it as the code's does.        *)
THEOREM BoundUnreached == Spec => [](ticket.epoch < MaxEpoch)
<1>1. RecoveryInv => ticket.epoch < MaxEpoch
  <2> SUFFICES ASSUME RecoveryInv PROVE ticket.epoch < MaxEpoch
    OBVIOUS
  <2>1. /\ MaxFaults \in Nat /\ MaxRetry \in Nat /\ MaxEpoch \in Nat
        /\ faultCount \in Nat /\ faultCount <= MaxFaults
        /\ ticket.epoch \in Nat
    BY RecoveryAssumption DEF RecoveryInv, RecoveryTyped
  <2>2. Allowed <= MaxFaults * (MaxRetry + 1)
    BY <2>1 DEF Allowed
  <2>3. (MaxFaults + 1) * (MaxRetry + 1)
          = MaxFaults * (MaxRetry + 1) + MaxRetry + 1
    BY <2>1, AllowedStep
  <2>4. /\ Allowed \in Nat /\ MaxFaults * (MaxRetry + 1) \in Nat
        /\ (MaxFaults + 1) * (MaxRetry + 1) \in Nat
    BY <2>1, AllowedStep DEF Allowed
  <2> QED
    BY <2>1, <2>2, <2>3, <2>4, RecoveryAssumption DEF RecoveryInv,
      BudgetKept
<1> QED
  BY <1>1, RecoveryInvariant, PTL
=============================================================================
