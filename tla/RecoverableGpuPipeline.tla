----------------------- MODULE RecoverableGpuPipeline -----------------------
(***************************************************************************)
(* The control thread of src/gpu/recoverable_gpu_pipeline.cpp, composed    *)
(* with the epoch supervisor it drives.  start() makes the thread, which   *)
(* builds an epoch graph (device, bus, consumer, pipeline, capture),       *)
(* activates it, watches it for faults and, after one, tears it down and   *)
(* builds its successor under a retry budget.  stop() may come from any    *)
(* thread at any time, and from inside the packet callback, which the      *)
(* graph's encoder worker runs.                                            *)
(*                                                                         *)
(* A step of the control thread ends where another thread can come in      *)
(* between with effect: at a read of stop_requested_, at the start and the *)
(* end of a graph's tear-down, and between the reads of detect_fault.      *)
(* The supervisor's calls are the actions of PipelineEpochSupervisor; no   *)
(* participant registers with this supervisor.  The branches the code has  *)
(* for calls the supervisor refuses are left out: SupervisorAgrees says    *)
(* that none is taken.                                                     *)
(***************************************************************************)
EXTENDS Integers, FiniteSets

CONSTANTS
    Stoppers,     \* threads other than the packet callback that call stop()
    BusModes,     \* values config_.bus_mode may have
    MaxRetry,     \* config_.retry.max_retry_count
    Nonces,       \* nonces the supervisor draws
    FirstNonce,   \* the one its constructor drew
    MaxFaults,    \* bound: faults that befall running graphs
    MaxEpoch      \* bound: never reached, by RecoveryAssumption

ASSUME RecoveryAssumption ==
    /\ BusModes \subseteq
           {"automatic", "capture_native", "planar_encoder_input"}
    /\ MaxRetry \in Nat /\ MaxFaults \in Nat
    /\ Nonces \subseteq Nat \ {0} /\ FirstNonce \in Nonces
    /\ \A n \in Nonces : Nonces \ {n} # {}
    /\ MaxEpoch \in Nat /\ MaxEpoch > (MaxFaults + 1) * (MaxRetry + 1)

VARIABLES
    \* Shared between the threads.
    lifecycle,          \* who holds lifecycle_mutex_
    stopRequested,      \* stop_requested_
    state, lastError,   \* state_ and last_error_
    startComplete, startResult,
    thread,             \* control_thread_: "none", "joinable", "joined"
    graph,              \* graph_
    planarDisabled,     \* automatic_planar_disabled_
    \* The threads.
    starter,            \* the thread in start()
    stopper,            \* the threads in stop()
    callback,           \* the encoder worker inside the packet callback
    ctl,                \* the control thread
    \* Locals of the control thread.
    held,               \* the ticket it works under
    candidate,          \* the graph under construction or tear-down
    result,             \* built
    fallback,           \* planar_fallback_selected
    fault,              \* the fault recover_from_fault works on
    failedBuilds,       \* failed_builds
    \* The supervisor.
    epochState, ticket, firstFramePending, tickets,
    \* The configuration, fixed by create, and the graphs' faults so far.
    busMode, faultCount

envVars == <<busMode, faultCount>>
apiVars == <<lifecycle, thread, starter, stopper>>
stateVars == <<state, lastError>>
startVars == <<startComplete, startResult>>
graphVars == <<graph, candidate>>
buildVars == <<result, fallback, planarDisabled>>
retryVars == <<fault, failedBuilds>>
supervisorVars == <<epochState, ticket, firstFramePending, tickets>>
vars == <<apiVars, stopRequested, stateVars, startVars, graphVars, callback,
          ctl, held, buildVars, retryVars, supervisorVars, envVars>>

Supervisor == INSTANCE PipelineEpochSupervisor WITH
    Participants <- {}, Capacity <- 0, MaxRegistration <- 0,
    PublishesFrames <- FALSE,
    state <- epochState, participants <- {}, nextRegistration <- 1,
    issued <- {}, working <- {}, sent <- {}, failed <- {},
    contracts <- {}, published <- {}

-----------------------------------------------------------------------------
(* Values.                                                                 *)

NoGraph == [alive |-> FALSE]

\* What may befall a running graph.  "resized" also stands for a lost
\* duplication access: the epoch is rebuilt, nothing is blamed on its bus.
Causes == {"resized", "device", "closed", "capture", "memory", "encoder"}
EncoderCauses == {"device", "memory", "encoder"}

\* encoder: the pipeline's worker is at work, has stored accepting_ = false,
\* or has published its error as well.
Graphs == [alive : {TRUE}, planar : BOOLEAN, enabled : BOOLEAN,
           faults : SUBSET Causes,
           encoder : {"accepting", "rejecting", "finished"}]

NewGraph(planar) ==
    [alive |-> TRUE, planar |-> planar, enabled |-> FALSE, faults |-> {},
     encoder |-> "accepting"]

\* A failed build or activation.  "device_lost" stands for every failure
\* whose HRESULT is one of infrastructure_failure_hresult's, and for
\* out_of_memory and system_error; "invalid_argument" also for target_closed.
BuildErrors == {"unsupported", "build_failed", "device_lost",
                "invalid_argument"}
Results == BuildErrors \cup {"ok", "invalid_state", "system_error",
                             "retry_exhausted", "target_closed"}

\* automatic_planar_fallback_error
PlanarFallbackError(e) == e \in {"unsupported", "build_failed"}

\* retryable_initial_build_error
Retryable(e) == e \in {"build_failed", "device_lost", "system_error"}

Faults == [device : BOOLEAN, planar : BOOLEAN]
NoFault == [device |-> FALSE, planar |-> FALSE]

States == {"stopped", "starting", "running", "quiescing", "retired",
           "building", "ready", "stopping", "failed"}

ControlPoints ==
    {"none", "init", "dimensions", "candidate", "native", "built",
     "activate", "starting", "activated", "start_stopped",
     "initial_failed", "recover", "retire", "backoff", "begin",
     "abandon_stopped", "abandon", "recover_failed", "monitor", "detect",
     "detect_encoder", "detect_error", "target_closed", "caught", "finish",
     "ending", "ended"}

-----------------------------------------------------------------------------
(* start() and stop().                                                     *)

\* A second start() is refused before it changes anything.
StartLock ==
    /\ starter = "idle" /\ lifecycle = "free"
    /\ starter' = "locked" /\ lifecycle' = "starter"
    /\ stopRequested' = FALSE
    /\ UNCHANGED <<thread, stopper, stateVars, startVars, ctl>>

StartThread ==
    /\ starter = "locked"
    /\ lifecycle' = "free"
    /\ \/ /\ starter' = "waiting"
          /\ thread' = "joinable" /\ ctl' = "init"
          /\ state' = "starting" /\ lastError' = "ok"
          /\ startComplete' = FALSE /\ startResult' = "ok"
       \/ /\ starter' = "returned"       \* the thread cannot be created
          /\ UNCHANGED <<thread, ctl>>
          /\ state' = "failed" /\ lastError' = "system_error"
          /\ startComplete' = TRUE /\ startResult' = "system_error"
    /\ UNCHANGED <<stopper, stopRequested>>

StartWake ==
    /\ starter = "waiting" /\ startComplete
    /\ starter' = IF startResult = "ok" THEN "returned" ELSE "join"
    /\ UNCHANGED <<lifecycle, thread, stopper, stopRequested, stateVars,
                   startVars, ctl>>

StartJoinLock ==
    /\ starter = "join" /\ lifecycle = "free"
    /\ starter' = "joining" /\ lifecycle' = "starter"
    /\ UNCHANGED <<thread, stopper, stopRequested, stateVars, startVars,
                   ctl>>

\* join_control_thread: the thread is joined at most once.
Joined == thread = "joinable" => ctl = "ended"
Reaped == IF thread = "joinable" THEN "joined" ELSE thread

StartJoin ==
    /\ starter = "joining" /\ Joined
    /\ starter' = "returned" /\ lifecycle' = "free"
    /\ thread' = Reaped
    /\ UNCHANGED <<stopper, stopRequested, stateVars, startVars, ctl>>

StopRequest(s) ==
    /\ stopper[s] = "idle"
    /\ stopper' = [stopper EXCEPT ![s] = "requested"]
    /\ stopRequested' = TRUE
    /\ UNCHANGED <<lifecycle, thread, starter, stateVars, startVars, ctl>>

\* stop() leaves a terminal state alone.
Stopping == IF state \in {"stopped", "failed"} THEN state ELSE "stopping"

StopState(s) ==
    /\ stopper[s] = "requested"
    /\ stopper' = [stopper EXCEPT ![s] = "join"]
    /\ state' = Stopping
    /\ UNCHANGED <<lifecycle, thread, starter, stopRequested, lastError,
                   startVars, ctl>>

StopJoinLock(s) ==
    /\ stopper[s] = "join" /\ lifecycle = "free"
    /\ stopper' = [stopper EXCEPT ![s] = "joining"]
    /\ lifecycle' = s
    /\ UNCHANGED <<thread, starter, stopRequested, stateVars, startVars,
                   ctl>>

StopJoin(s) ==
    /\ stopper[s] = "joining" /\ Joined
    /\ stopper' = [stopper EXCEPT ![s] = "returned"]
    /\ lifecycle' = "free" /\ thread' = Reaped
    /\ state' = "stopped"
    /\ UNCHANGED <<starter, stopRequested, lastError, startVars, ctl>>

-----------------------------------------------------------------------------
(* The packet callback, on the worker of a graph whose bridge is enabled.  *)

Enabled(g) == g.alive /\ g.enabled

CallbackEnter ==
    /\ callback = "out" /\ (Enabled(graph) \/ Enabled(candidate))
    /\ callback' = "in"
    /\ UNCHANGED <<stopRequested, stateVars, graphVars, envVars>>

CallbackStop ==
    /\ callback = "in" /\ callback' = "requested"
    /\ stopRequested' = TRUE
    /\ UNCHANGED <<stateVars, graphVars, envVars>>

\* Mutant of CallbackReturn: a stop in the callback joins the control thread.
CallbackReturnJoining ==
    /\ \/ callback = "in" /\ UNCHANGED state
       \/ callback = "requested" /\ ctl = "ended" /\ state' = Stopping
    /\ callback' = "out"
    /\ UNCHANGED <<stopRequested, lastError, graphVars, envVars>>

\* The callback returns; after stop() without joining, active_callback_owner_
\* being this object.
CallbackReturn ==
    /\ \/ callback = "in" /\ UNCHANGED state
       \/ callback = "requested" /\ state' = Stopping
    /\ callback' = "out"
    /\ UNCHANGED <<stopRequested, lastError, graphVars, envVars>>

-----------------------------------------------------------------------------
(* The running graph.                                                      *)

GraphFails(cause) ==
    /\ graph.alive /\ cause \notin graph.faults /\ faultCount < MaxFaults
    /\ graph' = [graph EXCEPT !.faults = @ \cup {cause}]
    /\ faultCount' = faultCount + 1
    /\ UNCHANGED <<stopRequested, stateVars, candidate, callback, busMode>>

\* finish_worker of the pipeline stores accepting_ = false first and
\* last_error_ under another mutex afterwards.
EncoderStep ==
    /\ graph.alive /\ graph.faults \cap EncoderCauses # {}
    /\ \/ /\ graph.encoder = "accepting"
          /\ graph' = [graph EXCEPT !.encoder = "rejecting"]
       \/ /\ graph.encoder = "rejecting"
          /\ graph' = [graph EXCEPT !.encoder = "finished"]
    /\ UNCHANGED <<stopRequested, stateVars, candidate, callback, envVars>>

-----------------------------------------------------------------------------
(* The control thread: building an epoch.                                  *)

PublishStart(r, s) ==
    /\ startComplete' = TRUE /\ startResult' = r
    /\ state' = s /\ lastError' = r

\* teardown() disables the packet bridge, stops the capture and then waits,
\* in pipeline.close(), for the worker: Closing begins it, Closed ends it.
Closing(g) == IF g.alive THEN [g EXCEPT !.enabled = FALSE] ELSE g

\* take_graph and the beginning of its tear-down.
TakeGraph == candidate' = Closing(graph) /\ graph' = NoGraph

\* Mutant of Closed: the tear-down does not wait for the worker.
ClosedAtOnce == TRUE
Closed == candidate.alive => callback = "out"

\* The first epoch is built while the supervisor's constructor state,
\* running, still stands.
Initial == epochState = "running"

ControlInit ==
    /\ ctl = "init"
    /\ \/ /\ ctl' = "ended"              \* RoInitialize fails
          /\ PublishStart("system_error", "failed")
          /\ UNCHANGED held
       \/ /\ ctl' = "dimensions"
          /\ held' = ticket
          /\ state' = "building"
          /\ UNCHANGED <<lastError, startVars>>
    /\ UNCHANGED <<graphVars, buildVars, fault, failedBuilds,
                   supervisorVars>>

\* The size of the source is known, or its query fails for good.
DimensionsKnown ==
    /\ ctl = "dimensions"
    /\ fallback' = FALSE
    /\ \/ ctl' = "candidate" /\ UNCHANGED result
       \/ \E e \in BuildErrors : result' = e /\ ctl' = "built"
    /\ UNCHANGED <<stateVars, startVars, graphVars, held, planarDisabled,
                   retryVars, supervisorVars>>

\* Until then build_epoch polls, without retry debt, until it is stopped.
DimensionsStopped ==
    /\ ctl = "dimensions" /\ stopRequested
    /\ fallback' = FALSE /\ result' = "invalid_state"
    /\ ctl' = "built"
    /\ UNCHANGED <<stateVars, startVars, graphVars, held, planarDisabled,
                   retryVars, supervisorVars>>

Planar(eligible) ==
    CASE busMode = "automatic" -> eligible /\ ~planarDisabled
      [] busMode = "capture_native" -> FALSE
      [] busMode = "planar_encoder_input" -> TRUE

\* build_epoch_candidate stops at its first failing stage.  In automatic mode
\* every failure of a planar graph after the device's creation may fall back
\* to a native graph at once, in the same epoch.
BuildCandidate(eligible) ==
    /\ ctl = "candidate"
    /\ \/ /\ busMode = "planar_encoder_input" => eligible
          /\ candidate' = NewGraph(Planar(eligible))
          /\ result' = "ok" /\ ctl' = "built"
          /\ UNCHANGED planarDisabled
       \/ /\ busMode = "planar_encoder_input" /\ ~eligible
          /\ result' = "build_failed" /\ ctl' = "built"
          /\ UNCHANGED <<candidate, planarDisabled>>
       \/ \E e \in BuildErrors, deviceCreated \in BOOLEAN :
             /\ busMode = "planar_encoder_input" => eligible
             /\ UNCHANGED candidate
             /\ result' = e
             /\ IF /\ Planar(eligible) /\ busMode = "automatic"
                   /\ deviceCreated /\ ~stopRequested
                   /\ PlanarFallbackError(e)
                THEN planarDisabled' = TRUE /\ ctl' = "native"
                ELSE UNCHANGED planarDisabled /\ ctl' = "built"
    /\ UNCHANGED <<stateVars, startVars, graph, held, fallback, retryVars,
                   supervisorVars>>

BuildNative ==
    /\ ctl = "native"
    /\ ctl' = "built"
    /\ \/ candidate' = NewGraph(FALSE) /\ result' = "ok"
       \/ \E e \in BuildErrors : result' = e /\ UNCHANGED candidate
    /\ UNCHANGED <<stateVars, startVars, graph, held, fallback,
                   planarDisabled, retryVars, supervisorVars>>

\* control_main and recover_from_fault after build_epoch.  A stop skips the
\* activation of the first graph; a replacement is given up.
InitialBuilt ==
    /\ ctl = "built" /\ Initial
    /\ ctl' = IF result # "ok" THEN "initial_failed"
              ELSE IF stopRequested THEN "activated" ELSE "activate"
    /\ UNCHANGED <<stateVars, startVars, graphVars, held, buildVars,
                   retryVars, supervisorVars>>

ReplacementBuilt ==
    /\ ctl = "built" /\ ~Initial
    /\ \/ /\ stopRequested
          /\ candidate' = Closing(candidate)
          /\ ctl' = "abandon_stopped"
          /\ UNCHANGED <<state, supervisorVars>>
       \/ /\ ~stopRequested /\ result = "ok"
          /\ Supervisor!MarkReady(held)
          /\ state' = "ready" /\ ctl' = "activate"
          /\ UNCHANGED candidate
       \/ /\ ~stopRequested /\ result # "ok"
          /\ ctl' = "abandon"
          /\ UNCHANGED <<state, candidate, supervisorVars>>
    /\ UNCHANGED <<lastError, startVars, graph, held, buildVars, retryVars>>

\* activate_epoch enables the packet bridge before it starts the capture.
Activate ==
    /\ ctl = "activate"
    /\ candidate' = [candidate EXCEPT !.enabled = TRUE]
    /\ ctl' = "starting"
    /\ UNCHANGED <<stateVars, startVars, graph, held, buildVars, retryVars,
                   supervisorVars>>

StartCapture ==
    /\ ctl = "starting"
    /\ \/ ctl' = "activated" /\ UNCHANGED <<candidate, buildVars>>
       \/ \E e \in BuildErrors :
             LET blamed == /\ candidate.planar /\ busMode = "automatic"
                           /\ PlanarFallbackError(e)
             IN  /\ result' = e
                 /\ candidate' = Closing(candidate)
                 /\ fallback' = blamed
                 /\ planarDisabled' = (planarDisabled \/ blamed)
                 /\ ctl' = IF Initial THEN "initial_failed" ELSE "abandon"
    /\ UNCHANGED <<stateVars, startVars, graph, held, retryVars,
                   supervisorVars>>

\* The second read of stop_requested_ before the first graph is installed.
InitialStopped == stopRequested

InitialActivated ==
    /\ ctl = "activated" /\ Initial
    /\ IF InitialStopped
       THEN /\ candidate' = Closing(candidate)
            /\ ctl' = "start_stopped"
            /\ UNCHANGED <<graph, stateVars, startVars>>
       ELSE /\ graph' = candidate /\ candidate' = NoGraph
            /\ PublishStart("ok", "running")
            /\ ctl' = "monitor"
    /\ UNCHANGED <<held, buildVars, fault, failedBuilds, supervisorVars>>

StartStopped ==
    /\ ctl = "start_stopped" /\ Closed
    /\ candidate' = NoGraph
    /\ PublishStart("invalid_state", "stopped")
    /\ ctl' = "ended"
    /\ UNCHANGED <<graph, held, buildVars, retryVars, supervisorVars>>

\* A first build that failed counts as one failed build.
InitialFailed ==
    /\ ctl = "initial_failed" /\ Closed
    /\ candidate' = NoGraph
    /\ \/ /\ stopRequested
          /\ PublishStart("invalid_state", "stopped")
          /\ ctl' = "ended" /\ UNCHANGED <<fault, failedBuilds>>
       \/ /\ ~stopRequested /\ ~fallback /\ ~Retryable(result)
          /\ PublishStart(result, "failed")
          /\ ctl' = "ended" /\ UNCHANGED <<fault, failedBuilds>>
       \/ /\ ~stopRequested /\ (fallback \/ Retryable(result))
          /\ fault' = [device |-> result = "device_lost", planar |-> FALSE]
          /\ failedBuilds' = 1
          /\ ctl' = "recover"
          /\ UNCHANGED <<stateVars, startVars>>
    /\ UNCHANGED <<graph, held, buildVars, supervisorVars>>

-----------------------------------------------------------------------------
(* The control thread: recover_from_fault.                                 *)

\* disable_automatic_planar, set_state(quiescing), report_device_lost and
\* the first half of teardown_active_graph.
Quiesce ==
    /\ ctl = "recover"
    /\ planarDisabled' =
           (planarDisabled \/ (fault.planar /\ busMode = "automatic"))
    /\ state' = "quiescing"
    /\ lastError' = IF fault.device THEN "device_lost" ELSE "build_failed"
    /\ Supervisor!ReportDeviceLost(held)
    /\ TakeGraph
    /\ ctl' = "retire"
    /\ UNCHANGED <<startVars, held, result, fallback, retryVars>>

\* Mutant of the next: one build too many.
ExhaustedLate(n) == n > MaxRetry + 1

Exhausted(n) == n > MaxRetry

Retire ==
    /\ ctl = "retire" /\ Closed
    /\ candidate' = NoGraph
    /\ Supervisor!Retire(held)
    /\ IF Exhausted(failedBuilds)
       THEN /\ state' = "failed" /\ lastError' = "retry_exhausted"
            /\ ctl' = "recover_failed"
       ELSE /\ state' = "retired" /\ UNCHANGED lastError
            /\ ctl' = IF failedBuilds > 0 THEN "backoff" ELSE "begin"
    /\ UNCHANGED <<startVars, graph, held, buildVars, retryVars>>

\* wait_or_stop(retry_delay(failed_builds)): the delay passes or stop wakes it.
Backoff ==
    /\ ctl = "backoff"
    /\ ctl' = IF stopRequested THEN "recover_failed" ELSE "begin"
    /\ UNCHANGED <<stateVars, startVars, graphVars, held, buildVars,
                   retryVars, supervisorVars>>

BeginBuild ==
    /\ ctl = "begin"
    /\ \/ /\ stopRequested
          /\ ctl' = "recover_failed"
          /\ UNCHANGED <<state, held, supervisorVars>>
       \/ /\ ~stopRequested
          /\ Supervisor!BeginBuild(held)
          /\ held' = ticket'
          /\ state' = "building" /\ ctl' = "dimensions"
    /\ UNCHANGED <<lastError, startVars, graphVars, buildVars, fault,
                   failedBuilds>>

\* resume, install_graph and, for a first graph, publish_start.
ReplacementActivated ==
    /\ ctl = "activated" /\ ~Initial
    /\ Supervisor!Resume(held)
    /\ graph' = candidate /\ candidate' = NoGraph
    /\ PublishStart("ok", "running")
    /\ failedBuilds' = 0 /\ ctl' = "monitor"
    /\ UNCHANGED <<held, buildVars, fault>>

\* Mutant of AbandonBuild: the supervisor is not told.
AbandonBuildForgotten == UNCHANGED supervisorVars
AbandonBuild == Supervisor!AbandonBuild(held)

AbandonStopped ==
    /\ ctl = "abandon_stopped" /\ Closed
    /\ candidate' = NoGraph
    /\ AbandonBuild
    /\ ctl' = "recover_failed"
    /\ UNCHANGED <<stateVars, startVars, graph, held, buildVars, retryVars>>

Abandon ==
    /\ ctl = "abandon" /\ Closed
    /\ candidate' = NoGraph
    /\ AbandonBuild
    /\ failedBuilds' = failedBuilds + 1
    /\ \/ /\ ~fallback /\ ~Retryable(result)
          /\ state' = "failed" /\ lastError' = result
          /\ ctl' = "recover_failed"
       \/ /\ fallback \/ Retryable(result)
          /\ IF Exhausted(failedBuilds')
             THEN /\ state' = "failed" /\ lastError' = "retry_exhausted"
                  /\ ctl' = "recover_failed"
             ELSE /\ state' = "retired" /\ lastError' = result
                  /\ ctl' = "backoff"
    /\ UNCHANGED <<startVars, graph, held, buildVars, fault>>

\* recover_from_fault returned false to the start-up code or to the loop.
RecoverFailed ==
    /\ ctl = "recover_failed"
    /\ IF startComplete
       THEN ctl' = "finish" /\ UNCHANGED <<stateVars, startVars>>
       ELSE /\ ctl' = "ended"
            /\ IF stopRequested
               THEN PublishStart("invalid_state", "stopped")
               ELSE PublishStart(lastError, "failed")
    /\ UNCHANGED <<graphVars, held, buildVars, retryVars, supervisorVars>>

-----------------------------------------------------------------------------
(* The control thread: watching the graph.                                 *)

\* wait_or_stop, then acknowledge_first_recovered_frame.
Monitor ==
    /\ ctl = "monitor"
    /\ \/ stopRequested /\ ctl' = "finish" /\ UNCHANGED supervisorVars
       \/ /\ ~stopRequested /\ ctl' = "detect"
          /\ \/ UNCHANGED supervisorVars
             \/ /\ firstFramePending
                /\ Supervisor!AcknowledgeFramePublished(held)
    /\ UNCHANGED <<stateVars, startVars, graphVars, held, buildVars,
                   retryVars>>

\* detect_fault up to the capture's state, in the order of its checks.  A
\* failed capture speaks against the planar bus only with some errors.
DetectCapture ==
    /\ ctl = "detect"
    /\ IF "resized" \in graph.faults
       THEN fault' = NoFault /\ ctl' = "recover"
       ELSE IF "device" \in graph.faults
       THEN fault' = [NoFault EXCEPT !.device = TRUE] /\ ctl' = "recover"
       ELSE IF "closed" \in graph.faults
       THEN UNCHANGED fault /\ ctl' = "target_closed"
       ELSE IF "capture" \in graph.faults
       THEN /\ \E planar \in {FALSE, graph.planar} :
                    fault' = [NoFault EXCEPT !.planar = planar]
            /\ ctl' = "recover"
       ELSE UNCHANGED fault /\ ctl' = "detect_encoder"
    /\ lastError' = IF ctl' = "target_closed" THEN "target_closed"
                    ELSE lastError
    /\ IF ctl' = "target_closed"
       THEN TakeGraph
       ELSE UNCHANGED graphVars
    /\ UNCHANGED <<state, startVars, held, buildVars, failedBuilds,
                   supervisorVars>>

\* Mutant of DetectEncoder: accepting() is not looked at.
DetectEncoderUnread ==
    /\ ctl = "detect_encoder"
    /\ ctl' = "monitor"
    /\ UNCHANGED <<stateVars, startVars, graphVars, held, buildVars,
                   retryVars, supervisorVars>>

DetectEncoder ==
    /\ ctl = "detect_encoder"
    /\ ctl' = IF graph.encoder = "accepting" THEN "monitor"
              ELSE "detect_error"
    /\ UNCHANGED <<stateVars, startVars, graphVars, held, buildVars,
                   retryVars, supervisorVars>>

\* last_error() is still ok while the worker has not published its error; ok
\* is no infrastructure failure.
DetectError ==
    /\ ctl = "detect_error"
    /\ fault' =
          IF graph.encoder = "finished" /\ "device" \in graph.faults
          THEN [device |-> TRUE, planar |-> FALSE]
          ELSE [device |-> FALSE,
                planar |-> graph.planar
                    /\ (graph.encoder = "finished"
                            => "memory" \notin graph.faults)]
    /\ ctl' = "recover"
    /\ UNCHANGED <<stateVars, startVars, graphVars, held, buildVars,
                   failedBuilds, supervisorVars>>

TargetClosed ==
    /\ ctl = "target_closed" /\ Closed
    /\ candidate' = NoGraph
    /\ state' = "failed" /\ ctl' = "finish"
    /\ UNCHANGED <<lastError, startVars, graph, held, buildVars, retryVars,
                   supervisorVars>>

-----------------------------------------------------------------------------
(* The control thread: its end.                                            *)

\* An allocation fails while a graph is built, activated, examined or given
\* up; the unwinding destroys the graph that is not installed yet.
Throw ==
    /\ ctl \in {"candidate", "native", "starting", "activated", "begin",
                "detect", "detect_error", "recover"}
    /\ candidate' = Closing(candidate)
    /\ ctl' = "caught"
    /\ UNCHANGED <<stateVars, startVars, graph, held, buildVars, retryVars,
                   supervisorVars>>

\* publish_control_failure also answers a waiting start().
ControlFailure ==
    IF startComplete
    THEN /\ state' = "failed" /\ lastError' = "system_error"
         /\ UNCHANGED startVars
    ELSE PublishStart("system_error", "failed")

Caught ==
    /\ ctl = "caught" /\ Closed
    /\ candidate' = NoGraph
    /\ ControlFailure
    /\ ctl' = "finish"
    /\ UNCHANGED <<graph, held, buildVars, retryVars, supervisorVars>>

Finish ==
    /\ ctl = "finish"
    /\ TakeGraph
    /\ ctl' = "ending"
    /\ UNCHANGED <<stateVars, startVars, held, buildVars, retryVars,
                   supervisorVars>>

End ==
    /\ ctl = "ending" /\ Closed
    /\ candidate' = NoGraph
    /\ state' = IF stopRequested THEN "stopped" ELSE state
    /\ ctl' = "ended"
    /\ UNCHANGED <<lastError, startVars, graph, held, buildVars, retryVars,
                   supervisorVars>>

-----------------------------------------------------------------------------
Init ==
    /\ lifecycle = "free" /\ thread = "none"
    /\ starter = "idle" /\ stopper = [s \in Stoppers |-> "idle"]
    /\ stopRequested = FALSE
    /\ state = "stopped" /\ lastError = "ok"
    /\ startComplete = FALSE /\ startResult = "ok"
    /\ graph = NoGraph /\ candidate = NoGraph
    /\ callback = "out" /\ ctl = "none"
    /\ result = "ok" /\ fallback = FALSE /\ planarDisabled = FALSE
    /\ fault = NoFault /\ failedBuilds = 0
    /\ epochState = "running" /\ firstFramePending = FALSE
    /\ ticket = [epoch |-> 1, nonce |-> FirstNonce]
    /\ held = ticket /\ tickets = {ticket}
    /\ busMode \in BusModes /\ faultCount = 0

(* What the steps of start() and stop(), of the graph's own threads, and   *)
(* of the control thread each leave to the others.                         *)
ApiSteps == UNCHANGED <<graphVars, callback, held, buildVars, retryVars,
                        supervisorVars, envVars>>
GraphSteps == UNCHANGED <<apiVars, startVars, ctl, held, buildVars,
                          retryVars, supervisorVars>>
ControlSteps == UNCHANGED <<apiVars, stopRequested, callback, envVars>>

StartAgain == (StartThread \/ StartWake \/ StartJoin) /\ ApiSteps
StartWaits == StartJoinLock /\ ApiSteps
StopAgain(s) == (StopState(s) \/ StopJoin(s)) /\ ApiSteps
StopWaits(s) == StopJoinLock(s) /\ ApiSteps

Build ==
    \/ ControlInit
    \/ DimensionsStopped
    \/ \E eligible \in BOOLEAN : BuildCandidate(eligible)
    \/ BuildNative
    \/ InitialBuilt \/ ReplacementBuilt
    \/ Activate \/ StartCapture
    \/ InitialActivated \/ ReplacementActivated
    \/ StartStopped \/ InitialFailed

Recover ==
    \/ Quiesce \/ Retire \/ Backoff \/ BeginBuild
    \/ AbandonStopped \/ Abandon \/ RecoverFailed

Watch ==
    \/ Monitor \/ DetectCapture \/ DetectEncoder \/ DetectError
    \/ TargetClosed

Leave == Throw \/ Caught \/ Finish \/ End

Control == (Build \/ Recover \/ Watch \/ Leave) /\ ControlSteps

SizeKnown == DimensionsKnown /\ ControlSteps

CallbackEnds == CallbackReturn /\ GraphSteps

WorkerEnds == EncoderStep /\ GraphSteps

Next ==
    \/ StartLock /\ ApiSteps
    \/ StartAgain \/ StartWaits
    \/ \E s \in Stoppers :
          (StopRequest(s) /\ ApiSteps) \/ StopAgain(s) \/ StopWaits(s)
    \/ (CallbackEnter \/ CallbackStop) /\ GraphSteps
    \/ CallbackEnds \/ WorkerEnds
    \/ \E cause \in Causes : GraphFails(cause) /\ GraphSteps
    \/ SizeKnown \/ Control

Spec == Init /\ [][Next]_vars

(* Every thread keeps running and lifecycle_mutex_ is handed on (a thread  *)
(* waiting for it is not starved for ever); packet callbacks return; a     *)
(* failing pipeline worker runs to its end.  Nobody has to call start() or *)
(* stop(), no fault has to happen, and the source may stay without a size: *)
(* SizeKnown is not fair.                                                  *)
Fairness ==
    /\ WF_vars(Control) /\ WF_vars(CallbackEnds) /\ WF_vars(WorkerEnds)
    /\ WF_vars(StartAgain) /\ SF_vars(StartWaits)
    /\ \A s \in Stoppers : WF_vars(StopAgain(s)) /\ SF_vars(StopWaits(s))

FairSpec == Spec /\ Fairness

-----------------------------------------------------------------------------
(* Properties.                                                             *)

Awaits(s) ==
    CASE s \in {"recover", "monitor", "detect", "detect_encoder",
                "detect_error"} -> {"running"}
      [] s = "retire" -> {"quiescing"}
      [] s \in {"backoff", "begin"} -> {"retired"}
      [] s = "abandon" -> {"building", "ready"}
      [] s = "abandon_stopped" -> {"building"}
      [] s = "starting" -> {"running", "ready"}
      [] OTHER -> {"running", "quiescing", "retired", "building", "ready"}

(* The supervisor never refuses a call of the control thread: whatever     *)
(* failed, was stopped or was retried before, the control thread holds the *)
(* current ticket and the supervisor is in the state the next call needs,  *)
(* so the branches of recover_from_fault for a refused report, retire,     *)
(* begin_build, mark_ready, resume or abandon are never taken.             *)
SupervisorAgrees ==
    /\ held = ticket
    /\ epochState \in Awaits(ctl)

(* Every recovery works with one graph: while a replacement is built or an *)
(* old graph is torn down none is installed, and an epoch is retired only  *)
(* when no worker of its graph is left in a packet callback                *)
(* (teardown_active_graph before retire, EpochGraph::teardown).            *)
OneEpochAlive ==
    /\ candidate.alive => ~graph.alive
    /\ callback # "out" => graph.alive \/ candidate.alive
    /\ epochState = "retired" => ~graph.alive /\ ~candidate.alive

(* The rebuilds are bounded by the faults: however builds, activations and *)
(* tear-downs fail, the first graph and every fault of a running one cost  *)
(* at most max_retry_count + 1 epochs, and a graph that ran gives the      *)
(* budget back (recover_from_fault).                                      *)
RetryBudget == ticket.epoch <= (faultCount + 1) * (MaxRetry + 1)

(* Once start() made the control thread, a stop ends it and its graph,     *)
(* wherever the thread is: waiting for a source size, building, backing    *)
(* off, recovering, or waiting for the very callback that called stop().   *)
StopEndsControl == (stopRequested /\ thread = "joinable") ~> ctl = "ended"

(* A graph that fails is replaced by a sound one or the pipeline ends,     *)
(* provided the source's size becomes known.                               *)
FaultHandled ==
    WF_vars(SizeKnown) =>
        ((graph.alive /\ graph.faults # {})
            ~> (ctl = "ended" \/ (graph.alive /\ graph.faults = {})))

=============================================================================
