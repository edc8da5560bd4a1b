--------------------------- MODULE MonitorBackends ---------------------------
(***************************************************************************)
(* The three captures of monitors side by side: each behaviour is one of   *)
(* them (options.backend), from its creation to the end of stop(), on one  *)
(* desktop and with one bus.                                               *)
(***************************************************************************)
EXTENDS DesktopDuplicationCapture, DesktopDuplicationController, GdiCapture

backendVars == <<outputVars, controllerVars, blitted>>
allVars == <<captureVars, backendVars>>

Init == CaptureInit /\ OutputInit /\ ControllerInit /\ GdiInit

WorkerStep ==
    \/ /\ options.backend = "output" /\ OutputWorker
       /\ UNCHANGED <<controllerVars, blitted>>
    \/ /\ options.backend = "desktop" /\ ControllerWorker
       /\ UNCHANGED <<outputVars, blitted>>
    \/ /\ options.backend = "gdi" /\ GdiWorker
       /\ UNCHANGED <<outputVars, controllerVars>>
    \/ /\ WorkerStops \/ WorkerEnds \/ PublishShape \/ PublishShapeFails
       /\ UNCHANGED backendVars

StopsCapture == StopRelease /\ UNCHANGED backendVars

GrantedStep ==
    \/ /\ options.backend = "output" /\ OutputGranted
       /\ UNCHANGED <<controllerVars, blitted>>
    \/ /\ options.backend = "desktop" /\ ControllerGranted
       /\ UNCHANGED <<outputVars, blitted>>

Next ==
    \/ WorkerStep \/ GrantedStep
    \/ StopsCapture
    \/ /\ DesktopChanges \/ SessionRuns \/ Initialize \/ Start \/ StopBegin
       /\ UNCHANGED backendVars

Spec == Init /\ [][Next]_allVars

\* The worker runs, its calls of the system return, and stop() runs on; a
\* new session may never be had.
FairSpec == Spec /\ WF_allVars(WorkerStep) /\ WF_allVars(StopsCapture)

-----------------------------------------------------------------------------
(* Properties.                                                             *)

Explains(damage, c) ==
    \/ c \in damage.dirty
    \/ \E m \in damage.moves :
          m.to = c /\ last.image[c] = before.image[m.from]
    \/ last.region = before.region /\ last.image[c] = before.image[c]

(* A consumer that has a frame can make the next one of it: what its       *)
(* damage leaves out has not changed, and what it says was moved is in the *)
(* frame its base names, also after dropped frames, rebuilt sessions,      *)
(* session events and heartbeats (build_damage, publish_compose,           *)
(* publish_heartbeat).                                                     *)
DamageComplete ==
    last.sequence > 1 /\ ~last.damage.full =>
        /\ \A c \in FrameColumns : Explains(last.damage, c)
        /\ last.damage.moves # {} => last.damage.base = before.sequence

(* A session event is answered by a full frame before, or with, the first  *)
(* frame of new content after it was noticed; heartbeats that only repeat  *)
(* do not count as the answer (worker_main).                               *)
SessionRefresh ==
    last # NoFrame /\ last.owes => last.damage = NoDamage

(* A frame that names a cursor shape and does not announce it names the    *)
(* one published last (build_cursor and what follows the commit).          *)
ShapeAnnounced ==
    last # NoFrame /\ last.shape # NoShape /\ last.pending = NoShape =>
        last.shape = busShape \/ worker = "shape"

(* A rebuild after an access loss that fails, other than for good, is tried *)
(* again, up to access_lost_retry_limit times, and without end if that is  *)
(* zero (worker_main).  Violated: see README.                              *)
RebuildsRetried ==
    failure = "d3d_error" /\ attempts # 0 =>
        options.lostLimit # 0 /\ attempts >= options.lostLimit

(* stop() ends and gives the bus back, whatever DXGI is doing.             *)
StopReleasesProducer == (stopped /\ producer) ~> ~producer
=============================================================================
