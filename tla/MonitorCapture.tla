--------------------------- MODULE MonitorCapture ---------------------------
(***************************************************************************)
(* What the three captures of whole monitors have in common: Desktop       *)
(* Duplication of one output (src/gpu/desktop_duplication_capture.cpp), of *)
(* every output (desktop_duplication_controller.cpp), and GDI              *)
(* (gdi_capture.cpp).  Each has one worker thread that publishes frames on *)
(* the shared frame bus; rows and columns are independent, so an image is  *)
(* one row of columns.                                                     *)
(*                                                                         *)
(* External here: the desktop and its cursor, and the bus (SharedFrameBus  *)
(* describes it), of which the frame last published and the one before it  *)
(* are kept.                                                               *)
(***************************************************************************)
EXTENDS SessionEventMonitor, Integers, FiniteSets

CONSTANTS
    DesktopWidth,    \* columns of the desktop
    FrameWidth,      \* columns of a frame
    MaxDirtyRects,   \* wgc_max_dirty_rects
    Configurations,  \* back ends and options
    MaxSequence      \* bound: frames published

Options ==
    [backend : {"output", "desktop", "gdi"},
     heartbeat : BOOLEAN,     \* idle_republish_interval_ms # 0
     cursor : BOOLEAN,        \* include_cursor_metadata
     nativeCursor : BOOLEAN,  \* the driver reports pointer shapes
     scaled : BOOLEAN,        \* a frame is not as wide as its source
     events : BOOLEAN,        \* monitor_session_events
     lostLimit : Nat,         \* access_lost_retry_limit
     sessionLimit : Nat,      \* session_retry_limit
     maxChanges : Nat]        \* bound: changes of the desktop and its cursor

ASSUME MonitorAssumption ==
    /\ DesktopWidth \in Nat /\ FrameWidth \in 1..DesktopWidth
    /\ MaxDirtyRects \in Nat /\ MaxSequence \in Nat
    /\ \A o \in Configurations : /\ o.lostLimit \in Nat
                                 /\ o.sessionLimit \in Nat
                                 /\ o.maxChanges \in Nat

VARIABLES
    options,      \* the capture's back end and options
    started, stopped, running,
    failure,      \* last_failure; target_closed() is set with its status
    worker,       \* where worker_main is
    stopToken,    \* the worker's stop token
    producer,     \* bus_producer_token # 0
    observed,     \* observed_session_generation
    forceFull,    \* first_frame or force_full_next
    previous,     \* previous_bus_sequence
    lastCursor,   \* last_win32_cursor
    cursorShape,  \* current_cursor_shape.sequence
    pendingShape, \* the shape to publish with the frame just committed
    desktop,      \* external: what the desktop shows
    pointer,      \* external: the cursor's shape
    changes,      \* changes of the desktop so far
    before, last, \* external: the last two frames on the bus
    owed,         \* ghost: no full frame since the last session event seen
    busShape      \* external: the shape last published

lifeVars == <<options, started, stopped, running, failure, stopToken,
              producer>>
workerVars == <<worker, observed, forceFull, previous>>
cursorVars == <<lastCursor, cursorShape, pendingShape, busShape>>
osVars == <<desktop, pointer, changes>>
busVars == <<before, last, owed>>
captureVars == <<lifeVars, workerVars, cursorVars, osVars, busVars,
                 sessionVars>>

Columns == 0..(DesktopWidth - 1)
FrameColumns == 0..(FrameWidth - 1)

NoFrame == [sequence |-> 0]
NoShape == 0

CaptureInit ==
    /\ options \in Configurations
    /\ started = FALSE /\ stopped = FALSE /\ running = FALSE
    /\ failure = "none"
    /\ worker = "none" /\ stopToken = FALSE /\ producer = FALSE
    /\ observed = 0 /\ forceFull = TRUE /\ previous = 0
    /\ lastCursor = NoShape /\ cursorShape = NoShape
    /\ pendingShape = NoShape /\ busShape = NoShape
    /\ desktop = [c \in Columns |-> c] /\ pointer = 1 /\ changes = 0
    /\ before = NoFrame /\ last = NoFrame /\ owed = FALSE
    /\ SessionInit

-----------------------------------------------------------------------------
(* The desktop.                                                            *)

Draw(c) == desktop' = [desktop EXCEPT ![c] = DesktopWidth + changes]
Scroll(from, to) == desktop' = [desktop EXCEPT ![to] = desktop[from]]

DesktopChanges ==
    /\ changes < options.maxChanges
    /\ changes' = changes + 1
    /\ \/ ~options.cursor /\ UNCHANGED pointer
          /\ \E c \in Columns : Draw(c) \/ \E to \in Columns : Scroll(c, to)
       \/ options.cursor /\ pointer' = 3 - pointer /\ UNCHANGED desktop
    /\ UNCHANGED <<lifeVars, workerVars, cursorVars, busVars, sessionVars>>

SessionRuns ==
    /\ SessionRegistered \/ SessionInert \/ SessionEvent
    /\ UNCHANGED <<lifeVars, workerVars, cursorVars, osVars, busVars>>

-----------------------------------------------------------------------------
(* Life cycle.                                                             *)

\* initialize, with the first session.  If that cannot be created the
\* capture is destroyed, that is, stopped.
Initialize ==
    /\ ~producer /\ ~stopped
    /\ producer' = TRUE
    /\ stopped' \in BOOLEAN
    /\ IF options.events THEN SessionStart ELSE UNCHANGED sessionVars
    /\ UNCHANGED <<options, started, running, failure, stopToken,
                   workerVars, cursorVars, osVars, busVars>>

Start ==
    /\ producer /\ ~started /\ ~stopped
    /\ started' = TRUE /\ running' = TRUE
    /\ worker' = "loop" /\ observed' = generation
    /\ UNCHANGED <<options, stopped, failure, stopToken, producer,
                   forceFull, previous, cursorVars, osVars, busVars,
                   sessionVars>>

StopBegin ==
    /\ producer /\ ~stopped
    /\ stopped' = TRUE /\ running' = FALSE /\ stopToken' = started
    /\ UNCHANGED <<options, started, failure, producer, workerVars,
                   cursorVars, osVars, busVars, sessionVars>>

\* stop, after the join.
StopRelease ==
    /\ stopped /\ producer /\ worker \in {"none", "done"}
    /\ producer' = FALSE
    /\ SessionStopped
    /\ UNCHANGED <<options, started, stopped, running, failure,
                   stopToken, workerVars, cursorVars, osVars, busVars>>

-----------------------------------------------------------------------------
(* The worker's loop.                                                      *)

\* The top of the loop: the stop token, then the session's events, which
\* force a full frame and forget the cursor.
WorkerLoops(next) ==
    /\ worker = "loop" /\ ~stopToken
    /\ worker' = next
    /\ IF options.events /\ generation # observed
       THEN /\ observed' = generation
            /\ forceFull' = TRUE
            /\ lastCursor' = NoShape
            /\ owed' = TRUE
       ELSE UNCHANGED <<observed, forceFull, lastCursor, owed>>
    /\ UNCHANGED <<lifeVars, previous, cursorShape, pendingShape, busShape,
                   osVars, before, last, sessionVars>>

WorkerStops ==
    /\ worker = "loop" /\ stopToken
    /\ worker' = "ended"
    /\ UNCHANGED <<lifeVars, observed, forceFull, previous, cursorVars,
                   osVars, busVars, sessionVars>>

\* running is cleared last.
WorkerEnds ==
    /\ worker = "ended"
    /\ worker' = "done" /\ running' = FALSE
    /\ UNCHANGED <<options, started, stopped, failure, stopToken,
                   producer, observed, forceFull, previous, cursorVars,
                   osVars, busVars, sessionVars>>

\* record_error, and out of the loop.
Fail(at, status) ==
    /\ worker = at
    /\ worker' = "ended"
    /\ failure' = status

failUnchanged == <<options, started, stopped, running, stopToken, producer,
                   observed, forceFull, previous, cursorVars, osVars,
                   busVars, sessionVars>>

-----------------------------------------------------------------------------
(* Frames.                                                                 *)

NoDamage == [full |-> FALSE, dirty |-> {}, moves |-> {}, base |-> 0]
FullDamage == [full |-> TRUE, dirty |-> FrameColumns, moves |-> {},
               base |-> 0]

\* The cursor of a frame: the shape it names, the shape to publish, and the
\* new last_win32_cursor.
CursorOf(pending, sampled) ==
    [named |-> IF pending # NoShape THEN pending ELSE cursorShape,
     pending |-> pending, sampled |-> sampled]

NoCursor == [named |-> NoShape, pending |-> NoShape, sampled |-> lastCursor]

\* The commit of a frame, and what the capture remembers of it.
Commit(image, region, roi, damage, cursor) ==
    LET sequence == last.sequence + 1
    IN  /\ sequence <= MaxSequence
        /\ owed' = (owed /\ ~damage.full)
        /\ last' = [sequence |-> sequence, image |-> image,
                    region |-> region, roi |-> roi, damage |-> damage,
                    shape |-> cursor.named, pending |-> cursor.pending,
                    owes |-> owed']
        /\ before' = last
        /\ previous' = sequence
        /\ pendingShape' = cursor.pending
        /\ worker' = IF cursor.pending = NoShape THEN "loop" ELSE "shape"

\* publish_shared_frame_bus_cursor_shape.
PublishShape ==
    /\ worker = "shape"
    /\ busShape' = pendingShape /\ cursorShape' = pendingShape
    /\ pendingShape' = NoShape
    /\ worker' = "loop"
    /\ UNCHANGED <<lifeVars, observed, forceFull, previous, lastCursor,
                   osVars, busVars, sessionVars>>

PublishShapeFails ==
    Fail("shape", "d3d_error") /\ UNCHANGED failUnchanged
=============================================================================
