---------------------- MODULE DesktopDuplicationCapture ----------------------
(***************************************************************************)
(* Desktop Duplication of one output                                       *)
(* (src/gpu/desktop_duplication_capture.cpp): frames of a region of the    *)
(* desktop with native damage, sessions rebuilt after an access loss, and  *)
(* the last frame published again while the desktop is still.              *)
(*                                                                         *)
(* Rotation and the conversion of colours are not modelled; a scaled frame *)
(* stands for any whose damage cannot be mapped exactly.                   *)
(***************************************************************************)
EXTENDS MonitorCapture

CONSTANT MaxLost   \* bound: access losses

ASSUME LostAssumption == MaxLost \in Nat

VARIABLES
    region,      \* mailbox.x
    roi,         \* mailbox_generation
    surface,     \* external: the desktop at the last AcquireNextFrame
    delivered,   \* external: the pointer shape last reported
    held,        \* the frame acquired
    nativeShape, \* native_pointer_shape_seen
    heartbeat,   \* heartbeat_texture and heartbeat_metadata
    attempts,    \* access_lost_attempts
    lost         \* access losses so far

outputVars == <<region, roi, surface, delivered, held, nativeShape,
                heartbeat, attempts, lost>>
sourceVars == <<region, roi, surface, delivered, held, nativeShape,
                heartbeat>>
retryVars == <<attempts, lost>>

Offsets == 0..(DesktopWidth - FrameWidth)
NothingHeld == [shape |-> NoShape]
NoHeartbeat == [roi |-> 0]

OutputInit ==
    /\ region \in IF options.backend = "output" THEN Offsets ELSE {0}
    /\ roi = 1
    /\ surface = desktop /\ delivered = NoShape /\ held = NothingHeld
    /\ nativeShape = FALSE /\ heartbeat = NoHeartbeat
    /\ attempts = 0 /\ lost = 0

-----------------------------------------------------------------------------
(* AcquireNextFrame.                                                       *)

\* What the session reports of the desktop since the last frame: columns
\* moved, relative to the image of that frame, and columns that are dirty.
Changed == {c \in Columns : desktop[c] # surface[c]}

MoveReports ==
    {{}} \cup {{m} : m \in {m \in [from : Columns, to : Changed] :
                                desktop[m.to] = surface[m.from]}}

NewShape ==
    IF options.nativeCursor /\ pointer # delivered THEN pointer ELSE NoShape

\* Mutant of ForcedBy: a session event does not force a discontinuity.
ForcedOnlyBy(coalesced) == coalesced

\* Frames that were coalesced force a full frame.
ForcedBy(coalesced) == forceFull \/ coalesced

AcquireFrame ==
    /\ worker = "acquire"
    /\ \E moves \in MoveReports, coalesced \in BOOLEAN :
         /\ held' = [image |-> desktop, moves |-> moves,
                     dirty |-> Changed \ {m.to : m \in moves},
                     shape |-> NewShape]
         /\ forceFull' = ForcedBy(coalesced)
    /\ surface' = desktop
    /\ delivered' = IF options.nativeCursor THEN pointer ELSE delivered
    /\ worker' = "frame"
    /\ UNCHANGED <<lifeVars, observed, previous, cursorVars, osVars,
                   busVars, sessionVars, region, roi, nativeShape, heartbeat,
                   retryVars>>

AcquireTimeout ==
    /\ worker = "acquire"
    /\ worker' = "heartbeat"
    /\ UNCHANGED <<lifeVars, observed, forceFull, previous, cursorVars,
                   osVars, busVars, sessionVars, outputVars>>

AcquireFails ==
    Fail("acquire", "d3d_error") /\ UNCHANGED <<failUnchanged, outputVars>>

-----------------------------------------------------------------------------
(* Rebuilding the session.                                                 *)

RebuildsExhausted ==
    options.lostLimit # 0 /\ attempts >= options.lostLimit

AccessLost ==
    /\ worker = "acquire" /\ lost < MaxLost
    /\ lost' = lost + 1
    /\ IF RebuildsExhausted
       THEN Fail("acquire", "d3d_error") /\ UNCHANGED attempts
       ELSE /\ attempts' = attempts + 1
            /\ worker' = "backoff"
            /\ UNCHANGED failure
    /\ UNCHANGED <<options, started, stopped, running, stopToken, producer,
                   observed, forceFull, previous, cursorVars, osVars,
                   busVars, sessionVars, sourceVars>>

\* Mutant of RetryCancelled: the retry of a claim never looks at the stop.
RetryUncancelled == FALSE
\* wait_retry_delay tells of the stop token.
RetryCancelled == stopToken

\* The delay before a rebuild.
Backoff ==
    /\ worker = "backoff"
    /\ worker' = IF RetryCancelled THEN "ended" ELSE "rebuild"
    /\ UNCHANGED <<lifeVars, observed, forceFull, previous, cursorVars,
                   osVars, busVars, sessionVars, outputVars>>

\* The mailbox generation once the region starts at x.
RoiAt(x) == IF x # region THEN roi + 1 ELSE roi

\* The new session sees the desktop as it is now, and may be of another size,
\* which moves the region.
Rebuild ==
    /\ worker = "rebuild"
    /\ region' \in Offsets
    /\ roi' = RoiAt(region')
    /\ surface' = desktop /\ delivered' = NoShape
    /\ attempts' = 0 /\ forceFull' = TRUE
    /\ worker' = "loop"
    /\ UNCHANGED <<lifeVars, observed, previous, cursorVars, osVars, busVars,
                   sessionVars, held, nativeShape, heartbeat, lost>>

\* DXGI has no session to give (NOT_CURRENTLY_AVAILABLE): tried again, with a
\* limit of zero until stop(), and then an error.
RebuildGivesUp ==
    /\ options.sessionLimit # 0 \/ RetryCancelled
    /\ Fail("rebuild", "not_supported")
    /\ UNCHANGED <<failUnchanged, outputVars>>

\* The monitor is detached, its colours or its size no longer fit the bus, or
\* any call of DXGI or Direct3D fails.
RebuildFails ==
    /\ \E status \in {"target_closed", "not_supported", "d3d_error"} :
          Fail("rebuild", status)
    /\ UNCHANGED <<failUnchanged, outputVars>>

-----------------------------------------------------------------------------
(* The frame.                                                              *)

RegionColumns == region..(region + FrameWidth - 1)
Mailbox(image) == [c \in FrameColumns |-> image[region + c]]

\* build_damage.  A move whose source is not in the region is dirty.
BuildDamage ==
    LET moved == {m \in held.moves : m.to \in RegionColumns}
        replayed == {m \in moved : m.from \in RegionColumns}
        dirty == (held.dirty \cap RegionColumns)
                     \cup {m.to : m \in moved \ replayed}
    IN  IF forceFull \/ options.scaled \/ Cardinality(dirty) > MaxDirtyRects
        THEN FullDamage
        ELSE [full |-> FALSE, dirty |-> {c - region : c \in dirty},
              moves |-> {[from |-> m.from - region, to |-> m.to - region] :
                            m \in replayed},
              base |-> IF replayed = {} THEN 0 ELSE previous]

\* desktop_duplication_win32_shape_fallback_allowed; the refresh interval may
\* have passed or not.
MayRefresh == ~nativeShape

\* build_cursor.  Win32 may be asked for the shape until the driver has
\* reported one; GetCursorInfo may fail, and a shape that cannot be extracted
\* leaves the frame without.
BuiltCursors(native) ==
    IF ~options.cursor THEN {NoCursor}
    ELSE IF native # NoShape THEN {CursorOf(native, lastCursor)}
    ELSE {CursorOf(NoShape, lastCursor)}
         \cup (IF MayRefresh
               THEN {NoCursor,
                     CursorOf(IF pointer # cursorShape THEN pointer
                              ELSE NoShape, pointer)}
               ELSE {})

PublishFrame ==
    /\ worker = "frame"
    /\ \E cursor \in BuiltCursors(held.shape) :
         /\ Commit(Mailbox(held.image), region, roi, BuildDamage, cursor)
         /\ lastCursor' = cursor.sampled
    /\ nativeShape' = (nativeShape \/ held.shape # NoShape)
    /\ heartbeat' = IF options.heartbeat
                    THEN [image |-> Mailbox(held.image), region |-> region,
                          roi |-> roi]
                    ELSE NoHeartbeat
    /\ forceFull' = FALSE
    /\ held' = NothingHeld
    /\ attempts' = 0
    /\ UNCHANGED <<lifeVars, observed, cursorShape, busShape, osVars,
                   sessionVars, region, roi, surface, delivered, lost>>

\* Mutant of SkipFrame: a frame skipped is not remembered as damage.
SkipSilently ==
    /\ worker = "frame"
    /\ worker' = "loop"
    /\ held' = NothingHeld
    /\ attempts' = 0
    /\ UNCHANGED <<lifeVars, observed, forceFull, previous, cursorVars,
                   osVars, busVars, sessionVars, region, roi, surface,
                   delivered, nativeShape, heartbeat, lost>>

\* begin_shared_frame_bus_publish finds no slot: the frame is dropped, its
\* pointer shape unread.
SkipFrame ==
    /\ worker = "frame"
    /\ worker' = "loop"
    /\ held' = NothingHeld
    /\ forceFull' = TRUE
    /\ attempts' = 0
    /\ UNCHANGED <<lifeVars, observed, previous, cursorVars, osVars, busVars,
                   sessionVars, region, roi, surface, delivered, nativeShape,
                   heartbeat, lost>>

\* Any error of process_frame.
FrameFails ==
    Fail("frame", "d3d_error") /\ UNCHANGED <<failUnchanged, outputVars>>

-----------------------------------------------------------------------------
(* publish_heartbeat.                                                      *)

\* Off, nothing published yet, not due, or no slot.
HeartbeatSkipped ==
    /\ worker = "heartbeat"
    /\ worker' = "loop"
    /\ UNCHANGED <<lifeVars, observed, forceFull, previous, cursorVars,
                   osVars, busVars, sessionVars, outputVars>>

\* The last frame again, with the metadata it had.
Heartbeat ==
    /\ worker = "heartbeat" /\ heartbeat # NoHeartbeat
    /\ \E cursor \in BuiltCursors(NoShape) :
         /\ Commit(heartbeat.image, heartbeat.region, heartbeat.roi,
                   NoDamage, cursor)
         /\ lastCursor' = cursor.sampled
    /\ UNCHANGED <<lifeVars, observed, forceFull, cursorShape, busShape,
                   osVars, sessionVars, outputVars>>

HeartbeatFails ==
    /\ heartbeat # NoHeartbeat
    /\ Fail("heartbeat", "d3d_error") /\ UNCHANGED <<failUnchanged, outputVars>>

-----------------------------------------------------------------------------
\* What DXGI may put off for ever.
OutputGranted == Rebuild \/ RebuildFails

OutputWorker ==
    \/ WorkerLoops("acquire") /\ UNCHANGED outputVars
    \/ AcquireFrame \/ AcquireTimeout \/ AcquireFails \/ AccessLost
    \/ Backoff \/ RebuildGivesUp
    \/ PublishFrame \/ SkipFrame \/ FrameFails
    \/ HeartbeatSkipped \/ Heartbeat \/ HeartbeatFails
=============================================================================
