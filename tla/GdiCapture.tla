------------------------------ MODULE GdiCapture ------------------------------
(***************************************************************************)
(* GDI capture of one monitor (src/gpu/gdi_capture.cpp): the worker copies *)
(* the screen at intervals, and every frame is a full one.                 *)
(***************************************************************************)
EXTENDS MonitorCapture

VARIABLE blitted   \* the image and the cursor of capture_once

GdiInit == blitted = [cursor |-> [named |-> NoShape, pending |-> NoShape,
                                  sampled |-> NoShape]]

\* build_cursor.  GetCursorInfo may fail; last_win32_cursor is set whether
\* the shape can be extracted or, as in the first CursorOf, not.
GdiCursors ==
    IF ~options.cursor THEN {NoCursor}
    ELSE {NoCursor} \cup
         (IF cursorShape = NoShape \/ pointer # lastCursor
          THEN {CursorOf(NoShape, pointer), CursorOf(pointer, pointer)}
          ELSE {CursorOf(NoShape, lastCursor)})

\* Mutant of Blit: the shape counts as announced before it is published.
BlitRemembers ==
    /\ worker = "blit"
    /\ \E cursor \in GdiCursors :
         /\ blitted' = [image |-> [c \in FrameColumns |-> desktop[c]],
                        cursor |-> cursor]
         /\ lastCursor' = cursor.sampled
         /\ cursorShape' = cursor.named
    /\ worker' = "blitted"
    /\ UNCHANGED <<lifeVars, observed, forceFull, previous, pendingShape,
                   busShape, osVars, busVars, sessionVars>>

\* capture_once up to the bus: BitBlt and the cursor.
Blit ==
    /\ worker = "blit"
    /\ \E cursor \in GdiCursors :
         /\ blitted' = [image |-> [c \in FrameColumns |-> desktop[c]],
                        cursor |-> cursor]
         /\ lastCursor' = cursor.sampled
    /\ worker' = "blitted"
    /\ UNCHANGED <<lifeVars, observed, forceFull, previous, cursorShape,
                   pendingShape, busShape, osVars, busVars, sessionVars>>

BlitFails == Fail("blit", "d3d_error") /\ UNCHANGED <<failUnchanged, blitted>>

GdiDamage == FullDamage

GdiPublish ==
    /\ worker = "blitted"
    /\ Commit(blitted.image, 0, 1, GdiDamage, blitted.cursor)
    /\ UNCHANGED <<lifeVars, observed, forceFull, lastCursor, cursorShape,
                   busShape, osVars, sessionVars, blitted>>

\* No slot: the frame is dropped, with the shape it was to publish.
GdiSkip ==
    /\ worker = "blitted"
    /\ worker' = "loop"
    /\ UNCHANGED <<lifeVars, observed, forceFull, previous, cursorVars,
                   osVars, busVars, sessionVars, blitted>>

GdiPublishFails ==
    Fail("blitted", "d3d_error") /\ UNCHANGED <<failUnchanged, blitted>>

GdiWorker ==
    \/ WorkerLoops("blit") /\ UNCHANGED blitted
    \/ Blit \/ BlitFails
    \/ GdiPublish \/ GdiSkip \/ GdiPublishFails
=============================================================================
