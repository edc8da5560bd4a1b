-------------------------- MODULE BusCursorShapes --------------------------
(***************************************************************************)
(* The cursor-shape ring of the shared frame bus                           *)
(* (src/gpu/shared_frame_bus.cpp): two slots of shared memory, written by  *)
(* the one producer and read by consumer processes without a lock.  A      *)
(* slot's commit sequence is odd while it is written, and a reader checks  *)
(* that it has not changed.  A shape is its sequence, and its pixels are   *)
(* named by the same number.                                               *)
(***************************************************************************)
EXTENDS Integers

CONSTANT Shapes   \* content sequences of cursor shapes

ASSUME ShapesAssumption == Shapes \subseteq Nat \ {0}

VARIABLES
    shapeSlots,    \* control_v3->cursor_shapes
    shapeCommit,   \* cursor_commit_sequence
    shapeNext,     \* cursor_next_slot
    shapeReader    \* a consumer in cursor_shape

shapeRingVars == <<shapeSlots, shapeCommit, shapeNext>>
shapeVars == <<shapeRingVars, shapeReader>>

ShapeSlotIds == {0, 1}
ShapeAttempts == 3
NoShape == [want |-> 0, data |-> 0]

ShapesInit ==
    /\ shapeSlots = [i \in ShapeSlotIds |->
                        [commit |-> 0, shape |-> 0, data |-> 0]]
    /\ shapeCommit = 0 /\ shapeNext = 0
    /\ shapeReader = [at |-> "idle", result |-> NoShape]

-----------------------------------------------------------------------------
(* publish_cursor_shape, store by store.                                   *)

ShapeBegin ==
    /\ shapeSlots' = [shapeSlots EXCEPT ![shapeNext].commit =
                         shapeCommit + 1]
    /\ UNCHANGED <<shapeCommit, shapeNext, shapeReader>>

ShapeStoreHeader(shape) ==
    /\ shapeSlots' = [shapeSlots EXCEPT ![shapeNext].shape = shape]
    /\ UNCHANGED <<shapeCommit, shapeNext, shapeReader>>

ShapeStoreData(shape) ==
    /\ shapeSlots' = [shapeSlots EXCEPT ![shapeNext].data = shape]
    /\ UNCHANGED <<shapeCommit, shapeNext, shapeReader>>

OtherShapeSlot == 1 - shapeNext

ShapeCommit ==
    /\ shapeSlots' = [shapeSlots EXCEPT ![shapeNext].commit =
                         shapeCommit + 2]
    /\ shapeCommit' = shapeCommit + 2
    /\ shapeNext' = OtherShapeSlot
    /\ UNCHANGED shapeReader

-----------------------------------------------------------------------------
(* cursor_shape of a consumer, load by load.                               *)

ShapeReaderAt(at) == [shapeReader EXCEPT !.at = at]

ShapeReadCall(want) ==
    /\ shapeReader.at = "idle"
    /\ shapeReader' = [at |-> "before", want |-> want, slot |-> 0,
                       attempt |-> 1, before |-> 0, data |-> 0,
                       result |-> NoShape]
    /\ UNCHANGED shapeRingVars

\* The next slot, or the end: the shape is no longer cached.
NextShapeSlot ==
    IF shapeReader.slot = 0
    THEN [shapeReader EXCEPT !.at = "before", !.slot = 1, !.attempt = 1]
    ELSE [at |-> "idle", result |-> NoShape]

ShapeReadBefore ==
    /\ shapeReader.at = "before"
    /\ LET commit == shapeSlots[shapeReader.slot].commit
       IN  shapeReader' = IF commit = 0 \/ commit % 2 = 1
                          THEN NextShapeSlot
                          ELSE [shapeReader EXCEPT !.at = "header",
                                                   !.before = commit]
    /\ UNCHANGED shapeRingVars

ShapeReadHeader ==
    /\ shapeReader.at = "header"
    /\ shapeReader' =
          IF shapeSlots[shapeReader.slot].shape # shapeReader.want
          THEN NextShapeSlot ELSE ShapeReaderAt("data")
    /\ UNCHANGED shapeRingVars

ShapeReadData ==
    /\ shapeReader.at = "data"
    /\ shapeReader' = [shapeReader EXCEPT !.at = "after",
                          !.data = shapeSlots[shapeReader.slot].data]
    /\ UNCHANGED shapeRingVars

\* Mutant of CommitUnchanged: the commit word is not read again.
CommitUnread == TRUE
CommitUnchanged == shapeSlots[shapeReader.slot].commit = shapeReader.before

ShapeReadAfter ==
    /\ shapeReader.at = "after"
    /\ shapeReader' =
          IF CommitUnchanged
          THEN [at |-> "idle",
                result |-> [want |-> shapeReader.want,
                            data |-> shapeReader.data]]
          ELSE IF shapeReader.attempt < ShapeAttempts
          THEN [shapeReader EXCEPT !.at = "before", !.attempt = @ + 1]
          ELSE NextShapeSlot
    /\ UNCHANGED shapeRingVars

ShapeReading ==
    \/ ShapeReadBefore \/ ShapeReadHeader \/ ShapeReadData \/ ShapeReadAfter

-----------------------------------------------------------------------------
(* What cursor_shape returns is one shape: a consumer never gets the       *)
(* pixels of a shape under the number of another, however its loads fall   *)
(* between the stores of publish_cursor_shape.                             *)
NoTornShape == shapeReader.result.data = shapeReader.result.want
=============================================================================
