-------------------------- MODULE DuplicationDamage --------------------------
(***************************************************************************)
(* The damage of one frame as the capture back ends publish it: built from *)
(* the rectangles of Desktop Duplication (build_damage in                  *)
(* src/gpu/desktop_duplication_capture.cpp) or of Windows Graphics Capture *)
(* (current_damage in src/gpu/wgc_capture.cpp).                            *)
(*                                                                         *)
(* A configuration c has the duplicated surface, w x h, its rotation, the  *)
(* region of the logical desktop that is captured, the output w x h, and   *)
(* whether it is planar and drawn by the deterministic shader.             *)
(***************************************************************************)
EXTENDS DisplayRotation

CONSTANTS
    MaxDirtyRects,   \* wgc_max_dirty_rects
    MaxMoveRects     \* wgc_max_move_rects

ASSUME RectsAssumption ==
    /\ MaxDirtyRects \in Nat \ {0}
    /\ MaxMoveRects \in Nat \ {0}

\* side_data_geometry, and the geometries build_damage fills in.
GeometryOf(c) ==
    [sw |-> c.region.w, sh |-> c.region.h, ow |-> c.out.w, oh |-> c.out.h,
     planar |-> c.planar]

Deterministic(c) == c.planar /\ c.deterministic

\* The driver chooses how VideoProcessor scales.
DriverScales(c) == c.planar /\ Scaled(GeometryOf(c)) /\ ~c.deterministic

FullFrame(c) == Rect(0, 0, c.out.w, c.out.h)

\* full_damage, full_frame
FullDamage(c, overflow) ==
    [dirty |-> <<FullFrame(c)>>, moves |-> <<>>, full |-> TRUE,
     overflow |-> overflow]

NoDamage == [dirty |-> <<>>, moves |-> <<>>, full |-> FALSE, overflow |-> FALSE]

Overflow(d) == [d EXCEPT !.overflow = TRUE]

\* The whole frame where the driver scales it or the rectangles are too many.
WholeOrMapped(d, c) ==
    IF DriverScales(c) THEN FullDamage(c, FALSE)
    ELSE IF d.overflow THEN FullDamage(c, TRUE)
    ELSE d

-----------------------------------------------------------------------------
(* Desktop Duplication: a sequence of moves, [from, to], and one of dirty  *)
(* rectangles, all of the surface.                                         *)

\* append_dirty, of a rectangle of the region.
AppendDirty(d, r, c) ==
    LET mapped == IF Deterministic(c) THEN PlanarDamage(r, GeometryOf(c))
                  ELSE ScaleRect(r, GeometryOf(c))
    IN  IF mapped.status = "empty" THEN d
        ELSE IF mapped.status = "unrepresentable"
                \/ Len(d.dirty) >= MaxDirtyRects
        THEN Overflow(d)
        ELSE [d EXCEPT !.dirty = Append(@, mapped.rect)]

\* Mutant of AppendMapping: room for the strips around the move is not tested.
AppendMoveOf(d, mapping) ==
    IF Len(d.moves) >= MaxMoveRects THEN Overflow(d)
    ELSE [d EXCEPT !.moves = Append(@, mapping.move),
                   !.dirty = @ \o mapping.dirty]

\* append_deterministic_planar_move_mapping: the whole mapping or none.
AppendMapping(d, mapping) ==
    IF \/ Len(d.moves) >= MaxMoveRects
       \/ Len(mapping.dirty) > MaxDirtyRects - Len(d.dirty)
    THEN Overflow(d)
    ELSE [d EXCEPT !.moves = Append(@, mapping.move),
                   !.dirty = @ \o mapping.dirty]

\* Where a move into `to`, a rectangle of the region, comes from.
ClippedSource(from, logicalTo, to, region) ==
    Rect(from.x + to.x - logicalTo.x, from.y + to.y - logicalTo.y, to.w, to.h)

AppendMove(d, m, c) ==
    LET g == GeometryOf(c)
        logical(r) == ToLogical(r, c.surface.w, c.surface.h, c.rotation)
        clipped == ClipToRegion(logical(m.to), c.region)
        to == clipped.rect
        from == ClippedSource(logical(m.from), logical(m.to), to, c.region)
        mapping == PlanarMove(from, to, g)
        exact == {e \in ScaleMoveExact(from, to, g) :
                    c.planar => PlanarMoveAligned(e)}
    IN  IF d.overflow \/ clipped = Empty THEN d
        ELSE IF ~InBounds(from, g.sw, g.sh) THEN AppendDirty(d, to, c)
        ELSE IF Scaled(g)
        THEN IF ~Deterministic(c) THEN AppendDirty(d, to, c)
             ELSE IF mapping.status = "empty" THEN d
             ELSE IF mapping.status = "mapped" THEN AppendMapping(d, mapping)
             ELSE AppendDirty(d, to, c)
        ELSE IF exact = {} THEN AppendDirty(d, to, c)
        ELSE IF Len(d.moves) = MaxMoveRects THEN Overflow(d)
        ELSE [d EXCEPT !.moves = Append(@, CHOOSE e \in exact : TRUE)]

AppendDirtyRect(d, r, c) ==
    LET clipped == ClipToRegion(ToLogical(r, c.surface.w, c.surface.h,
                                          c.rotation), c.region)
    IN  IF d.overflow \/ clipped = Empty THEN d
        ELSE AppendDirty(d, clipped.rect, c)

\* build_damage, of a frame that extends the last one published.
MovedDamage(moves, c) ==
    LET after[i \in 0..Len(moves)] ==
            IF i = 0 THEN NoDamage ELSE AppendMove(after[i - 1], moves[i], c)
    IN  after

DirtiedDamage(d, dirty, c) ==
    LET after[i \in 0..Len(dirty)] ==
            IF i = 0 THEN d ELSE AppendDirtyRect(after[i - 1], dirty[i], c)
    IN  after

BuildDamage(moves, dirty, c) ==
    WholeOrMapped(DirtiedDamage(MovedDamage(moves, c)[Len(moves)],
                                dirty, c)[Len(dirty)], c)

-----------------------------------------------------------------------------
(* Windows Graphics Capture: dirty rectangles of the source.               *)

AppendPending(d, r, c) ==
    LET mapped == IF Deterministic(c)
                  THEN SourcePlanarDamage(r, c.region, GeometryOf(c))
                  ELSE SourceDamage(r, c.region, GeometryOf(c))
    IN  IF d.overflow \/ mapped.status = "empty" THEN d
        ELSE IF mapped.status = "unrepresentable"
                \/ Len(d.dirty) >= MaxDirtyRects
        THEN Overflow(d)
        ELSE [d EXCEPT !.dirty = Append(@, mapped.rect)]

\* current_damage, once a frame has been published.
PendingDamage(pending, c) ==
    LET after[i \in 0..Len(pending)] ==
            IF i = 0 THEN NoDamage
            ELSE AppendPending(after[i - 1], pending[i], c)
    IN  after

CurrentDamage(pending, c) ==
    WholeOrMapped(PendingDamage(pending, c)[Len(pending)], c)

\* drain_move_results_locked: the moves of a late result, none if one does not map.
AmendedMoves(inferred, c) ==
    LET mapped == [i \in DOMAIN inferred |->
                        MoveExact(inferred[i], GeometryOf(c))]
    IN  IF \/ Scaled(GeometryOf(c))
           \/ \E i \in DOMAIN mapped : mapped[i] = {}
        THEN <<>>
        ELSE [i \in DOMAIN mapped |-> CHOOSE m \in mapped[i] : TRUE]

=============================================================================
