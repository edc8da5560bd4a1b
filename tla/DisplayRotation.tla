--------------------------- MODULE DisplayRotation ---------------------------
(***************************************************************************)
(* Rectangles of a rotated output (src/gpu/desktop_duplication_capture.hpp)*)
(* between the surface DXGI duplicates, w x h, and the orientation the     *)
(* user sees.                                                              *)
(***************************************************************************)
EXTENDS SideDataGeometry

Rotations == {0, 90, 180, 270}

\* desktop_duplication_rotation_dimensions
LogicalWidth(rotation, w, h) == IF rotation \in {0, 180} THEN w ELSE h
LogicalHeight(rotation, w, h) == IF rotation \in {0, 180} THEN h ELSE w

\* desktop_duplication_surface_to_logical_rect, of a rectangle in bounds.
ToLogical(r, w, h, rotation) ==
    CASE rotation = 0 -> r
      [] rotation = 90 -> Rect(h - Bottom(r), r.x, r.h, r.w)
      [] rotation = 180 -> Rect(w - Right(r), h - Bottom(r), r.w, r.h)
      [] rotation = 270 -> Rect(r.y, w - Right(r), r.h, r.w)

\* desktop_duplication_logical_to_surface_rect, of a rectangle in bounds.
ToSurface(r, w, h, rotation) ==
    CASE rotation = 0 -> r
      [] rotation = 90 -> Rect(r.y, h - Right(r), r.h, r.w)
      [] rotation = 180 -> Rect(w - Right(r), h - Bottom(r), r.w, r.h)
      [] rotation = 270 -> Rect(w - Bottom(r), r.x, r.h, r.w)

\* desktop_duplication_scale_rect
ScaleRect(r, g) ==
    IF ~InBounds(r, g.sw, g.sh) \/ g.ow = 0 \/ g.oh = 0 THEN Unrepresentable
    ELSE LET mapped == Support(ScaleFloor(r.x, g.sw, g.ow),
                               ScaleFloor(r.y, g.sh, g.oh),
                               ScaleCeil(Right(r), g.sw, g.ow),
                               ScaleCeil(Bottom(r), g.sh, g.oh), g)
         IN  IF mapped = Empty THEN Unrepresentable ELSE mapped

\* desktop_duplication_scale_move_exact; {} when an edge is not exact.
ScaleMoveExact(from, to, g) ==
    LET axisExact(begin, length, s, n) ==
            /\ ScalesExactly(begin, s, n)
            /\ ScalesExactly(begin + length, s, n)
        x(n) == ScaleFloor(n, g.sw, g.ow)
        y(n) == ScaleFloor(n, g.sh, g.oh)
    IN  {m \in {Move(x(from.x), y(from.y),
                     Within(x(to.x), y(to.y), x(Right(to)), y(Bottom(to))))} :
            /\ InBounds(from, g.sw, g.sh) /\ InBounds(to, g.sw, g.sh)
            /\ from.w = to.w /\ from.h = to.h
            /\ \A r \in {from, to} : /\ axisExact(r.x, r.w, g.sw, g.ow)
                                     /\ axisExact(r.y, r.h, g.sh, g.oh)
            /\ NotEmpty(m.to)}

\* desktop_duplication_planar_move_aligned
PlanarMoveAligned(m) ==
    \A n \in {m.x, m.y, m.to.x, m.to.y, m.to.w, m.to.h} : n % 2 = 0

=============================================================================
