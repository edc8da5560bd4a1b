-------------------------- MODULE SideDataGeometry --------------------------
(***************************************************************************)
(* How rectangles, moves and cursors of a source region are mapped to the  *)
(* frame committed to the bus (src/gpu/side_data_geometry.hpp).            *)
(*                                                                         *)
(* A geometry g has the extents sw x sh of the source region and ow x oh   *)
(* of the output, and planar tells a 4:2:0 output.  Textures are far       *)
(* smaller than 2^31, so the limits of the integer types are left out.     *)
(***************************************************************************)
EXTENDS Integers, Sequences

AtMost(a, b) == IF a <= b THEN a ELSE b
AtLeast(a, b) == IF a >= b THEN a ELSE b

Rect(x, y, w, h) == [x |-> x, y |-> y, w |-> w, h |-> h]
Within(left, top, right, bottom) ==
    Rect(left, top, right - left, bottom - top)
NoRect == Rect(0, 0, 0, 0)

RectType == [x : Int, y : Int, w : Nat, h : Nat]

Right(r) == r.x + r.w
Bottom(r) == r.y + r.h

\* SideDataMapStatus and the rectangle it comes with.
Mapped(r) == [status |-> "mapped", rect |-> r]
Empty == [status |-> "empty", rect |-> NoRect]
Unrepresentable == [status |-> "unrepresentable", rect |-> NoRect]

\* 2x2 blocks of a 4:2:0 output.
BlockFloor(n) == (n \div 2) * 2
BlockCeil(n) == ((n + 1) \div 2) * 2

ValidGeometry(g) ==
    /\ g.sw > 0 /\ g.sh > 0 /\ g.ow > 0 /\ g.oh > 0
    /\ g.planar => g.ow % 2 = 0 /\ g.oh % 2 = 0

Scaled(g) == g.sw # g.ow \/ g.sh # g.oh

\* Mutant of PhaseInvariant: any enlargement counts as independent of the phase.
Enlarges(g) == ValidGeometry(g) /\ g.ow >= g.sw /\ g.oh >= g.sh

\* phase_invariant_cursor_geometry
PhaseInvariant(g) ==
    /\ ValidGeometry(g)
    /\ g.ow % g.sw = 0 /\ g.oh % g.sh = 0

-----------------------------------------------------------------------------
(* Coordinates of one axis: s source pixels shown as n output pixels.      *)

\* deterministic_point_tap: the source pixel an output pixel shows.
PointTap(o, s, n) == AtMost(s - 1, ((2 * o + 1) * s) \div (2 * n))

\* deterministic_first_output_tap_at_least, a binary search.
FirstTapAtLeast(edge, s, n) ==
    LET search[range \in (0..n) \X (0..n)] ==
            LET first == range[1]
                last == range[2]
                middle == first + (last - first) \div 2
            IN  IF first >= last THEN first
                ELSE IF PointTap(middle, s, n) < edge
                THEN search[<<middle + 1, last>>]
                ELSE search[<<first, middle>>]
    IN  search[<<0, n>>]

ScaleFloor(edge, s, n) == (edge * n) \div s
ScaleCeil(edge, s, n) == (edge * n + s - 1) \div s
ScalesExactly(edge, s, n) == (edge * n) % s = 0

\* scale_signed_coordinate_nearest
Magnitude(c) == IF c < 0 THEN -c ELSE c
ScaleNearest(c, s, n) ==
    LET fraction == (Magnitude(c) % s) * n
        rounded == fraction \div s + (IF (fraction % s) * 2 >= s THEN 1 ELSE 0)
        scaled == (Magnitude(c) \div s) * n + rounded
    IN  IF c < 0 THEN -scaled ELSE scaled

-----------------------------------------------------------------------------
(* Dirty rectangles.                                                       *)

\* clip_source_rect_to_region
ClipToRegion(r, region) ==
    LET left == AtLeast(r.x, region.x)
        top == AtLeast(r.y, region.y)
        right == AtMost(Right(r), Right(region))
        bottom == AtMost(Bottom(r), Bottom(region))
    IN  IF left >= right \/ top >= bottom THEN Empty
        ELSE Mapped(Rect(left - region.x, top - region.y,
                         right - left, bottom - top))

SourceOf(g) == Rect(0, 0, g.sw, g.sh)

\* Expands edges to whole blocks when the output is planar.
Support(left, top, right, bottom, g) ==
    IF left >= right \/ top >= bottom THEN Empty
    ELSE IF g.planar
    THEN Mapped(Within(BlockFloor(left), BlockFloor(top),
                       AtMost(g.ow, BlockCeil(right)),
                       AtMost(g.oh, BlockCeil(bottom))))
    ELSE Mapped(Within(left, top, right, bottom))

\* map_local_damage_rect
LocalDamage(r, g) ==
    LET clipped == ClipToRegion(r, SourceOf(g))
        c == clipped.rect
    IN  IF ~ValidGeometry(g) THEN Unrepresentable
        ELSE IF clipped = Empty THEN Empty
        ELSE Support(ScaleFloor(c.x, g.sw, g.ow),
                     ScaleFloor(c.y, g.sh, g.oh),
                     ScaleCeil(Right(c), g.sw, g.ow),
                     ScaleCeil(Bottom(c), g.sh, g.oh), g)

\* map_local_deterministic_planar_damage_rect
PlanarDamage(r, g) ==
    LET clipped == ClipToRegion(r, SourceOf(g))
        c == clipped.rect
    IN  IF ~ValidGeometry(g) \/ ~g.planar THEN Unrepresentable
        ELSE IF clipped = Empty THEN Empty
        ELSE Support(FirstTapAtLeast(c.x, g.sw, g.ow),
                     FirstTapAtLeast(c.y, g.sh, g.oh),
                     FirstTapAtLeast(Right(c), g.sw, g.ow),
                     FirstTapAtLeast(Bottom(c), g.sh, g.oh), g)

\* map_source_damage_rect, map_source_deterministic_planar_damage_rect
SourceDamage(r, region, g) ==
    LET local == ClipToRegion(r, region)
    IN  IF local.status = "mapped" THEN LocalDamage(local.rect, g) ELSE local

SourcePlanarDamage(r, region, g) ==
    LET local == ClipToRegion(r, region)
    IN  IF local.status = "mapped" THEN PlanarDamage(local.rect, g) ELSE local

-----------------------------------------------------------------------------
(* Moves: the rectangle `to` shows what was at (x, y).                     *)

Move(x, y, to) == [x |-> x, y |-> y, to |-> to]

\* As MoveAxis, with a displacement that may be odd.
MoveAxisOfAnyPhase(from, to, length, s, n) ==
    LET delta == ((to - from) * n) \div s
        begin == BlockCeil(FirstTapAtLeast(to, s, n))
        end == BlockFloor(FirstTapAtLeast(to + length, s, n))
    IN  {a \in {[from |-> begin - delta, to |-> begin,
                 length |-> end - begin]} :
            /\ ((to - from) * n) % s = 0
            /\ begin < end
            /\ a.from >= 0 /\ end - delta <= n
            /\ PointTap(a.from, s, n) >= from
            /\ PointTap(end - delta - 1, s, n) < from + length}

\* map_deterministic_planar_move_axis: the pixels [to, to + length) of the
\* output that show what [from, from + length) showed before; {} when the
\* move cannot be replayed.
MoveAxis(from, to, length, s, n) ==
    LET delta == ((to - from) * n) \div s
        begin == BlockCeil(FirstTapAtLeast(to, s, n))
        end == BlockFloor(FirstTapAtLeast(to + length, s, n))
        tap(o) == PointTap(o, s, n)
    IN  {a \in {[from |-> begin - delta, to |-> begin,
                 length |-> end - begin]} :
            /\ ((to - from) * n) % s = 0
            /\ delta % 2 = 0
            /\ begin < end
            /\ a.from >= 0 /\ end - delta <= n
            /\ tap(a.from) >= from /\ tap(end - delta - 1) < from + length
            /\ tap(begin) >= to /\ tap(end - 1) < to + length
            /\ tap(begin) - tap(a.from) = to - from
            /\ tap(end - 1) - tap(end - delta - 1) = to - from}

InBounds(r, w, h) ==
    /\ r.x >= 0 /\ r.y >= 0 /\ r.w > 0 /\ r.h > 0
    /\ Right(r) <= w /\ Bottom(r) <= h

NotEmpty(r) == r.w # 0 /\ r.h # 0

Inside(r, of) ==
    /\ r.x >= of.x /\ Right(r) <= Right(of)
    /\ r.y >= of.y /\ Bottom(r) <= Bottom(of)

\* append_strip
Strip(r) == IF NotEmpty(r) THEN <<r>> ELSE <<>>

\* Pixels of `affected` around `to`: above, below, left and right of it.
Strips(affected, to) ==
    Strip(Within(affected.x, affected.y, Right(affected), to.y))
        \o Strip(Within(affected.x, Bottom(to), Right(affected),
                        Bottom(affected)))
        \o Strip(Within(affected.x, to.y, to.x, Bottom(to)))
        \o Strip(Within(Right(to), to.y, Right(affected), Bottom(to)))

NoMapping(status) ==
    [status |-> status, move |-> Move(0, 0, NoRect), dirty |-> <<>>]

\* map_local_deterministic_planar_move
PlanarMove(from, to, g) ==
    LET affected == PlanarDamage(to, g)
        across == MoveAxis(from.x, to.x, to.w, g.sw, g.ow)
        down == MoveAxis(from.y, to.y, to.h, g.sh, g.oh)
    IN  IF \/ ~ValidGeometry(g) \/ ~g.planar
           \/ from.w # to.w \/ from.h # to.h
           \/ ~InBounds(from, g.sw, g.sh) \/ ~InBounds(to, g.sw, g.sh)
        THEN NoMapping("unrepresentable")
        ELSE IF affected.status # "mapped" THEN NoMapping(affected.status)
        ELSE IF across = {} \/ down = {} THEN NoMapping("unrepresentable")
        ELSE LET h == CHOOSE a \in across : TRUE
                 v == CHOOSE a \in down : TRUE
                 interior == Rect(h.to, v.to, h.length, v.length)
             IN  IF ~Inside(interior, affected.rect)
                 THEN NoMapping("unrepresentable")
                 ELSE [status |-> "mapped",
                       move |-> Move(h.from, v.from, interior),
                       dirty |-> Strips(affected.rect, interior)]

\* map_move_rect_exact: {} when an edge or a block does not map exactly.
MoveExact(m, g) ==
    LET x(n) == ScaleFloor(n, g.sw, g.ow)
        y(n) == ScaleFloor(n, g.sh, g.oh)
        from == Rect(m.x, m.y, m.to.w, m.to.h)
        mapped == Move(x(m.x), y(m.y),
                       Within(x(m.to.x), y(m.to.y),
                              x(Right(m.to)), y(Bottom(m.to))))
    IN  {e \in {mapped} :
            /\ ValidGeometry(g)
            /\ InBounds(from, g.sw, g.sh) /\ InBounds(m.to, g.sw, g.sh)
            /\ \A r \in {from, m.to} :
                  /\ ScalesExactly(r.x, g.sw, g.ow)
                  /\ ScalesExactly(Right(r), g.sw, g.ow)
                  /\ ScalesExactly(r.y, g.sh, g.oh)
                  /\ ScalesExactly(Bottom(r), g.sh, g.oh)
            /\ NotEmpty(e.to)
            /\ g.planar =>
                  \A n \in {e.x, e.y, e.to.x, e.to.y, e.to.w, e.to.h} :
                      n % 2 = 0}

-----------------------------------------------------------------------------
(* Cursor shapes, one axis at a time: an extent, a hot spot and the pixel  *)
(* of the unscaled shape that each pixel shows.                            *)

\* scale_cursor_shape
ScaleShapeAxis(extent, hotspot, s, n) ==
    LET scaled == ScaleCeil(extent, s, n)
    IN  [extent |-> scaled,
         hotspot |-> AtMost(scaled - 1, ScaleNearest(hotspot, s, n)),
         shows |-> [o \in 0..(scaled - 1) |->
                        AtMost(extent - 1, (o * s) \div n)]]

=============================================================================
