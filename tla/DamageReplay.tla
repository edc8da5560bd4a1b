---------------------------- MODULE DamageReplay ----------------------------
(***************************************************************************)
(* A consumer that keeps a copy of the captured image up to date from the  *)
(* damage of each frame alone, as the sidecar of src/gpu/shared_frame_bus  *)
(* .cpp and the dirty rectangles of a CPU frame invite it to.  It copies   *)
(* what moved from the image of the base frame and what is dirty from the  *)
(* new frame.                                                              *)
(*                                                                         *)
(* The moves of one duplicated frame all read the image before it; that is *)
(* how build_damage uses them.  A pixel is the value it shows: the screen  *)
(* is a function from pixels to values, all different at first.            *)
(***************************************************************************)
EXTENDS DuplicationDamage, DirtyTracker

CONSTANTS
    Configurations,      \* captures a user asks for
    DuplicatedFrames(_), \* <<moves, dirty>> a duplicated frame may report
    SourceDirt(_),       \* sequences of dirty rectangles WGC may report
    TileChanges(_),      \* sets of pixels that change between CPU frames
    Pointers(_),         \* [x, w, hot]: pointers seen, one axis
    MaxFrames            \* bound: frames after the first

VARIABLES
    config,     \* what is captured and published
    screen,     \* external: the source
    copy,       \* the consumer's image
    base,       \* and the one it had of the frame before
    damage,     \* damage of the last frame
    moved,      \* external: the move that made the last frame, if any
    tracker,    \* DirtyTracker::previous_hashes_
    cursor,     \* the cursor of the last frame
    frames      \* frames published

\* A capture: its source, the part of the desktop the user sees that is
\* captured, and the output (create_duplication_session, validate_region,
\* bus_output_matches).  Neither WGC nor a CPU session rotates, and a CPU
\* session captures all of its surface.
ASSUME CapturesAssumption ==
    \A c \in Configurations :
        /\ {c.surface.w, c.surface.h, c.out.w, c.out.h} \subseteq Nat \ {0}
        /\ {c.planar, c.deterministic, c.cursor} \subseteq BOOLEAN
        /\ c.backend \in {"duplication", "wgc", "cpu"}
        /\ c.rotation \in Rotations
        /\ c.backend # "duplication" => c.rotation = 0
        /\ c.region \in RectType
        /\ InBounds(c.region,
                    LogicalWidth(c.rotation, c.surface.w, c.surface.h),
                    LogicalHeight(c.rotation, c.surface.w, c.surface.h))
        /\ c.backend = "cpu" =>
              /\ c.region = Rect(0, 0, c.surface.w, c.surface.h)
              /\ c.out = c.surface /\ ~c.planar

\* What the sources report: rectangles of the surface from DXGI, whose moves
\* keep their size; any rectangles from WGC; a hot spot in the shape.
ASSUME ReportsAssumption ==
    \A c \in Configurations :
        LET rects == {r \in RectType : InBounds(r, c.surface.w, c.surface.h)}
        IN  /\ \A report \in DuplicatedFrames(c) :
                  /\ report[1] \in Seq([from : rects, to : rects])
                  /\ \A i \in DOMAIN report[1] :
                        /\ report[1][i].from.w = report[1][i].to.w
                        /\ report[1][i].from.h = report[1][i].to.h
                  /\ report[2] \in Seq(rects)
            /\ SourceDirt(c) \subseteq Seq(RectType)
            /\ \A p \in Pointers(c) :
                  p.x \in Int /\ p.w \in Nat \ {0} /\ p.hot \in 0..(p.w - 1)

ASSUME FramesAssumption == MaxFrames \in Nat

vars == <<config, screen, base, copy, damage, moved, tracker, cursor, frames>>

-----------------------------------------------------------------------------
(* Configurations.                                                         *)

\* create_duplication_session, bus_output_matches: outputs that are refused.
Accepted(c) ==
    /\ c.planar => ValidGeometry(GeometryOf(c))
    /\ ~c.planar => ~Scaled(GeometryOf(c))
    /\ c.cursor => PhaseInvariant(GeometryOf(c))
    /\ c.rotation # 0 => ~Deterministic(c)

-----------------------------------------------------------------------------
(* External: what the GPU draws, the shader of src/gpu/gpu_transform.cpp,  *)
(* or VideoProcessor at scale 1.                                           *)

PixelsOf(w, h) == (0..(w - 1)) \X (0..(h - 1))
OutputPixels(c) == PixelsOf(c.out.w, c.out.h)
Blocks(c) ==
    IF c.planar THEN PixelsOf(c.out.w \div 2, c.out.h \div 2) ELSE {}

\* The pixel of the surface at (x, y) of the region.
SurfacePixel(c, x, y) ==
    LET r == ToSurface(c.region, c.surface.w, c.surface.h, c.rotation)
    IN  CASE c.rotation = 0 -> <<r.x + x, r.y + y>>
          [] c.rotation = 90 -> <<r.x + y, Bottom(r) - 1 - x>>
          [] c.rotation = 180 -> <<Right(r) - 1 - x, Bottom(r) - 1 - y>>
          [] c.rotation = 270 -> <<Right(r) - 1 - y, r.y + x>>

\* load_output_rgb and ps_uv: the luma of each pixel and the pixels whose
\* colours are averaged in each chroma sample.
Render(c, image) ==
    LET shown == [p \in OutputPixels(c) |->
                    image[SurfacePixel(c,
                            PointTap(p[1], c.region.w, c.out.w),
                            PointTap(p[2], c.region.h, c.out.h))]]
    IN  [luma |-> shown,
         chroma |-> [b \in Blocks(c) |->
            [i \in {0, 1} \X {0, 1} |->
                shown[<<2 * b[1] + i[1], 2 * b[2] + i[2]>>]]]]

-----------------------------------------------------------------------------
(* External: the consumer.                                                 *)

Covers(r, p) ==
    /\ r.x <= p[1] /\ p[1] < Right(r)
    /\ r.y <= p[2] /\ p[2] < Bottom(r)

\* A rectangle brings the chroma samples whose four pixels are in it.
CoversBlock(r, b) ==
    /\ Covers(r, <<2 * b[1], 2 * b[2]>>)
    /\ Covers(r, <<2 * b[1] + 1, 2 * b[2] + 1>>)

\* The moves into a pixel or a block; the last one counts.
Into(moves, p) == {i \in DOMAIN moves : Covers(moves[i].to, p)}
IntoBlock(moves, b) == {i \in DOMAIN moves : CoversBlock(moves[i].to, b)}
Latest(set) == CHOOSE i \in set : \A j \in set : j <= i

\* What the last move into a pixel brings there; old if there is none.
ReplayMoves(moves, from, old, c) ==
    LET pixel(m, p) == <<p[1] - m.to.x + m.x, p[2] - m.to.y + m.y>>
        block(m, b) == <<(2 * b[1] - m.to.x + m.x) \div 2,
                         (2 * b[2] - m.to.y + m.y) \div 2>>
    IN  [luma |-> [p \in OutputPixels(c) |->
                    IF Into(moves, p) = {} THEN old.luma[p]
                    ELSE from.luma[pixel(moves[Latest(Into(moves, p))], p)]],
         chroma |-> [b \in Blocks(c) |->
                    IF IntoBlock(moves, b) = {} THEN old.chroma[b]
                    ELSE from.chroma[block(moves[Latest(IntoBlock(moves, b))],
                                           b)]]]

CopyDirty(dirty, frame, old, c) ==
    [luma |-> [p \in OutputPixels(c) |->
                IF \E i \in DOMAIN dirty : Covers(dirty[i], p)
                THEN frame.luma[p] ELSE old.luma[p]],
     chroma |-> [b \in Blocks(c) |->
                IF \E i \in DOMAIN dirty : CoversBlock(dirty[i], b)
                THEN frame.chroma[b] ELSE old.chroma[b]]]

Replay(d, frame, old, c) ==
    CopyDirty(d.dirty, frame, ReplayMoves(d.moves, old, old, c), c)

-----------------------------------------------------------------------------
(* Init and actions.                                                       *)

Surface(c) == PixelsOf(c.surface.w, c.surface.h)
NoImage == [luma |-> <<>>, chroma |-> <<>>]
NoCursor == [seen |-> FALSE]

Init ==
    /\ config \in {c \in Configurations : Accepted(c)}
    /\ screen = [p \in Surface(config) |-> [at |-> p, frame |-> 0]]
    /\ base = NoImage /\ copy = NoImage
    /\ damage = NoDamage /\ moved = <<>>
    /\ tracker = NoBaseline
    /\ cursor = NoCursor
    /\ frames = 0

\* A frame with damage d, of an image that has become `image`.
Publish(image, d) ==
    /\ screen' = image
    /\ damage' = d
    /\ base' = copy
    /\ copy' = IF d.full
               THEN Render(config, image)
               ELSE Replay(d, Render(config, image), copy, config)
    /\ frames' = frames + 1
    /\ UNCHANGED config

\* The image after the moves and dirty rectangles of a surface.
AfterMoves(moves, image) ==
    LET pixel(m, p) == <<p[1] - m.to.x + m.from.x, p[2] - m.to.y + m.from.y>>
    IN  [p \in DOMAIN image |->
            IF Into(moves, p) = {} THEN image[p]
            ELSE image[pixel(moves[Latest(Into(moves, p))], p)]]

AfterDirt(set, image) ==
    [p \in DOMAIN image |->
        IF p \in set THEN [at |-> p, frame |-> frames] ELSE image[p]]

Dirtied(dirty, image) ==
    {p \in DOMAIN image : \E i \in DOMAIN dirty : Covers(dirty[i], p)}

\* The first frame of a capture is whole: first_frame, sequence = 0.
FirstFrame ==
    /\ frames = 0
    /\ config.backend # "cpu"
    /\ Publish(screen, FullDamage(config, FALSE))
    /\ moved' = <<>>
    /\ UNCHANGED <<tracker, cursor>>

\* process_frame
DuplicatedFrame ==
    /\ config.backend = "duplication" /\ frames \in 1..MaxFrames
    /\ \E report \in DuplicatedFrames(config) :
          /\ Publish(AfterDirt(Dirtied(report[2], screen),
                               AfterMoves(report[1], screen)),
                     BuildDamage(report[1], report[2], config))
          /\ moved' = report[1]
    /\ UNCHANGED <<tracker, cursor>>

\* handle_frame: a scroll is reported as dirty, and inferred later.
CapturedFrame ==
    /\ config.backend = "wgc" /\ frames \in 1..MaxFrames
    /\ \E dirty \in SourceDirt(config) :
          /\ Publish(AfterDirt(Dirtied(dirty, screen), screen),
                     CurrentDamage(dirty, config))
          /\ moved' = <<>>
    /\ UNCHANGED <<tracker, cursor>>

ScrolledFrame ==
    /\ config.backend = "wgc" /\ frames \in 1..MaxFrames
    /\ \E report \in DuplicatedFrames(config) :
          /\ Len(report[1]) = 1
          /\ Publish(AfterMoves(report[1], screen),
                     CurrentDamage(<<report[1][1].to>>, config))
          /\ moved' = report[1]
    /\ UNCHANGED <<tracker, cursor>>

\* drain_move_results_locked: the move inferred arrives, relative to the
\* region, and the consumer replays it over its image of the frame.
InferredMove ==
    /\ config.backend = "wgc" /\ moved # <<>>
    /\ LET m == moved[1]
           inferred == Move(m.from.x - config.region.x,
                            m.from.y - config.region.y,
                            Rect(m.to.x - config.region.x,
                                 m.to.y - config.region.y, m.to.w, m.to.h))
           moves == AmendedMoves(<<inferred>>, config)
       IN  /\ InBounds(inferred.to, config.region.w, config.region.h)
           /\ InBounds(Rect(inferred.x, inferred.y, m.to.w, m.to.h),
                       config.region.w, config.region.h)
           /\ damage' = [damage EXCEPT !.moves = moves]
           /\ copy' = ReplayMoves(moves, base, copy, config)
    /\ moved' = <<>>
    /\ UNCHANGED <<config, screen, base, tracker, cursor, frames>>

\* capture_into with the dirty tracker of a CPU session.
TrackedFrame ==
    /\ config.backend = "cpu" /\ frames <= MaxFrames
    /\ \E set \in TileChanges(config) :
          LET image == AfterDirt(set, screen)
              w == config.surface.w
              h == config.surface.h
              rects == Analyze(tracker, image, w, h)
          IN  /\ tracker' = TileHashes(image, w, h)
              /\ Publish(image,
                         [NoDamage EXCEPT !.dirty = rects,
                                          !.full = tracker = NoBaseline])
    /\ moved' = <<>>
    /\ UNCHANGED cursor

\* build_cursor: a frame for the pointer alone, one axis of it; its
\* position names the hot spot.
PointerFrame ==
    /\ config.cursor /\ frames \in 1..MaxFrames
    /\ Publish(screen, IF config.backend = "duplication"
                       THEN BuildDamage(<<>>, <<>>, config)
                       ELSE CurrentDamage(<<>>, config))
    /\ moved' = <<>>
    /\ \E p \in Pointers(config) :
          LET g == GeometryOf(config)
          IN  cursor' = [seen |-> TRUE, at |-> p,
                         x |-> ScaleNearest(p.x - config.region.x,
                                            g.sw, g.ow),
                         shape |-> ScaleShapeAxis(p.w, p.hot, g.sw, g.ow)]
    /\ UNCHANGED tracker

Next ==
    \/ FirstFrame
    \/ DuplicatedFrame
    \/ CapturedFrame
    \/ ScrolledFrame
    \/ InferredMove
    \/ TrackedFrame
    \/ PointerFrame

Spec == Init /\ [][Next]_vars

-----------------------------------------------------------------------------
(* Properties.                                                             *)

\* A consumer that only replays the damage of each frame has the image of
\* the frame: every pixel and chroma sample that depends on a source pixel
\* that changed is covered by a dirty rectangle, or by a move that brings
\* exactly what is there (side_data_geometry.hpp, build_damage, analyze).
DamageReplays == frames > 0 => copy = Render(config, screen)

\* valid_bus_rect, normalize_side_data: what the bus demands of damage.
ValidBusRect(r, c) == InBounds(r, c.out.w, c.out.h)
BusAccepts(d, c) ==
    /\ Len(d.dirty) <= MaxDirtyRects /\ Len(d.moves) <= MaxMoveRects
    /\ d.full => d.dirty = <<FullFrame(c)>>
    /\ \A i \in DOMAIN d.dirty : ValidBusRect(d.dirty[i], c)
    /\ \A i \in DOMAIN d.moves :
          LET m == d.moves[i]
          IN  /\ ValidBusRect(m.to, c)
              /\ ValidBusRect(Rect(m.x, m.y, m.to.w, m.to.h), c)

\* The bus never refuses a frame for the damage a back end built for it:
\* a refused commit would lose the frame (normalize_side_data).
DamageAccepted == config.backend # "cpu" => BusAccepts(damage, config)

\* The scaled cursor, drawn at its scaled position, covers in every pixel
\* of the output what the cursor covers in the source pixel shown there.
CursorFollows ==
    cursor.seen =>
        \A o \in 0..(config.out.w - 1) :
            LET g == GeometryOf(config)
                drawn == o - (cursor.x - cursor.shape.hotspot)
                pixel == PointTap(o, g.sw, g.ow)
                            - (cursor.at.x - config.region.x - cursor.at.hot)
            IN  IF pixel \in 0..(cursor.at.w - 1)
                THEN /\ drawn \in DOMAIN cursor.shape.shows
                     /\ cursor.shape.shows[drawn] = pixel
                ELSE drawn \notin DOMAIN cursor.shape.shows

=============================================================================
