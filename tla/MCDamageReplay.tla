--------------------------- MODULE MCDamageReplay ---------------------------
(* Captures of small surfaces, and every frame they may report. *)
EXTENDS DamageReplay

Capture(backend, w, h, rotation, region, ow, oh, planar, metadata) ==
    [backend |-> backend, surface |-> [w |-> w, h |-> h],
     rotation |-> rotation, region |-> region, out |-> [w |-> ow, h |-> oh],
     planar |-> planar, deterministic |-> planar /\ rotation = 0,
     cursor |-> metadata]

\* Scaled planar outputs with moves of exact and of fractional length, 1:1
\* outputs in every rotation, odd regions, and outputs that are refused.
MCConfigurations ==
    {Capture("duplication", 7, 4, 0, Rect(1, 0, 6, 4), 8, 4, TRUE, FALSE),
     Capture("duplication", 6, 2, 0, Rect(0, 0, 6, 2), 18, 6, TRUE, TRUE),
     Capture("duplication", 8, 2, 0, Rect(0, 0, 8, 2), 4, 2, TRUE, FALSE),
     Capture("duplication", 3, 4, 90, Rect(1, 0, 3, 2), 3, 2, FALSE, TRUE),
     Capture("duplication", 4, 3, 180, Rect(0, 1, 4, 2), 4, 2, TRUE, TRUE),
     Capture("duplication", 3, 5, 270, Rect(1, 1, 4, 2), 4, 2, TRUE, FALSE),
     Capture("duplication", 4, 4, 0, Rect(0, 0, 4, 4), 6, 4, TRUE, TRUE),
     Capture("duplication", 4, 4, 0, Rect(0, 0, 3, 3), 3, 3, TRUE, FALSE),
     Capture("wgc", 5, 4, 0, Rect(1, 0, 4, 3), 4, 4, TRUE, FALSE),
     Capture("wgc", 4, 4, 0, Rect(0, 0, 4, 4), 4, 4, TRUE, TRUE),
     Capture("wgc", 3, 3, 0, Rect(1, 1, 2, 2), 2, 2, FALSE, FALSE),
     Capture("cpu", 5, 5, 0, Rect(0, 0, 5, 5), 5, 5, FALSE, FALSE)}

RectsOf(w, h) ==
    {r \in [x : 0..(w - 1), y : 0..(h - 1), w : 1..w, h : 1..h] :
        Right(r) <= w /\ Bottom(r) <= h}

MovesOf(c) ==
    LET rects == RectsOf(c.surface.w, c.surface.h)
    IN  {[from |-> p[1], to |-> p[2]] :
            p \in {q \in rects \X rects :
                      q[1].w = q[2].w /\ q[1].h = q[2].h /\ q[1] # q[2]}}

\* Wide moves, of all rows, for frames with more than one rectangle.
WideMoves(c) == {m \in MovesOf(c) : m.to.h = c.surface.h /\ m.to.w > 2}
Corners(c) == {Rect(0, 0, 1, 1), Rect(c.surface.w - 2, 0, 2, 1)}

MCDuplicatedFrames(c) ==
    {<<<<m>>, <<>>>> : m \in MovesOf(c)}
        \cup {<<<<>>, <<r>>>> : r \in RectsOf(c.surface.w, c.surface.h)}
        \cup {<<<<m, n>>, dirty>> :
                m \in WideMoves(c), n \in {w \in MovesOf(c) : w.to.w = 2},
                dirty \in {<<>>, <<Rect(c.surface.w - 2, 0, 2, 1)>>}}
        \cup {<<<<>>, <<r, r, r, r, r>>>> : r \in Corners(c)}

\* Rectangles that may reach out of the source, as WGC reports them.
MCSourceDirt(c) ==
    {<<r>> : r \in [x : -1..2, y : -1..2, w : 1..3, h : 1..3]}
        \cup {<<r, r, r, r, r>> : r \in Corners(c)}

\* One pixel of any set of tiles.
MCTileChanges(c) ==
    SUBSET {p \in PixelsOf(c.surface.w, c.surface.h) :
                p[1] % 2 = 0 /\ p[2] % 2 = 0}

MCPointers(c) == {p \in [x : -1..c.surface.w, w : 1..3, hot : 0..2] :
                    p.hot < p.w}
=============================================================================
