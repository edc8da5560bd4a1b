----------------------------- MODULE DirtyTracker -----------------------------
(***************************************************************************)
(* The dirty rectangles of CPU capture (src/dirty_tracker.cpp): the hash   *)
(* of every tile is compared with the previous frame's, and runs of        *)
(* changed tiles are merged with the same run of the row above.            *)
(*                                                                         *)
(* A tile's hash is its contents: two contents never share a hash.         *)
(***************************************************************************)
EXTENDS SideDataGeometry

CONSTANT TileSize   \* tile_size_

ASSUME TileAssumption == TileSize \in Nat \ {0}

\* configure
TileCount(extent) == (extent + TileSize - 1) \div TileSize

\* No baseline, as configure and reset leave it.
NoBaseline == <<>>

\* The contents of every tile of an image, a function from pixels.
TilePixels(tile, w, h) ==
    {p \in (0..(w - 1)) \X (0..(h - 1)) :
        p[1] \div TileSize = tile[1] /\ p[2] \div TileSize = tile[2]}
TileHashes(image, w, h) ==
    [tile \in (0..(TileCount(w) - 1)) \X (0..(TileCount(h) - 1)) |->
        [p \in TilePixels(tile, w, h) |-> image[p]]]

\* Adds a run of changed tiles of a row, <<first, end>>, to the rectangles:
\* s holds these, by the runs of the row above and of this one.  A run of
\* the row above with the same ends has its rectangle extended.
AddRun(s, run, row, w, h) ==
    LET top == row * TileSize
        bottom == AtMost(h, top + TileSize)
        same == run \in DOMAIN s.previous
        index == IF same THEN s.previous[run] ELSE Len(s.rects) + 1
        added == Within(run[1] * TileSize, top,
                        AtMost(w, run[2] * TileSize), bottom)
        rects == IF same THEN [s.rects EXCEPT ![index].h = @ + bottom - top]
                 ELSE Append(s.rects, added)
    IN  [s EXCEPT
            !.rects = rects,
            !.current = [r \in DOMAIN @ \cup {run} |->
                            IF r = run THEN index ELSE @[r]]]

\* The next tile of a row: the run that it may be in begins at s.first, and
\* ends after it unless the tile on its right has changed as well.
AddTile(s, column, row, changed, w, h) ==
    IF <<column, row>> \in changed /\ <<column + 1, row>> \in changed THEN s
    ELSE LET added == IF <<column, row>> \in changed
                      THEN AddRun(s, <<s.first, column + 1>>, row, w, h)
                      ELSE s
         IN  [added EXCEPT !.first = column + 1]

AddRow(s, row, changed, w, h) ==
    LET after[column \in 0..TileCount(w)] ==
            IF column = 0
            THEN [s EXCEPT !.previous = s.current, !.current = <<>>, !.first = 0]
            ELSE AddTile(after[column - 1], column - 1, row, changed, w, h)
    IN  after

AddRows(changed, w, h) ==
    LET after[row \in 0..TileCount(h)] ==
            IF row = 0
            THEN [rects |-> <<>>, previous |-> <<>>, current |-> <<>>,
                  first |-> 0]
            ELSE AddRow(after[row - 1], row - 1, changed, w, h)[TileCount(w)]
    IN  after

\* analyze: the rectangles of what changed since the image that `baseline`
\* holds the hashes of.
Analyze(baseline, image, w, h) ==
    LET hashes == TileHashes(image, w, h)
        changed == {tile \in DOMAIN hashes : hashes[tile] # baseline[tile]}
    IN  IF baseline = NoBaseline THEN <<Rect(0, 0, w, h)>>
        ELSE AddRows(changed, w, h)[TileCount(h)].rects

=============================================================================
