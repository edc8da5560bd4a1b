-------------------------- MODULE DamageReplayProofs --------------------------
(***************************************************************************)
(* A consumer that replays damage has the image of every frame, for every  *)
(* surface, region, scale, rotation and sequence of reports.               *)
(*                                                                         *)
(* An output pixel shows one pixel of the surface, its tap.  A dirty       *)
(* rectangle maps to all the pixels whose taps are in it (the binary       *)
(* search of planar_map_rect, the support of the bilinear filter); a move  *)
(* to pixels whose taps are displaced alike, and to strips around them.    *)
(* By induction on the rectangles of a report, the damage of a frame       *)
(* accounts for everything that moved or became dirty, and by induction on *)
(* the tiles of an image, the rectangles of a CPU frame cover every pixel  *)
(* whose tile changed.                                                     *)
(*                                                                         *)
(* Recursion is unfolded as the recursive functions of the model define    *)
(* it; induction is that of sets of naturals (SetInduction).               *)
(***************************************************************************)
EXTENDS DamageReplay, TLAPS, FiniteSetTheorems, WellFoundedInduction,
        SequenceTheorems

-----------------------------------------------------------------------------
(* Arithmetic.                                                             *)

\* The quotient is the only q with b * q <= a < b * (q + 1).
LEMMA DivUnique ==
  ASSUME NEW a \in Int, NEW b \in Nat \ {0}, NEW q \in Int,
         b * q <= a, a < b * q + b
  PROVE  a \div b = q
  OBVIOUS

\* The quotient, by its defining bounds.
LEMMA DivBounds ==
  ASSUME NEW a \in Int, NEW b \in Nat \ {0}
  PROVE  /\ a \div b \in Int
         /\ b * (a \div b) <= a
         /\ a < b * (a \div b) + b
  OBVIOUS

\* A multiple that is a multiple of the divisor.
LEMMA DivExact ==
  ASSUME NEW q \in Int, NEW b \in Nat \ {0}
  PROVE  (b * q) \div b = q /\ (b * q) % b = 0
  OBVIOUS

\* A multiple is its quotient times the divisor.
LEMMA ModZero ==
  ASSUME NEW a \in Int, NEW b \in Nat \ {0}, a % b = 0
  PROVE  a = b * (a \div b)
  OBVIOUS

-----------------------------------------------------------------------------
(* Cursors: each pixel of the source becomes k pixels of the output.       *)

\* Every pixel of the source becomes k pixels when the scale is k.
LEMMA TapOfWhole ==
  ASSUME NEW s \in Nat \ {0}, NEW k \in Nat \ {0}, NEW o \in 0 .. (k * s - 1)
  PROVE  PointTap(o, s, k * s) = o \div k
<1> DEFINE q == o \div k
<1>1. q \in Int /\ k * q <= o /\ o < k * q + k
  BY DivBounds
<1>2. (2 * o + 1) * s >= 2 * (k * s) * q
  <2>1. 2 * o + 1 >= 2 * (k * q)
    BY <1>1
  <2>2. (2 * o + 1) * s >= 2 * (k * q) * s
    BY <1>1, <2>1
  <2> QED BY <1>1, <2>2
<1>3. (2 * o + 1) * s < 2 * (k * s) * q + 2 * (k * s)
  <2>1. 2 * o + 1 < 2 * (k * q) + 2 * k
    BY <1>1
  <2>2. (2 * o + 1) * s < (2 * (k * q) + 2 * k) * s
    BY <1>1, <2>1
  <2> QED BY <1>1, <2>2
<1>4. ((2 * o + 1) * s) \div (2 * (k * s)) = q
  <2>1. (2 * o + 1) * s \in Int /\ 2 * (k * s) \in Nat \ {0}
    OBVIOUS
  <2> QED BY <1>1, <1>2, <1>3, <2>1, DivUnique
<1>5. q <= s - 1
  <2>1. k * q < k * s
    BY <1>1
  <2> QED BY <1>1, <2>1
<1> QED BY <1>4, <1>5 DEF PointTap, AtMost

\* What scale_nearest computes with, at scale k.
LEMMA WholeParts ==
  ASSUME NEW s \in Nat \ {0}, NEW k \in Nat \ {0}, NEW m \in Nat
  PROVE  /\ ((m % s) * (k * s)) \div s = (m % s) * k
         /\ ((m % s) * (k * s)) % s = 0
         /\ (m \div s) * (k * s) + (m % s) * k = m * k
<1> DEFINE q == m \div s
           r == m % s
<1>1. q \in Nat /\ r \in Nat /\ m = s * q + r
  OBVIOUS
<1> HIDE DEF q, r
<1>2. r * (k * s) = s * (r * k) /\ r * k \in Int
  BY <1>1
<1>3. (r * (k * s)) \div s = r * k /\ (r * (k * s)) % s = 0
  BY <1>2, DivExact
<1>4. q * (k * s) + r * k = (s * q + r) * k
  BY <1>1
<1> QED BY <1>1, <1>3, <1>4 DEF q, r

\* scale_nearest multiplies when the scale is whole.
LEMMA NearestOfWhole ==
  ASSUME NEW s \in Nat \ {0}, NEW k \in Nat \ {0}, NEW c \in Int
  PROVE  ScaleNearest(c, s, k * s) = c * k
<1>1. ASSUME NEW m \in Nat
      PROVE  (m \div s) * (k * s)
               + (((m % s) * (k * s)) \div s
                    + (IF (((m % s) * (k * s)) % s) * 2 >= s THEN 1 ELSE 0))
             = m * k
  <2> DEFINE f == (m % s) * (k * s)
  <2>1. /\ f \div s = (m % s) * k /\ f % s = 0
        /\ (m \div s) * (k * s) + (m % s) * k = m * k
    BY WholeParts
  <2>2. (m % s) * k \in Int /\ (m \div s) * (k * s) \in Int
    OBVIOUS
  <2> HIDE DEF f
  <2>3. (IF (f % s) * 2 >= s THEN 1 ELSE 0) = 0
    BY <2>1
  <2>4. f \div s + (IF (f % s) * 2 >= s THEN 1 ELSE 0) = (m % s) * k
    BY <2>1, <2>2, <2>3
  <2> QED BY <2>1, <2>4 DEF f
<1>2. CASE c < 0
  <2>1. Magnitude(c) = -c /\ -c \in Nat
    BY <1>2 DEF Magnitude
  <2>2. ScaleNearest(c, s, k * s) = -((-c) * k)
    BY <1>1, <1>2, <2>1 DEF ScaleNearest
  <2> QED BY <2>2
<1>3. CASE ~(c < 0)
  <2>1. Magnitude(c) = c /\ c \in Nat
    BY <1>3 DEF Magnitude
  <2> QED BY <1>1, <1>3, <2>1 DEF ScaleNearest
<1> QED BY <1>2, <1>3

\* A shape of w pixels, each shown k times.
Repeated(shape, w, hot, k) ==
  /\ shape.hotspot = hot * k
  /\ DOMAIN shape.shows = 0 .. (w * k - 1)
  /\ \A o \in 0 .. (w * k - 1) : shape.shows[o] = o \div k

\* The shape's pixels are repeated, its hot spot with them.
LEMMA ShapeOfWhole ==
  ASSUME NEW s \in Nat \ {0}, NEW k \in Nat \ {0}, NEW w \in Nat \ {0},
         NEW hot \in 0 .. (w - 1)
  PROVE  Repeated(ScaleShapeAxis(w, hot, s, k * s), w, hot, k)
<1>1. ScaleCeil(w, s, k * s) = w * k
  <2>1. w * (k * s) + s - 1 \in Int /\ w * k \in Int
        /\ s * (w * k) <= w * (k * s) + s - 1
        /\ w * (k * s) + s - 1 < s * (w * k) + s
    OBVIOUS
  <2> QED BY <2>1, DivUnique DEF ScaleCeil
<1>2. hot * k <= w * k - 1 /\ hot * k \in Nat /\ w * k \in Nat
  OBVIOUS
<1>3. ASSUME NEW o \in 0 .. (w * k - 1)
      PROVE  AtMost(w - 1, (o * s) \div (k * s)) = o \div k
  <2> DEFINE q == o \div k
  <2>1. q \in Int /\ k * q <= o /\ o < k * q + k
    BY DivBounds
  <2>2. (o * s) \div (k * s) = q
    <3>1. o * s >= (k * q) * s
      BY <2>1
    <3>2. o * s < (k * q + k) * s
      BY <2>1
    <3>3. (k * s) * q <= o * s /\ o * s < (k * s) * q + k * s
      BY <2>1, <3>1, <3>2
    <3>4. o * s \in Int /\ k * s \in Nat \ {0}
      OBVIOUS
    <3> QED BY <2>1, <3>3, <3>4, DivUnique
  <2>3. q <= w - 1
    <3>1. k * q < k * w
      BY <2>1
    <3> QED BY <2>1, <3>1
  <2> QED BY <2>1, <2>2, <2>3 DEF AtMost
<1>4. ScaleNearest(hot, s, k * s) = hot * k
  <2>1. hot \in Int
    OBVIOUS
  <2> QED BY <2>1, NearestOfWhole
<1>5. AtMost(w * k - 1, hot * k) = hot * k
  BY <1>2 DEF AtMost
<1>6. ScaleShapeAxis(w, hot, s, k * s) =
        [extent |-> w * k, hotspot |-> hot * k,
         shows |-> [o \in 0 .. (w * k - 1) |->
                      AtMost(w - 1, (o * s) \div (k * s))]]
  BY <1>1, <1>4, <1>5 DEF ScaleShapeAxis
<1> DEFINE shape == ScaleShapeAxis(w, hot, s, k * s)
           shows == [o \in 0 .. (w * k - 1) |->
                      AtMost(w - 1, (o * s) \div (k * s))]
<1>7. shape.hotspot = hot * k /\ shape.shows = shows
  BY <1>6
<1>8. /\ DOMAIN shows = 0 .. (w * k - 1)
      /\ \A o \in 0 .. (w * k - 1) : shows[o] = o \div k
  BY <1>3
<1> HIDE DEF shape, shows
<1>9. /\ shape.hotspot = hot * k
      /\ DOMAIN shape.shows = 0 .. (w * k - 1)
      /\ \A o \in 0 .. (w * k - 1) : shape.shows[o] = o \div k
  BY <1>7, <1>8
<1> QED BY <1>9 DEF shape, Repeated

\* The pixels that a cursor covers, and what each shows of it.
LEMMA CursorPixels ==
  ASSUME NEW k \in Nat \ {0}, NEW w \in Nat \ {0}, NEW t \in Int,
         NEW o \in Int
  PROVE  /\ o - t * k \in 0 .. (w * k - 1) <=> o \div k - t \in 0 .. (w - 1)
         /\ (o - t * k) \div k = o \div k - t
<1> DEFINE q == o \div k
<1>1. q \in Int /\ k * q <= o /\ o < k * q + k
  BY DivBounds
<1> HIDE DEF q
<1>2. /\ k * (q - t) <= o - t * k /\ o - t * k < k * (q - t) + k
      /\ q - t \in Int /\ o - t * k \in Int
  BY <1>1
<1>3. (o - t * k) \div k = q - t
  BY <1>2, DivUnique
<1>4. ASSUME NEW a \in Int, NEW b \in Int, k * a <= b, b < k * a + k
      PROVE  b \in 0 .. (w * k - 1) <=> a \in 0 .. (w - 1)
  <2>1. ASSUME a >= 0 PROVE b >= 0
    <3>1. k * a >= 0
      BY <2>1
    <3> QED BY <1>4, <3>1
  <2>2. ASSUME a <= -1 PROVE b < 0
    <3>1. k * a <= -k
      BY <2>2
    <3> QED BY <1>4, <3>1
  <2>3. ASSUME a <= w - 1 PROVE b < w * k
    <3>1. k * a + k <= w * k
      BY <2>3
    <3> QED BY <1>4, <3>1
  <2>4. ASSUME a >= w PROVE b >= w * k
    <3>1. k * a >= w * k
      BY <2>4
    <3> QED BY <1>4, <3>1
  <2> QED BY <2>1, <2>2, <2>3, <2>4
<1>5. o - t * k \in 0 .. (w * k - 1) <=> q - t \in 0 .. (w - 1)
  BY <1>2, <1>4
<1> QED BY <1>3, <1>5 DEF q

ConfigInv == config \in Configurations /\ Accepted(config)

\* A pointer, drawn in a capture whose cursor does not depend on the phase.
LEMMA PointerDrawn ==
  ASSUME NEW c \in Configurations, Accepted(c), c.cursor, NEW p \in Pointers(c),
         NEW o \in 0 .. (c.out.w - 1)
  PROVE  LET g == GeometryOf(c)
             x == ScaleNearest(p.x - c.region.x, g.sw, g.ow)
             shape == ScaleShapeAxis(p.w, p.hot, g.sw, g.ow)
             drawn == o - (x - shape.hotspot)
             pixel == PointTap(o, g.sw, g.ow) - (p.x - c.region.x - p.hot)
         IN  IF pixel \in 0 .. (p.w - 1)
             THEN /\ drawn \in DOMAIN shape.shows
                  /\ shape.shows[drawn] = pixel
             ELSE drawn \notin DOMAIN shape.shows
<1> DEFINE s == c.region.w
           n == c.out.w
           k == n \div s
           x == p.x - c.region.x
           shape == ScaleShapeAxis(p.w, p.hot, s, n)
           t == x - p.hot
<1>1. /\ s \in Nat /\ n \in Nat \ {0} /\ x \in Int
      /\ p.w \in Nat \ {0} /\ p.hot \in 0 .. (p.w - 1)
  BY CapturesAssumption, ReportsAssumption DEF RectType
<1>2. s > 0 /\ n % s = 0
  BY DEF Accepted, PhaseInvariant, ValidGeometry, GeometryOf
<1>3. k \in Nat \ {0} /\ n = k * s
  <2> HIDE DEF s, n
  <2>1. s \in Nat \ {0} /\ n \in Int
    BY <1>1, <1>2
  <2>2. n = s * (n \div s) /\ n \div s \in Int
    BY <1>2, <2>1, ModZero
  <2>3. n \div s > 0
    BY <1>1, <2>1, <2>2
  <2> QED BY <2>1, <2>2, <2>3
<1>4. GeometryOf(c).sw = s /\ GeometryOf(c).ow = n
  BY DEF GeometryOf
<1>5. o \in 0 .. (k * s - 1)
  BY <1>3
<1> HIDE DEF s, n, k, x
<1>a. s \in Nat \ {0}
  BY <1>1, <1>2
<1>6. PointTap(o, s, n) = o \div k
  BY <1>a, <1>3, <1>5, TapOfWhole
<1>7. ScaleNearest(x, s, n) = x * k
  BY <1>a, <1>1, <1>3, NearestOfWhole
<1>8. /\ shape.hotspot = p.hot * k
      /\ DOMAIN shape.shows = 0 .. (p.w * k - 1)
      /\ \A i \in 0 .. (p.w * k - 1) : shape.shows[i] = i \div k
  <2>1. n = k * s
    BY <1>3
  <2>2. Repeated(ScaleShapeAxis(p.w, p.hot, s, k * s), p.w, p.hot, k)
    BY <1>a, <1>1, <1>3, ShapeOfWhole
  <2> QED BY <2>1, <2>2 DEF Repeated
<1> HIDE DEF shape
<1>9. t \in Int /\ o - (x * k - p.hot * k) = o - t * k
  BY <1>1, <1>3
<1> HIDE DEF t
<1>10. /\ o - t * k \in 0 .. (p.w * k - 1) <=> o \div k - t \in 0 .. (p.w - 1)
       /\ (o - t * k) \div k = o \div k - t
  <2>1. o \in Int /\ k \in Nat \ {0} /\ p.w \in Nat \ {0} /\ t \in Int
    BY <1>1, <1>3, <1>9
  <2> QED BY <2>1, CursorPixels
<1>11. IF o \div k - t \in 0 .. (p.w - 1)
       THEN /\ o - t * k \in DOMAIN shape.shows
            /\ shape.shows[o - t * k] = o \div k - t
       ELSE o - t * k \notin DOMAIN shape.shows
  BY <1>8, <1>10
<1>12. IF PointTap(o, s, n) - (x - p.hot) \in 0 .. (p.w - 1)
       THEN /\ o - (ScaleNearest(x, s, n) - shape.hotspot) \in DOMAIN shape.shows
            /\ shape.shows[o - (ScaleNearest(x, s, n) - shape.hotspot)]
                 = PointTap(o, s, n) - (x - p.hot)
       ELSE o - (ScaleNearest(x, s, n) - shape.hotspot) \notin DOMAIN shape.shows
  BY <1>6, <1>7, <1>8, <1>9, <1>11 DEF t
<1> QED BY <1>4, <1>12 DEF shape, x

\* A capture keeps its configuration.
LEMMA ConfigKept == Spec => []ConfigInv
<1>1. Init => ConfigInv
  BY DEF Init, ConfigInv
<1>2. ConfigInv /\ [Next]_vars => ConfigInv'
  <2>1. ASSUME [Next]_vars PROVE config' = config
    BY <2>1 DEF Next, vars, FirstFrame, DuplicatedFrame, CapturedFrame,
       ScrolledFrame, InferredMove, TrackedFrame, PointerFrame, Publish
  <2> QED BY <2>1 DEF ConfigInv
<1> QED BY <1>1, <1>2, PTL DEF Spec

\* Whatever the pointer's position, size and hot spot and the extents of the
\* capture: the scaled cursor at its scaled position covers, in each pixel of
\* the output, what the cursor covers in the source pixel shown there
\* (scale_cursor_shape, phase_invariant_cursor_geometry).
THEOREM CursorIsFollowed == Spec => []CursorFollows
<1>1. Init => CursorFollows
  BY DEF Init, CursorFollows, NoCursor
<1>2. ConfigInv /\ CursorFollows /\ [Next]_vars => CursorFollows'
  <2> SUFFICES ASSUME ConfigInv, CursorFollows, [Next]_vars
               PROVE  CursorFollows'
    OBVIOUS
  <2>1. CASE PointerFrame
    <3>1. config' = config /\ config.cursor
      BY <2>1 DEF PointerFrame, Publish
    <3>2. PICK p \in Pointers(config) :
            cursor' = [seen |-> TRUE, at |-> p,
                       x |-> ScaleNearest(p.x - config.region.x,
                                          GeometryOf(config).sw,
                                          GeometryOf(config).ow),
                       shape |-> ScaleShapeAxis(p.w, p.hot,
                                                GeometryOf(config).sw,
                                                GeometryOf(config).ow)]
      BY <2>1 DEF PointerFrame
    <3>3. \A o \in 0 .. (config.out.w - 1) :
            LET g == GeometryOf(config)
                x == ScaleNearest(p.x - config.region.x, g.sw, g.ow)
                shape == ScaleShapeAxis(p.w, p.hot, g.sw, g.ow)
                drawn == o - (x - shape.hotspot)
                pixel == PointTap(o, g.sw, g.ow)
                           - (p.x - config.region.x - p.hot)
            IN  IF pixel \in 0 .. (p.w - 1)
                THEN /\ drawn \in DOMAIN shape.shows
                     /\ shape.shows[drawn] = pixel
                ELSE drawn \notin DOMAIN shape.shows
      BY <3>1, PointerDrawn DEF ConfigInv
    <3> QED BY <3>1, <3>2, <3>3 DEF CursorFollows
  <2>2. CASE [Next]_vars /\ ~PointerFrame
    <3>1. UNCHANGED <<config, cursor>>
      BY <2>2 DEF Next, vars, FirstFrame, DuplicatedFrame, CapturedFrame,
         ScrolledFrame, InferredMove, TrackedFrame, PointerFrame, Publish
    <3> QED BY <3>1 DEF CursorFollows
  <2> QED BY <2>1, <2>2
<1> QED BY <1>1, <1>2, ConfigKept, PTL DEF Spec

(* Induction, in the form the provers can use: over sets of numbers.       *)

\* Every non-empty set of naturals has a least member.
LEMMA LeastNatural ==
  ASSUME NEW T \in SUBSET Nat, T # {}
  PROVE  \E n \in T : \A m \in T : n <= m
<1> DEFINE Below(n) == 0 .. (n - 1)
           S == {Below(n) : n \in T}
           Less == StrictSubsetOrdering(Nat)
<1>1. S \subseteq FiniteSubsetsOf(Nat) /\ S # {}
  <2>1. \A n \in T : Below(n) \in SUBSET Nat /\ IsFiniteSet(Below(n))
    BY FS_Interval
  <2>2. \A n \in T : Below(n) \in FiniteSubsetsOf(Nat)
    <3> HIDE DEF Below
    <3> QED BY <2>1 DEF FiniteSubsetsOf
  <2> HIDE DEF Below
  <2> QED BY <2>2
<1>2. IsWellFoundedOn(Less, FiniteSubsetsOf(Nat))
  BY FS_StrictSubsetOrderingWellFounded
<1>3. PICK n \in T : \A m \in T : <<Below(m), Below(n)>> \notin Less
  <2> HIDE DEF Below, Less
  <2>1. \E x \in S : \A y \in S : ~(<<y, x>> \in Less)
    BY <1>1, <1>2, WFMin
  <2> QED BY <2>1
<1>4. ASSUME NEW m \in T, ~(n <= m)
      PROVE  <<Below(m), Below(n)>> \in Less
  <2>1. Below(m) \in SUBSET Nat /\ Below(n) \in SUBSET Nat
    OBVIOUS
  <2>2. Below(m) \subseteq Below(n) /\ m \in Below(n) /\ m \notin Below(m)
    BY <1>4
  <2>3. Below(m) # Below(n)
    BY <2>2
  <2> HIDE DEF Below
  <2> QED BY <2>1, <2>2, <2>3 DEF StrictSubsetOrdering
<1> QED BY <1>3, <1>4

\* Induction on the naturals, of a set rather than of a predicate.
LEMMA SetInduction ==
  ASSUME NEW T, 0 \in T, \A n \in Nat : n \in T => n + 1 \in T
  PROVE  Nat \subseteq T
<1> SUFFICES ASSUME Nat \ T # {}
             PROVE  FALSE
  OBVIOUS
<1>1. PICK n \in Nat \ T : \A m \in Nat \ T : n <= m
  <2> DEFINE U == Nat \ T
  <2>1. U \in SUBSET Nat /\ U # {}
    OBVIOUS
  <2> HIDE DEF U
  <2>2. \E i \in U : \A m \in U : i <= m
    BY <2>1, LeastNatural
  <2> QED BY <2>2 DEF U
<1>2. n # 0 /\ n - 1 \in Nat /\ (n - 1) + 1 = n
  BY <1>1
<1>3. n - 1 \in T
  BY <1>1, <1>2
<1> QED BY <1>1, <1>2, <1>3

(* The tap of an output pixel, and the first pixel with a tap beyond an    *)
(* edge.                                                                   *)

\* The clamp of the tap never bites.
LEMMA TapIs ==
  ASSUME NEW s \in Nat \ {0}, NEW n \in Nat \ {0}, NEW o \in 0 .. (n - 1)
  PROVE  /\ PointTap(o, s, n) \in 0 .. (s - 1)
         /\ PointTap(o, s, n) = ((2 * o + 1) * s) \div (2 * n)
         /\ 2 * n * PointTap(o, s, n) <= (2 * o + 1) * s
         /\ (2 * o + 1) * s < 2 * n * PointTap(o, s, n) + 2 * n
<1> DEFINE t == ((2 * o + 1) * s) \div (2 * n)
<1>1. (2 * o + 1) * s \in Nat /\ 2 * n \in Nat \ {0}
  OBVIOUS
<1>2. /\ t \in Int /\ 2 * n * t <= (2 * o + 1) * s
      /\ (2 * o + 1) * s < 2 * n * t + 2 * n
  <2> DEFINE x == (2 * o + 1) * s
             y == 2 * n
  <2>1. x \in Int /\ y \in Nat \ {0}
    BY <1>1
  <2> HIDE DEF x, y
  <2>2. x \div y \in Int /\ y * (x \div y) <= x /\ x < y * (x \div y) + y
    BY <2>1, DivBounds
  <2> QED BY <2>2 DEF x, y
<1> HIDE DEF t
<1>3. t >= 0
  <2> SUFFICES ASSUME t <= -1
               PROVE  FALSE
    BY <1>2
  <2>1. 2 * n * t <= -(2 * n)
    BY <1>2
  <2> QED BY <1>1, <1>2, <2>1
<1>4. t < s
  <2> SUFFICES ASSUME t >= s
               PROVE  FALSE
    BY <1>2
  <2>1. 2 * n * t >= 2 * n * s
    BY <1>2
  <2>2. (2 * o + 1) * s < 2 * n * s
    <3>1. 2 * o + 1 < 2 * n
      OBVIOUS
    <3> QED BY <3>1
  <2> QED BY <1>1, <1>2, <2>1, <2>2
<1>5. PointTap(o, s, n) = t
  BY <1>2, <1>4 DEF PointTap, AtMost, t
<1> QED BY <1>2, <1>3, <1>4, <1>5 DEF t

\* Pixels further right show source pixels no further left.
LEMMA TapMonotone ==
  ASSUME NEW s \in Nat \ {0}, NEW n \in Nat \ {0},
         NEW o \in 0 .. (n - 1), NEW p \in 0 .. (n - 1), o <= p
  PROVE  PointTap(o, s, n) <= PointTap(p, s, n)
<1> DEFINE a == PointTap(o, s, n)
           b == PointTap(p, s, n)
<1>1. /\ a \in Int /\ b \in Int /\ 2 * n * a <= (2 * o + 1) * s
      /\ (2 * p + 1) * s < 2 * n * b + 2 * n
  <2> HIDE DEF a, b
  <2>1. ASSUME NEW q \in 0 .. (n - 1)
        PROVE  /\ PointTap(q, s, n) \in 0 .. (s - 1)
               /\ 2 * n * PointTap(q, s, n) <= (2 * q + 1) * s
               /\ (2 * q + 1) * s < 2 * n * PointTap(q, s, n) + 2 * n
    BY TapIs
  <2>2. a \in 0 .. (s - 1) /\ 2 * n * a <= (2 * o + 1) * s
    BY <2>1 DEF a
  <2>3. b \in 0 .. (s - 1) /\ (2 * p + 1) * s < 2 * n * b + 2 * n
    BY <2>1 DEF b
  <2> QED BY <2>2, <2>3
<1> HIDE DEF a, b
<1>2. (2 * o + 1) * s <= (2 * p + 1) * s
  OBVIOUS
<1>3. 2 * n * a < 2 * n * (b + 1)
  BY <1>1, <1>2
<1>4. a < b + 1
  <2> SUFFICES ASSUME a >= b + 1
               PROVE  FALSE
    BY <1>1
  <2>1. 2 * n * a >= 2 * n * (b + 1)
    BY <1>1
  <2> QED BY <1>1, <1>3, <2>1
<1> QED BY <1>1, <1>4 DEF a, b

\* The pixels before l are those with a tap before the edge.
Splits(l, edge, s, n) ==
  /\ l \in 0 .. n
  /\ \A o \in 0 .. (n - 1) : PointTap(o, s, n) < edge <=> o < l

\* Some output pixel is the first to show a source pixel at or past an edge.
LEMMA SplitExists ==
  ASSUME NEW s \in Nat \ {0}, NEW n \in Nat \ {0}, NEW edge \in Int
  PROVE  \E l \in 0 .. n : Splits(l, edge, s, n)
<1> DEFINE T == {o \in 0 .. n : o < n => PointTap(o, s, n) >= edge}
<1>1. n \in T /\ T \in SUBSET Nat
  OBVIOUS
<1>2. PICK l \in T : \A m \in T : l <= m
  <2> HIDE DEF T
  <2> QED BY <1>1, LeastNatural
<1>3. l \in 0 .. n /\ (l < n => PointTap(l, s, n) >= edge)
  BY <1>2
<1>4. \A o \in 0 .. (n - 1) : PointTap(o, s, n) \in Int
  BY TapIs
<1>5. ASSUME NEW o \in 0 .. (n - 1)
      PROVE  PointTap(o, s, n) < edge <=> o < l
  <2>1. CASE o < l
    <3>1. o \notin T
      BY <1>2, <2>1
    <3> QED BY <1>4, <2>1, <3>1
  <2>2. CASE l <= o
    <3>1. l \in 0 .. (n - 1)
      BY <1>3, <2>2
    <3>2. PointTap(l, s, n) >= edge
      BY <1>3, <3>1
    <3>3. PointTap(l, s, n) <= PointTap(o, s, n)
      BY <2>2, <3>1, TapMonotone
    <3> HIDE DEF T
    <3> QED BY <1>4, <2>2, <3>1, <3>2, <3>3
  <2> QED BY <1>3, <2>1, <2>2
<1> QED BY <1>3, <1>5 DEF Splits

\* deterministic_first_output_tap_at_least: the binary search finds it.
SearchStep(f, range, edge, s, n) ==
  LET first == range[1]
      last == range[2]
      middle == first + (last - first) \div 2
  IN  IF first >= last THEN first
      ELSE IF PointTap(middle, s, n) < edge
      THEN f[<<middle + 1, last>>]
      ELSE f[<<first, middle>>]

Searches(f, edge, s, n) ==
  f = [range \in (0 .. n) \X (0 .. n) |-> SearchStep(f, range, edge, s, n)]

\* The middle of a range, as the binary search takes it.
LEMMA MiddleBetween ==
  ASSUME NEW first \in Nat, NEW last \in Nat, first < last
  PROVE  LET middle == first + (last - first) \div 2
         IN  middle \in Nat /\ first <= middle /\ middle < last
  OBVIOUS

\* The searches of ranges shorter than d end at l, or at the end next to it.
Found(f, d, l, n) ==
  \A a, b \in 0 .. n : b - a < d => f[<<a, b>>] = AtLeast(a, AtMost(b, l))

\* One step of a search that is right about smaller ranges.
LEMMA SearchStepFinds ==
  ASSUME NEW s \in Nat \ {0}, NEW n \in Nat \ {0}, NEW edge \in Int,
         NEW l, Splits(l, edge, s, n), NEW f,
         NEW first \in 0 .. n, NEW last \in 0 .. n,
         Found(f, last - first, l, n)
  PROVE  SearchStep(f, <<first, last>>, edge, s, n)
           = AtLeast(first, AtMost(last, l))
<1> DEFINE middle == first + (last - first) \div 2
           range == <<first, last>>
<1>0. l \in 0 .. n
  BY DEF Splits
<1>1. SearchStep(f, range, edge, s, n) =
        IF first >= last THEN first
        ELSE IF PointTap(middle, s, n) < edge
        THEN f[<<middle + 1, last>>]
        ELSE f[<<first, middle>>]
  BY DEF SearchStep
<1>2. CASE first >= last
  BY <1>0, <1>1, <1>2 DEF AtLeast, AtMost
<1>3. CASE first < last
  <2>1. middle \in 0 .. (n - 1) /\ first <= middle /\ middle < last
    BY <1>3, MiddleBetween
  <2>2. PointTap(middle, s, n) < edge <=> middle < l
    BY <2>1 DEF Splits
  <2> HIDE DEF middle
  <2>3. CASE middle < l
    <3>1. f[<<middle + 1, last>>] = AtLeast(middle + 1, AtMost(last, l))
      BY <2>1 DEF Found
    <3>2. SearchStep(f, range, edge, s, n) = f[<<middle + 1, last>>]
      BY <1>1, <1>3, <2>2, <2>3
    <3> QED BY <1>0, <2>1, <2>3, <3>1, <3>2 DEF AtLeast, AtMost
  <2>4. CASE ~(middle < l)
    <3>1. f[<<first, middle>>] = AtLeast(first, AtMost(middle, l))
      BY <2>1 DEF Found
    <3>2. SearchStep(f, range, edge, s, n) = f[<<first, middle>>]
      BY <1>1, <1>3, <2>2, <2>4
    <3> QED BY <1>0, <2>1, <2>4, <3>1, <3>2 DEF AtLeast, AtMost
  <2> QED BY <2>3, <2>4
<1> QED BY <1>2, <1>3

\* The recursive function of the binary search is well defined.
LEMMA SearchExists ==
  ASSUME NEW s \in Nat \ {0}, NEW n \in Nat \ {0}, NEW edge \in Int,
         NEW l, Splits(l, edge, s, n)
  PROVE  \E f : Searches(f, edge, s, n)
<1> DEFINE Ranges == (0 .. n) \X (0 .. n)
           g == [range \in Ranges |-> AtLeast(range[1], AtMost(range[2], l))]
<1>1. \A a, b \in 0 .. n : g[<<a, b>>] = AtLeast(a, AtMost(b, l))
  OBVIOUS
<1>2. ASSUME NEW range \in Ranges
      PROVE  SearchStep(g, range, edge, s, n)
               = AtLeast(range[1], AtMost(range[2], l))
  <2>1. PICK first \in 0 .. n, last \in 0 .. n : range = <<first, last>>
    BY <1>2
  <2> HIDE DEF g
  <2>2. SearchStep(g, <<first, last>>, edge, s, n)
          = AtLeast(first, AtMost(last, l))
    <3>1. Found(g, last - first, l, n)
      BY <1>1 DEF Found
    <3> QED BY <3>1, SearchStepFinds
  <2> QED BY <2>1, <2>2
<1>3. g = [range \in Ranges |-> SearchStep(g, range, edge, s, n)]
  <2> DEFINE h == [range \in Ranges |-> SearchStep(g, range, edge, s, n)]
  <2>1. \A range \in Ranges : g[range] = h[range]
    BY <1>2
  <2> QED BY <2>1
<1> QED BY <1>3 DEF Searches

\* The binary search finds where the taps cross the edge.
LEMMA SearchFinds ==
  ASSUME NEW s \in Nat \ {0}, NEW n \in Nat \ {0}, NEW edge \in Int,
         NEW l, Splits(l, edge, s, n), NEW f, Searches(f, edge, s, n)
  PROVE  f[<<0, n>>] = l
<1> DEFINE T == {d \in Nat : Found(f, d, l, n)}
<1>0. l \in 0 .. n
  BY DEF Splits
<1>1. \A a, b \in 0 .. n : f[<<a, b>>] = SearchStep(f, <<a, b>>, edge, s, n)
  BY DEF Searches
<1>2. ASSUME NEW a \in 0 .. n, NEW b \in 0 .. n, b - a <= 0
      PROVE  f[<<a, b>>] = AtLeast(a, AtMost(b, l))
  <2>1. SearchStep(f, <<a, b>>, edge, s, n) = a
    BY <1>2 DEF SearchStep
  <2> QED BY <1>0, <1>1, <1>2, <2>1 DEF AtLeast, AtMost
<1>3. 0 \in T
  BY <1>2 DEF Found
<1>4. ASSUME NEW d \in Nat, d \in T
      PROVE  d + 1 \in T
  <2>1. Found(f, d, l, n)
    BY <1>4
  <2>2. ASSUME NEW a \in 0 .. n, NEW b \in 0 .. n, b - a < d + 1
        PROVE  f[<<a, b>>] = AtLeast(a, AtMost(b, l))
    <3>1. Found(f, b - a, l, n)
      BY <2>1, <2>2 DEF Found
    <3>2. SearchStep(f, <<a, b>>, edge, s, n) = AtLeast(a, AtMost(b, l))
      BY <3>1, SearchStepFinds
    <3> QED BY <1>1, <3>2
  <2> QED BY <2>2 DEF Found
<1>5. n + 1 \in T
  <2> HIDE DEF T
  <2>1. Nat \subseteq T
    BY <1>3, <1>4, SetInduction
  <2> QED BY <2>1
<1>6. 0 \in 0 .. n /\ n \in 0 .. n /\ n - 0 < n + 1
  OBVIOUS
<1>7. f[<<0, n>>] = AtLeast(0, AtMost(n, l))
  BY <1>5, <1>6 DEF Found
<1> QED BY <1>0, <1>7 DEF AtLeast, AtMost

\* The pixel found splits the output at the edge, for every edge and extents.
LEMMA FirstTapSplits ==
  ASSUME NEW s \in Nat \ {0}, NEW n \in Nat \ {0}, NEW edge \in Int
  PROVE  Splits(FirstTapAtLeast(edge, s, n), edge, s, n)
<1>1. PICK l \in 0 .. n : Splits(l, edge, s, n)
  BY SplitExists
<1> DEFINE search == CHOOSE f : Searches(f, edge, s, n)
<1>2. Searches(search, edge, s, n)
  <2>1. \E f : Searches(f, edge, s, n)
    BY <1>1, SearchExists
  <2> QED BY <2>1
<1>3. FirstTapAtLeast(edge, s, n) = search[<<0, n>>]
  BY DEF FirstTapAtLeast, Searches, SearchStep
<1> HIDE DEF search
<1>4. search[<<0, n>>] = l
  BY <1>1, <1>2, SearchFinds
<1> QED BY <1>1, <1>3, <1>4

(* Dirty rectangles: what is mapped covers every pixel that shows a pixel  *)
(* of the source rectangle.                                                *)

Extents(g) ==
  /\ g.sw \in Nat \ {0} /\ g.sh \in Nat \ {0}
  /\ g.ow \in Nat \ {0} /\ g.oh \in Nat \ {0}
  /\ g.planar \in BOOLEAN

\* The pixels of the output, and the source pixel that one shows.
Outputs(g) == PixelsOf(g.ow, g.oh)
Taps(g, p) == <<PointTap(p[1], g.sw, g.ow), PointTap(p[2], g.sh, g.oh)>>

\* The rectangles the bus takes, of whole blocks when the output is planar.
Publishable(r, g) ==
  /\ r \in RectType /\ InBounds(r, g.ow, g.oh)
  /\ g.planar => /\ r.x % 2 = 0 /\ r.y % 2 = 0
                 /\ r.w % 2 = 0 /\ r.h % 2 = 0

\* The result of mapping r covers what shows it.
Maps(m, r, g) ==
  /\ m.status \in {"mapped", "empty", "unrepresentable"}
  /\ m.status = "mapped" =>
       /\ Publishable(m.rect, g)
       /\ \A p \in Outputs(g) : Covers(r, Taps(g, p)) => Covers(m.rect, p)
  /\ m.status = "empty" => \A p \in Outputs(g) : ~Covers(r, Taps(g, p))

\* Rounding to whole chroma blocks.
LEMMA BlockBounds ==
  ASSUME NEW n \in Int
  PROVE  /\ BlockFloor(n) \in Int /\ BlockFloor(n) % 2 = 0
         /\ BlockFloor(n) <= n /\ n <= BlockFloor(n) + 1
         /\ BlockCeil(n) \in Int /\ BlockCeil(n) % 2 = 0
         /\ n <= BlockCeil(n) /\ BlockCeil(n) <= n + 1
  BY DEF BlockFloor, BlockCeil

\* The fields of a rectangle.
LEMMA RectFields ==
  ASSUME NEW x, NEW y, NEW w, NEW h
  PROVE  LET r == Rect(x, y, w, h)
         IN  /\ r.x = x /\ r.y = y /\ r.w = w /\ r.h = h
             /\ Right(r) = x + w /\ Bottom(r) = y + h
  BY DEF Rect, Right, Bottom

\* Rectangles of integers are typed.
LEMMA RectTyped ==
  ASSUME NEW x \in Int, NEW y \in Int, NEW w \in Nat, NEW h \in Nat
  PROVE  Rect(x, y, w, h) \in RectType
  BY DEF Rect, RectType

\* Support, of edges inside the output.
LEMMA SupportPublishes ==
  ASSUME NEW g, Extents(g), ValidGeometry(g),
         NEW left \in Nat, NEW top \in Nat,
         NEW right \in 0 .. g.ow, NEW bottom \in 0 .. g.oh
  PROVE  LET m == Support(left, top, right, bottom, g)
         IN  /\ m.status \in {"mapped", "empty"}
             /\ m.status = "mapped" =>
                  /\ Publishable(m.rect, g)
                  /\ \A p \in Outputs(g) :
                       /\ left <= p[1] /\ p[1] < right
                       /\ top <= p[2] /\ p[2] < bottom
                       => Covers(m.rect, p)
             /\ m.status = "empty" => left >= right \/ top >= bottom
<1> DEFINE m == Support(left, top, right, bottom, g)
<1>1. CASE left >= right \/ top >= bottom
  <2>1. m = Empty
    BY <1>1 DEF Support
  <2> QED BY <1>1, <2>1 DEF Empty
<1>2. CASE left < right /\ top < bottom /\ ~g.planar
  <2> DEFINE r == Rect(left, top, right - left, bottom - top)
  <2>1. m = Mapped(r)
    BY <1>2 DEF Support, Within
  <2>2. /\ r.x = left /\ r.y = top /\ r.w = right - left /\ r.h = bottom - top
        /\ Right(r) = right /\ Bottom(r) = bottom
    BY RectFields DEF Extents
  <2>3. r \in RectType
    BY <1>2, RectTyped DEF Extents
  <2> HIDE DEF r
  <2>4. Publishable(r, g)
    BY <1>2, <2>2, <2>3 DEF Publishable, InBounds, Extents
  <2>5. \A p \in Outputs(g) : /\ left <= p[1] /\ p[1] < right
                              /\ top <= p[2] /\ p[2] < bottom
                              => Covers(r, p)
    BY <2>2 DEF Covers
  <2> QED BY <2>1, <2>4, <2>5 DEF Mapped
<1>3. CASE left < right /\ top < bottom /\ g.planar
  <2> DEFINE a == BlockFloor(left)
             b == BlockFloor(top)
             e == AtMost(g.ow, BlockCeil(right))
             f == AtMost(g.oh, BlockCeil(bottom))
             r == Rect(a, b, e - a, f - b)
  <2>1. m = Mapped(r)
    BY <1>3 DEF Support, Within
  <2>2. g.ow % 2 = 0 /\ g.oh % 2 = 0
    BY <1>3 DEF ValidGeometry
  <2>3. /\ a \in Nat /\ a <= left /\ a % 2 = 0
        /\ b \in Nat /\ b <= top /\ b % 2 = 0
    <3>1. left \in Int /\ top \in Int
      OBVIOUS
    <3>2. \A i \in Nat : BlockFloor(i) \in Nat
      BY DEF BlockFloor
    <3> QED BY <3>1, <3>2, BlockBounds
  <2>4. e \in Nat /\ right <= e /\ e <= g.ow /\ e % 2 = 0
    <3>1. right \in Int /\ right >= 0 /\ right <= g.ow /\ g.ow \in Nat
      BY DEF Extents
    <3>2. /\ BlockCeil(right) \in Int /\ BlockCeil(right) % 2 = 0
          /\ right <= BlockCeil(right)
      BY <3>1, BlockBounds
    <3> QED BY <2>2, <3>1, <3>2 DEF AtMost
  <2>5. f \in Nat /\ bottom <= f /\ f <= g.oh /\ f % 2 = 0
    <3>1. bottom \in Int /\ bottom >= 0 /\ bottom <= g.oh /\ g.oh \in Nat
      BY DEF Extents
    <3>2. /\ BlockCeil(bottom) \in Int /\ BlockCeil(bottom) % 2 = 0
          /\ bottom <= BlockCeil(bottom)
      BY <3>1, BlockBounds
    <3> QED BY <2>2, <3>1, <3>2 DEF AtMost
  <2> HIDE DEF a, b, e, f
  <2>6. /\ e - a \in Nat /\ e - a > 0 /\ (e - a) % 2 = 0
        /\ f - b \in Nat /\ f - b > 0 /\ (f - b) % 2 = 0
    BY <1>3, <2>3, <2>4, <2>5 DEF Extents
  <2>7. /\ r.x = a /\ r.y = b /\ r.w = e - a /\ r.h = f - b
        /\ Right(r) = e /\ Bottom(r) = f
    <3>1. a + (e - a) = e /\ b + (f - b) = f
      BY <2>3, <2>4, <2>5
    <3> QED BY <3>1, RectFields
  <2>8. r \in RectType
    BY <2>3, <2>6, RectTyped
  <2> HIDE DEF r
  <2>9. Publishable(r, g)
    BY <2>3, <2>4, <2>5, <2>6, <2>7, <2>8 DEF Publishable, InBounds
  <2>10. \A p \in Outputs(g) : /\ left <= p[1] /\ p[1] < right
                               /\ top <= p[2] /\ p[2] < bottom
                               => Covers(r, p)
    <3>1. \A p \in Outputs(g) : p[1] \in Int /\ p[2] \in Int
      BY DEF Outputs, PixelsOf, Extents
    <3>2. right \in Int /\ bottom \in Int
      BY DEF Extents
    <3> QED BY <2>3, <2>4, <2>5, <2>7, <3>1, <3>2 DEF Covers
  <2> QED BY <2>1, <2>9, <2>10 DEF Mapped
<1> QED BY <1>1, <1>2, <1>3 DEF Extents

\* clip_source_rect_to_region, pixel by pixel of the region.
LEMMA ClipCovers ==
  ASSUME NEW r \in RectType, NEW region \in RectType
  PROVE  LET m == ClipToRegion(r, region)
         IN  /\ m.status \in {"mapped", "empty"}
             /\ m.status = "empty" <=> m = Empty
             /\ m.status = "mapped" =>
                  /\ m.rect \in RectType
                  /\ InBounds(m.rect, region.w, region.h)
             /\ \A i \in 0 .. (region.w - 1), j \in 0 .. (region.h - 1) :
                  Covers(r, <<region.x + i, region.y + j>>)
                    <=> m.status = "mapped" /\ Covers(m.rect, <<i, j>>)
<1> DEFINE m == ClipToRegion(r, region)
           left == AtLeast(r.x, region.x)
           top == AtLeast(r.y, region.y)
           right == AtMost(Right(r), Right(region))
           bottom == AtMost(Bottom(r), Bottom(region))
           q == Rect(left - region.x, top - region.y,
                     right - left, bottom - top)
<1>1. /\ r.x \in Int /\ r.y \in Int /\ r.w \in Nat /\ r.h \in Nat
      /\ region.x \in Int /\ region.y \in Int
      /\ region.w \in Nat /\ region.h \in Nat
  BY DEF RectType
<1>2. /\ left \in Int /\ top \in Int /\ right \in Int /\ bottom \in Int
      /\ left >= r.x /\ left >= region.x /\ (left = r.x \/ left = region.x)
      /\ top >= r.y /\ top >= region.y /\ (top = r.y \/ top = region.y)
      /\ right <= r.x + r.w /\ right <= region.x + region.w
      /\ (right = r.x + r.w \/ right = region.x + region.w)
      /\ bottom <= r.y + r.h /\ bottom <= region.y + region.h
      /\ (bottom = r.y + r.h \/ bottom = region.y + region.h)
  BY <1>1 DEF AtLeast, AtMost, Right, Bottom
<1>3. m = IF left >= right \/ top >= bottom THEN Empty ELSE Mapped(q)
  BY DEF ClipToRegion
<1> HIDE DEF m, left, top, right, bottom
<1>4. \A i \in 0 .. (region.w - 1), j \in 0 .. (region.h - 1) :
        Covers(r, <<region.x + i, region.y + j>>) <=>
          /\ left <= region.x + i /\ region.x + i < right
          /\ top <= region.y + j /\ region.y + j < bottom
  BY <1>1, <1>2 DEF Covers, Right, Bottom
<1>5. CASE left >= right \/ top >= bottom
  <2>1. m = Empty /\ m.status = "empty"
    BY <1>3, <1>5 DEF Empty
  <2>2. \A i \in 0 .. (region.w - 1), j \in 0 .. (region.h - 1) :
          ~Covers(r, <<region.x + i, region.y + j>>)
    BY <1>1, <1>2, <1>4, <1>5
  <2> QED BY <2>1, <2>2 DEF m
<1>6. CASE left < right /\ top < bottom
  <2>1. m = Mapped(q)
    BY <1>2, <1>3, <1>6
  <2>2. /\ q.x = left - region.x /\ q.y = top - region.y
        /\ q.w = right - left /\ q.h = bottom - top
        /\ Right(q) = right - region.x /\ Bottom(q) = bottom - region.y
    <3>1. \A a, b, d \in Int : (a - d) + (b - a) = b - d
      OBVIOUS
    <3>2. /\ left \in Int /\ right \in Int /\ top \in Int /\ bottom \in Int
          /\ region.x \in Int /\ region.y \in Int
      BY <1>1, <1>2
    <3>3. (left - region.x) + (right - left) = right - region.x
      BY <3>1, <3>2
    <3>4. (top - region.y) + (bottom - top) = bottom - region.y
      BY <3>1, <3>2
    <3>5. /\ q.x = left - region.x /\ q.y = top - region.y
          /\ q.w = right - left /\ q.h = bottom - top
          /\ Right(q) = (left - region.x) + (right - left)
          /\ Bottom(q) = (top - region.y) + (bottom - top)
      BY RectFields
    <3> HIDE DEF q
    <3>6. Right(q) = right - region.x
      BY <3>3, <3>5
    <3>7. Bottom(q) = bottom - region.y
      BY <3>4, <3>5
    <3> QED BY <3>5, <3>6, <3>7
  <2>3. q \in RectType
    <3>1. /\ left - region.x \in Int /\ top - region.y \in Int
          /\ right - left \in Nat /\ bottom - top \in Nat
      <4>1. /\ left \in Int /\ right \in Int /\ top \in Int /\ bottom \in Int
            /\ region.x \in Int /\ region.y \in Int
        BY <1>1, <1>2
      <4> HIDE DEF left, right, top, bottom, q
      <4> QED BY ONLY <4>1, <1>6
    <3> QED BY ONLY <3>1, RectTyped DEF q
  <2>4. m.status = "mapped" /\ m.rect = q /\ m # Empty
    BY <2>1 DEF Mapped, Empty
  <2> HIDE DEF q
  <2>5. InBounds(q, region.w, region.h)
    BY <1>1, <1>2, <1>6, <2>2 DEF InBounds
  <2>6. \A i \in 0 .. (region.w - 1), j \in 0 .. (region.h - 1) :
          Covers(q, <<i, j>>) <=>
            /\ left <= region.x + i /\ region.x + i < right
            /\ top <= region.y + j /\ region.y + j < bottom
    BY <1>1, <1>2, <2>2 DEF Covers
  <2> QED BY <1>4, <2>3, <2>4, <2>5, <2>6 DEF m
<1> QED BY <1>2, <1>5, <1>6

\* Output pixels show pixels of the source.
LEMMA TapsInside ==
  ASSUME NEW g, Extents(g), NEW p \in Outputs(g)
  PROVE  /\ p[1] \in 0 .. (g.ow - 1) /\ p[2] \in 0 .. (g.oh - 1)
         /\ p = <<p[1], p[2]>>
         /\ PointTap(p[1], g.sw, g.ow) \in 0 .. (g.sw - 1)
         /\ PointTap(p[2], g.sh, g.oh) \in 0 .. (g.sh - 1)
<1>1. /\ p[1] \in 0 .. (g.ow - 1) /\ p[2] \in 0 .. (g.oh - 1)
      /\ p = <<p[1], p[2]>>
  BY DEF Outputs, PixelsOf, Extents
<1>2. ASSUME NEW s \in Nat \ {0}, NEW n \in Nat \ {0}, NEW o \in 0 .. (n - 1)
      PROVE  PointTap(o, s, n) \in 0 .. (s - 1)
  BY TapIs
<1> QED BY <1>1, <1>2 DEF Extents

\* A rectangle of the source region, clipped to it, and the taps in it.
LEMMA ClippedTaps ==
  ASSUME NEW g, Extents(g), NEW r \in RectType
  PROVE  LET m == ClipToRegion(r, SourceOf(g))
         IN  /\ m.status \in {"mapped", "empty"}
             /\ m.status = "empty" <=> m = Empty
             /\ m.status = "mapped" =>
                  /\ m.rect \in RectType
                  /\ InBounds(m.rect, g.sw, g.sh)
             /\ \A p \in Outputs(g) :
                  Covers(r, Taps(g, p))
                    <=> m.status = "mapped" /\ Covers(m.rect, Taps(g, p))
<1> DEFINE source == SourceOf(g)
           m == ClipToRegion(r, source)
<1>1. source \in RectType /\ source.x = 0 /\ source.y = 0
      /\ source.w = g.sw /\ source.h = g.sh
  BY DEF SourceOf, Rect, RectType, Extents
<1> HIDE DEF source
<1>2. /\ m.status \in {"mapped", "empty"}
      /\ m.status = "empty" <=> m = Empty
      /\ m.status = "mapped" =>
           /\ m.rect \in RectType
           /\ InBounds(m.rect, source.w, source.h)
      /\ \A i \in 0 .. (source.w - 1), j \in 0 .. (source.h - 1) :
           Covers(r, <<source.x + i, source.y + j>>)
             <=> m.status = "mapped" /\ Covers(m.rect, <<i, j>>)
  BY <1>1, ClipCovers
<1> HIDE DEF m
<1>3. ASSUME NEW p \in Outputs(g)
      PROVE  Covers(r, Taps(g, p))
               <=> m.status = "mapped" /\ Covers(m.rect, Taps(g, p))
  <2> DEFINE i == PointTap(p[1], g.sw, g.ow)
             j == PointTap(p[2], g.sh, g.oh)
  <2>1. i \in 0 .. (source.w - 1) /\ j \in 0 .. (source.h - 1)
    BY <1>1, TapsInside
  <2>2. Taps(g, p) = <<i, j>>
    BY DEF Taps
  <2> HIDE DEF i, j
  <2>3. <<source.x + i, source.y + j>> = <<i, j>>
    BY <1>1, <2>1 DEF Extents
  <2> QED BY <1>2, <2>1, <2>2, <2>3
<1> QED BY <1>1, <1>2, <1>3 DEF m, source

\* One axis of map_local_deterministic_planar_damage_rect.
LEMMA FirstTapBounds ==
  ASSUME NEW s \in Nat \ {0}, NEW n \in Nat \ {0},
         NEW low \in Int, NEW high \in Int, NEW o \in 0 .. (n - 1)
  PROVE  /\ FirstTapAtLeast(low, s, n) \in 0 .. n
         /\ FirstTapAtLeast(high, s, n) \in 0 .. n
         /\ low <= PointTap(o, s, n) /\ PointTap(o, s, n) < high
              <=> /\ FirstTapAtLeast(low, s, n) <= o
                  /\ o < FirstTapAtLeast(high, s, n)
<1>1. PointTap(o, s, n) \in Int
  BY TapIs
<1>2. /\ FirstTapAtLeast(low, s, n) \in 0 .. n
      /\ PointTap(o, s, n) < low <=> o < FirstTapAtLeast(low, s, n)
  BY FirstTapSplits DEF Splits
<1>3. /\ FirstTapAtLeast(high, s, n) \in 0 .. n
      /\ PointTap(o, s, n) < high <=> o < FirstTapAtLeast(high, s, n)
  BY FirstTapSplits DEF Splits
<1> QED BY <1>1, <1>2, <1>3

\* map_local_deterministic_planar_damage_rect
LEMMA PlanarDamageMaps ==
  ASSUME NEW g, Extents(g), NEW r \in RectType
  PROVE  Maps(PlanarDamage(r, g), r, g)
<1> DEFINE clipped == ClipToRegion(r, SourceOf(g))
           c == clipped.rect
           left == FirstTapAtLeast(c.x, g.sw, g.ow)
           top == FirstTapAtLeast(c.y, g.sh, g.oh)
           right == FirstTapAtLeast(Right(c), g.sw, g.ow)
           bottom == FirstTapAtLeast(Bottom(c), g.sh, g.oh)
           m == Support(left, top, right, bottom, g)
<1>1. /\ clipped.status \in {"mapped", "empty"}
      /\ clipped.status = "empty" <=> clipped = Empty
      /\ clipped.status = "mapped" =>
           /\ c \in RectType
           /\ InBounds(c, g.sw, g.sh)
      /\ \A p \in Outputs(g) :
           Covers(r, Taps(g, p))
             <=> clipped.status = "mapped" /\ Covers(c, Taps(g, p))
  BY ClippedTaps
<1>2. PlanarDamage(r, g) = IF ~ValidGeometry(g) \/ ~g.planar
                           THEN Unrepresentable
                           ELSE IF clipped = Empty THEN Empty ELSE m
  BY DEF PlanarDamage
<1>3. CASE ~ValidGeometry(g) \/ ~g.planar
  BY <1>2, <1>3 DEF Maps, Unrepresentable
<1>4. CASE ValidGeometry(g) /\ g.planar /\ clipped = Empty
  <2>1. PlanarDamage(r, g) = Empty /\ Empty.status = "empty"
    BY <1>2, <1>4 DEF Empty
  <2> HIDE DEF clipped
  <2> QED BY <1>1, <1>4, <2>1 DEF Maps
<1>5. CASE ValidGeometry(g) /\ g.planar /\ clipped # Empty
  <2> HIDE DEF clipped
  <2>1. /\ c \in RectType /\ clipped.status = "mapped"
        /\ c.x \in Int /\ c.y \in Int /\ Right(c) \in Int /\ Bottom(c) \in Int
    BY <1>1, <1>5 DEF RectType, Right, Bottom
  <2>2. /\ left \in 0 .. g.ow /\ right \in 0 .. g.ow
        /\ top \in 0 .. g.oh /\ bottom \in 0 .. g.oh
    <3>1. 0 \in 0 .. (g.ow - 1) /\ 0 \in 0 .. (g.oh - 1)
      BY DEF Extents
    <3> QED BY <2>1, <3>1, FirstTapBounds DEF Extents
  <2>3. ASSUME NEW p \in Outputs(g), Covers(c, Taps(g, p))
        PROVE  /\ left <= p[1] /\ p[1] < right
               /\ top <= p[2] /\ p[2] < bottom
    <3> DEFINE i == PointTap(p[1], g.sw, g.ow)
               j == PointTap(p[2], g.sh, g.oh)
    <3>1. p[1] \in 0 .. (g.ow - 1) /\ p[2] \in 0 .. (g.oh - 1)
      BY TapsInside
    <3>2. /\ c.x <= i /\ i < Right(c) /\ c.y <= j /\ j < Bottom(c)
      BY <2>3 DEF Covers, Taps
    <3> HIDE DEF c
    <3>3. left <= p[1] /\ p[1] < right
      BY <2>1, <3>1, <3>2, FirstTapBounds DEF Extents
    <3>4. top <= p[2] /\ p[2] < bottom
      BY <2>1, <3>1, <3>2, FirstTapBounds DEF Extents
    <3> QED BY <3>3, <3>4
  <2> HIDE DEF c, left, top, right, bottom
  <2>4. left \in Nat /\ top \in Nat
    BY <2>2 DEF Extents
  <2>5. /\ m.status \in {"mapped", "empty"}
        /\ m.status = "mapped" =>
             /\ Publishable(m.rect, g)
             /\ \A p \in Outputs(g) :
                  /\ left <= p[1] /\ p[1] < right
                  /\ top <= p[2] /\ p[2] < bottom
                  => Covers(m.rect, p)
        /\ m.status = "empty" => left >= right \/ top >= bottom
    BY <1>5, <2>2, <2>4, SupportPublishes
  <2> HIDE DEF m
  <2>6. PlanarDamage(r, g) = m
    BY <1>2, <1>5
  <2>7. \A p \in Outputs(g) : p[1] \in Int /\ p[2] \in Int
    BY DEF Outputs, PixelsOf, Extents
  <2>8. left \in Int /\ top \in Int /\ right \in Int /\ bottom \in Int
    BY <2>2, <2>4 DEF Extents
  <2>9. m.status = "empty" => \A p \in Outputs(g) : ~Covers(c, Taps(g, p))
    BY <2>3, <2>5, <2>7, <2>8
  <2>10. \A p \in Outputs(g) : Covers(r, Taps(g, p)) => Covers(c, Taps(g, p))
    BY <1>1 DEF c
  <2>11. m.status = "mapped" =>
           \A p \in Outputs(g) : Covers(r, Taps(g, p)) => Covers(m.rect, p)
    BY <2>3, <2>5, <2>10
  <2> QED BY <2>5, <2>6, <2>9, <2>10, <2>11 DEF Maps
<1> QED BY <1>3, <1>4, <1>5

\* At scale 1 a pixel shows the source pixel at its place.
LEMMA TapUnscaled ==
  ASSUME NEW s \in Nat \ {0}, NEW o \in 0 .. (s - 1)
  PROVE  PointTap(o, s, s) = o
<1>1. 1 * s = s /\ o \in 0 .. (1 * s - 1) /\ o \div 1 = o
  OBVIOUS
<1>2. PointTap(o, s, 1 * s) = o \div 1
  BY <1>1, TapOfWhole
<1> QED BY <1>1, <1>2

\* Nothing is rounded at scale 1.
LEMMA ScaleUnscaled ==
  ASSUME NEW s \in Nat \ {0}, NEW i \in Int
  PROVE  ScaleFloor(i, s, s) = i /\ ScaleCeil(i, s, s) = i
         /\ ScalesExactly(i, s, s)
<1>1. i * s \in Int /\ s * i <= i * s /\ i * s < s * i + s
  OBVIOUS
<1>2. (i * s) \div s = i
  BY <1>1, DivUnique
<1>3. i * s + s - 1 \in Int /\ s * i <= i * s + s - 1
      /\ i * s + s - 1 < s * i + s
  OBVIOUS
<1>4. (i * s + s - 1) \div s = i
  BY <1>3, DivUnique
<1>5. (s * i) % s = 0 /\ s * i = i * s
  BY DivExact
<1> QED BY <1>2, <1>4, <1>5 DEF ScaleFloor, ScaleCeil, ScalesExactly

\* The support of a rectangle at scale 1 is that rectangle.
LEMMA SupportUnscaled ==
  ASSUME NEW g, Extents(g), ValidGeometry(g), ~Scaled(g),
         NEW r \in RectType, InBounds(r, g.sw, g.sh),
         NEW m, m = Support(ScaleFloor(r.x, g.sw, g.ow),
                            ScaleFloor(r.y, g.sh, g.oh),
                            ScaleCeil(Right(r), g.sw, g.ow),
                            ScaleCeil(Bottom(r), g.sh, g.oh), g)
  PROVE  Maps(m, r, g)
<1>1. /\ g.sw = g.ow /\ g.sh = g.oh
      /\ g.ow \in Nat \ {0} /\ g.oh \in Nat \ {0}
  BY DEF Scaled, Extents
<1>2. /\ r.x \in Nat /\ r.y \in Nat /\ r.w \in Nat /\ r.h \in Nat
      /\ Right(r) \in 0 .. g.ow /\ Bottom(r) \in 0 .. g.oh
      /\ r.x < Right(r) /\ r.y < Bottom(r)
  BY <1>1 DEF RectType, InBounds, Right, Bottom
<1>3. /\ ScaleFloor(r.x, g.sw, g.ow) = r.x
      /\ ScaleFloor(r.y, g.sh, g.oh) = r.y
      /\ ScaleCeil(Right(r), g.sw, g.ow) = Right(r)
      /\ ScaleCeil(Bottom(r), g.sh, g.oh) = Bottom(r)
  <2>1. /\ r.x \in Int /\ r.y \in Int /\ Right(r) \in Int /\ Bottom(r) \in Int
    BY <1>1, <1>2
  <2> QED BY <1>1, <2>1, ScaleUnscaled
<1>4. m = Support(r.x, r.y, Right(r), Bottom(r), g)
  BY <1>3
<1>5. /\ m.status \in {"mapped", "empty"}
      /\ m.status = "mapped" =>
           /\ Publishable(m.rect, g)
           /\ \A p \in Outputs(g) :
                /\ r.x <= p[1] /\ p[1] < Right(r)
                /\ r.y <= p[2] /\ p[2] < Bottom(r)
                => Covers(m.rect, p)
      /\ m.status = "empty" => r.x >= Right(r) \/ r.y >= Bottom(r)
  BY <1>2, <1>4, SupportPublishes
<1>6. m.status = "mapped"
  <2>1. ~(r.x >= Right(r)) /\ ~(r.y >= Bottom(r))
    BY <1>1, <1>2
  <2> QED BY <1>5, <2>1
<1>7. ASSUME NEW p \in Outputs(g)
      PROVE  Taps(g, p) = p
  <2>1. p[1] \in 0 .. (g.ow - 1) /\ p[2] \in 0 .. (g.oh - 1)
        /\ p = <<p[1], p[2]>>
    BY TapsInside
  <2>2. PointTap(p[1], g.sw, g.ow) = p[1] /\ PointTap(p[2], g.sh, g.oh) = p[2]
    BY <1>1, <2>1, TapUnscaled
  <2> QED BY <2>1, <2>2 DEF Taps
<1>8. \A p \in Outputs(g) : Covers(r, Taps(g, p)) => Covers(m.rect, p)
  <2>1. \A p \in Outputs(g) :
          /\ r.x <= p[1] /\ p[1] < Right(r)
          /\ r.y <= p[2] /\ p[2] < Bottom(r)
          => Covers(m.rect, p)
    BY <1>5, <1>6
  <2> QED BY <1>7, <2>1 DEF Covers
<1> QED BY <1>5, <1>6, <1>8 DEF Maps

\* map_local_damage_rect of an output at scale 1
LEMMA LocalDamageMaps ==
  ASSUME NEW g, Extents(g), ~Scaled(g), NEW r \in RectType
  PROVE  Maps(LocalDamage(r, g), r, g)
<1> DEFINE clipped == ClipToRegion(r, SourceOf(g))
           c == clipped.rect
           m == Support(ScaleFloor(c.x, g.sw, g.ow),
                        ScaleFloor(c.y, g.sh, g.oh),
                        ScaleCeil(Right(c), g.sw, g.ow),
                        ScaleCeil(Bottom(c), g.sh, g.oh), g)
<1>1. /\ clipped.status \in {"mapped", "empty"}
      /\ clipped.status = "empty" <=> clipped = Empty
      /\ clipped.status = "mapped" =>
           /\ c \in RectType
           /\ InBounds(c, g.sw, g.sh)
      /\ \A p \in Outputs(g) :
           Covers(r, Taps(g, p))
             <=> clipped.status = "mapped" /\ Covers(c, Taps(g, p))
  BY ClippedTaps
<1>2. LocalDamage(r, g) = IF ~ValidGeometry(g) THEN Unrepresentable
                          ELSE IF clipped = Empty THEN Empty ELSE m
  BY DEF LocalDamage
<1> HIDE DEF clipped
<1>3. CASE ~ValidGeometry(g)
  BY <1>2, <1>3 DEF Maps, Unrepresentable
<1>4. CASE ValidGeometry(g) /\ clipped = Empty
  <2>1. LocalDamage(r, g) = Empty /\ Empty.status = "empty"
    BY <1>2, <1>4 DEF Empty
  <2> QED BY <1>1, <1>4, <2>1 DEF Maps
<1>5. CASE ValidGeometry(g) /\ clipped # Empty
  <2>1. c \in RectType /\ InBounds(c, g.sw, g.sh)
        /\ \A p \in Outputs(g) : Covers(r, Taps(g, p)) <=> Covers(c, Taps(g, p))
    BY <1>1, <1>5
  <2> HIDE DEF c
  <2>2. Maps(m, c, g)
    BY <1>5, <2>1, SupportUnscaled
  <2>3. LocalDamage(r, g) = m
    BY <1>2, <1>5 DEF c
  <2> QED BY <2>1, <2>2, <2>3 DEF Maps
<1> QED BY <1>3, <1>4, <1>5

\* desktop_duplication_scale_rect of an output at scale 1
LEMMA ScaleRectMaps ==
  ASSUME NEW g, Extents(g), ValidGeometry(g), ~Scaled(g), NEW r \in RectType
  PROVE  Maps(ScaleRect(r, g), r, g)
<1> DEFINE m == Support(ScaleFloor(r.x, g.sw, g.ow),
                        ScaleFloor(r.y, g.sh, g.oh),
                        ScaleCeil(Right(r), g.sw, g.ow),
                        ScaleCeil(Bottom(r), g.sh, g.oh), g)
<1>1. CASE ~InBounds(r, g.sw, g.sh) \/ g.ow = 0 \/ g.oh = 0 \/ m = Empty
  <2>1. ScaleRect(r, g) = Unrepresentable
    BY <1>1 DEF ScaleRect
  <2> QED BY <2>1 DEF Maps, Unrepresentable
<1>2. CASE ~(~InBounds(r, g.sw, g.sh) \/ g.ow = 0 \/ g.oh = 0 \/ m = Empty)
  <2>1. ScaleRect(r, g) = m
    BY <1>2 DEF ScaleRect
  <2>2. InBounds(r, g.sw, g.sh)
    BY <1>2
  <2> HIDE DEF m
  <2>3. Maps(m, r, g)
    BY <2>2, SupportUnscaled DEF m
  <2> QED BY <2>1, <2>3
<1> QED BY <1>1, <1>2

-----------------------------------------------------------------------------
(* Captures.                                                               *)

\* The pixel of the desktop, as the user sees it, that an output pixel shows,
\* and that of the surface.
Shown(c, p) == <<c.region.x + PointTap(p[1], c.region.w, c.out.w),
                 c.region.y + PointTap(p[2], c.region.h, c.out.h)>>
ShownSurface(c, p) == SurfacePixel(c, PointTap(p[1], c.region.w, c.out.w),
                                      PointTap(p[2], c.region.h, c.out.h))

Capturable(c) == c \in Configurations /\ Accepted(c)

\* The geometry of an accepted capture.
LEMMA CaptureExtents ==
  ASSUME NEW c, Capturable(c)
  PROVE  /\ Extents(GeometryOf(c)) /\ ValidGeometry(GeometryOf(c))
         /\ c.region \in RectType
         /\ GeometryOf(c).sw = c.region.w /\ GeometryOf(c).sh = c.region.h
         /\ GeometryOf(c).ow = c.out.w /\ GeometryOf(c).oh = c.out.h
         /\ GeometryOf(c).planar = c.planar
         /\ OutputPixels(c) = Outputs(GeometryOf(c))
         /\ ~Deterministic(c) /\ ~DriverScales(c) => ~Scaled(GeometryOf(c))
         /\ Deterministic(c) => c.rotation = 0
<1> DEFINE g == GeometryOf(c)
<1>1. /\ g.sw = c.region.w /\ g.sh = c.region.h
      /\ g.ow = c.out.w /\ g.oh = c.out.h /\ g.planar = c.planar
  BY DEF GeometryOf
<1>2. /\ c \in Configurations /\ c.region \in RectType
      /\ c.out.w \in Nat \ {0} /\ c.out.h \in Nat \ {0}
      /\ c.planar \in BOOLEAN
      /\ c.region.w > 0 /\ c.region.h > 0
  BY CapturesAssumption DEF Capturable, InBounds
<1>3. /\ c.region.w \in Nat \ {0} /\ c.region.h \in Nat \ {0}
  BY <1>2 DEF RectType
<1>4. Extents(g)
  BY <1>1, <1>2, <1>3 DEF Extents
<1>5. ValidGeometry(g)
  BY <1>1, <1>2, <1>3 DEF ValidGeometry, Capturable, Accepted
<1>6. OutputPixels(c) = Outputs(g)
  BY <1>1 DEF OutputPixels, Outputs
<1>7. ~Deterministic(c) /\ ~DriverScales(c) => ~Scaled(g)
  BY DEF Deterministic, DriverScales, Capturable, Accepted
<1>8. Deterministic(c) => c.rotation = 0
  BY DEF Capturable, Accepted
<1> QED BY <1>1, <1>2, <1>4, <1>5, <1>6, <1>7, <1>8

-----------------------------------------------------------------------------
(* Damage as it is built.                                                  *)

DirtyRects(c) == {r \in RectType : Publishable(r, GeometryOf(c))}
MoveRects(c) ==
  {m \in [x : Int, y : Int, to : RectType] :
     /\ Publishable(m.to, GeometryOf(c))
     /\ Publishable(Rect(m.x, m.y, m.to.w, m.to.h), GeometryOf(c))}

Built(d, c) ==
  /\ d \in [dirty : Seq(DirtyRects(c)), moves : Seq(MoveRects(c)),
            full : {FALSE}, overflow : BOOLEAN]
  /\ Len(d.dirty) <= MaxDirtyRects /\ Len(d.moves) <= MaxMoveRects

CoveredBy(dirty, p) == \E i \in DOMAIN dirty : Covers(dirty[i], p)

\* e is d with more dirty rectangles, or too many.
Grows(d, e, c) ==
  /\ Built(e, c) /\ e.moves = d.moves
  /\ d.overflow => e.overflow
  /\ \A p : CoveredBy(d.dirty, p) => CoveredBy(e.dirty, p)

\* One more dirty rectangle covers its own pixels.
LEMMA CoveredByAppend ==
  ASSUME NEW S, NEW s \in Seq(S), NEW r \in S, NEW p
  PROVE  CoveredBy(Append(s, r), p) <=> CoveredBy(s, p) \/ Covers(r, p)
<1>1. /\ DOMAIN Append(s, r) = 1 .. (Len(s) + 1) /\ DOMAIN s = 1 .. Len(s)
      /\ Len(s) \in Nat
      /\ \A i \in 1 .. Len(s) : Append(s, r)[i] = s[i]
      /\ Append(s, r)[Len(s) + 1] = r
  OBVIOUS
<1>2. 1 .. (Len(s) + 1) = (1 .. Len(s)) \cup {Len(s) + 1}
  BY <1>1
<1> QED BY <1>1, <1>2 DEF CoveredBy

\* More dirty rectangles cover theirs.
LEMMA CoveredByConcat ==
  ASSUME NEW S, NEW s \in Seq(S), NEW t \in Seq(S), NEW p
  PROVE  CoveredBy(s \o t, p) <=> CoveredBy(s, p) \/ CoveredBy(t, p)
<1>1. /\ s \o t \in Seq(S) /\ DOMAIN (s \o t) = 1 .. (Len(s) + Len(t))
      /\ DOMAIN s = 1 .. Len(s) /\ DOMAIN t = 1 .. Len(t)
      /\ Len(s) \in Nat /\ Len(t) \in Nat
      /\ \A i \in 1 .. Len(s) : (s \o t)[i] = s[i]
      /\ \A i \in 1 .. Len(t) : (s \o t)[Len(s) + i] = t[i]
  OBVIOUS
<1>2. ASSUME CoveredBy(s \o t, p)
      PROVE  CoveredBy(s, p) \/ CoveredBy(t, p)
  <2>1. PICK i \in 1 .. (Len(s) + Len(t)) : Covers((s \o t)[i], p)
    BY <1>1, <1>2 DEF CoveredBy
  <2>2. CASE i <= Len(s)
    BY <1>1, <2>1, <2>2 DEF CoveredBy
  <2>3. CASE i > Len(s)
    <3>1. i - Len(s) \in 1 .. Len(t) /\ Len(s) + (i - Len(s)) = i
      BY <1>1, <2>1, <2>3
    <3>2. (s \o t)[i] = t[i - Len(s)]
      BY <1>1, <3>1
    <3> QED BY <1>1, <2>1, <3>1, <3>2 DEF CoveredBy
  <2> QED BY <1>1, <2>1, <2>2, <2>3
<1>3. ASSUME CoveredBy(s, p)
      PROVE  CoveredBy(s \o t, p)
  BY <1>1, <1>3 DEF CoveredBy
<1>4. ASSUME CoveredBy(t, p)
      PROVE  CoveredBy(s \o t, p)
  <2>1. PICK i \in 1 .. Len(t) : Covers(t[i], p)
    BY <1>1, <1>4 DEF CoveredBy
  <2>2. Len(s) + i \in 1 .. (Len(s) + Len(t))
    BY <1>1
  <2> QED BY <1>1, <2>1, <2>2 DEF CoveredBy
<1> QED BY <1>2, <1>3, <1>4

\* The fields of damage that has been built.
LEMMA DamageFields ==
  ASSUME NEW c, NEW d, Built(d, c)
  PROVE  /\ d.dirty \in Seq(DirtyRects(c)) /\ d.moves \in Seq(MoveRects(c))
         /\ d.full = FALSE /\ d.overflow \in BOOLEAN
         /\ Len(d.dirty) \in Nat /\ Len(d.dirty) <= MaxDirtyRects
         /\ Len(d.moves) \in Nat /\ Len(d.moves) <= MaxMoveRects
<1>1. /\ d.dirty \in Seq(DirtyRects(c)) /\ d.moves \in Seq(MoveRects(c))
      /\ d.full \in {FALSE} /\ d.overflow \in BOOLEAN
  BY DEF Built
<1>2. Len(d.dirty) \in Nat /\ Len(d.moves) \in Nat
  BY <1>1
<1> QED BY <1>1, <1>2 DEF Built

\* Damage that overflows loses none of its rectangles.
LEMMA Overflown ==
  ASSUME NEW c, NEW d, Built(d, c)
  PROVE  Overflow(d).overflow = TRUE /\ Grows(d, Overflow(d), c)
<1>1. /\ Overflow(d).dirty = d.dirty /\ Overflow(d).moves = d.moves
      /\ Overflow(d).overflow = TRUE
      /\ Overflow(d) \in [dirty : Seq(DirtyRects(c)), moves : Seq(MoveRects(c)),
                          full : {FALSE}, overflow : BOOLEAN]
  BY DEF Overflow, Built
<1> QED BY <1>1 DEF Grows, Built

\* What append_dirty and append_pending do with a rectangle once mapped.
WithMapped(d, m) ==
  IF m.status = "empty" THEN d
  ELSE IF m.status = "unrepresentable" \/ Len(d.dirty) >= MaxDirtyRects
  THEN Overflow(d)
  ELSE [d EXCEPT !.dirty = Append(@, m.rect)]

\* Appending what a rectangle maps to, as append_dirty does.
LEMMA AppendMapped ==
  ASSUME NEW c, NEW d, Built(d, c), NEW m, NEW e,
         m.status \in {"mapped", "empty", "unrepresentable"},
         m.status = "mapped" => m.rect \in DirtyRects(c),
         e = WithMapped(d, m)
  PROVE  /\ Grows(d, e, c)
         /\ ~e.overflow => m.status # "unrepresentable"
         /\ ~e.overflow /\ m.status = "mapped"
              => \A p : Covers(m.rect, p) => CoveredBy(e.dirty, p)
<1>0. /\ d.dirty \in Seq(DirtyRects(c)) /\ d.moves \in Seq(MoveRects(c))
      /\ d.full = FALSE /\ d.overflow \in BOOLEAN
      /\ Len(d.dirty) \in Nat /\ Len(d.dirty) <= MaxDirtyRects
      /\ Len(d.moves) \in Nat /\ Len(d.moves) <= MaxMoveRects
  BY DamageFields
<1>1. CASE m.status = "empty"
  BY <1>1 DEF Grows, WithMapped
<1>2. CASE m.status # "empty" /\ (m.status = "unrepresentable"
                                  \/ Len(d.dirty) >= MaxDirtyRects)
  <2>1. e = Overflow(d)
    BY <1>2 DEF WithMapped
  <2> QED BY <2>1, Overflown
<1>3. CASE m.status = "mapped" /\ ~(Len(d.dirty) >= MaxDirtyRects)
  <2> DEFINE dirty == Append(d.dirty, m.rect)
  <2>1. e = [d EXCEPT !.dirty = dirty]
    BY <1>3 DEF WithMapped
  <2>2. /\ dirty \in Seq(DirtyRects(c)) /\ Len(dirty) = Len(d.dirty) + 1
        /\ \A p : CoveredBy(dirty, p) <=> CoveredBy(d.dirty, p)
                                          \/ Covers(m.rect, p)
    BY <1>0, <1>3, CoveredByAppend
  <2>3. Len(dirty) <= MaxDirtyRects
    BY <1>0, <1>3, <2>2, RectsAssumption
  <2> HIDE DEF dirty
  <2>4. /\ e.dirty = dirty /\ e.moves = d.moves /\ e.overflow = d.overflow
        /\ e \in [dirty : Seq(DirtyRects(c)), moves : Seq(MoveRects(c)),
                  full : {FALSE}, overflow : BOOLEAN]
    BY <2>1, <2>2 DEF Built
  <2>5. Built(e, c)
    BY <1>0, <2>3, <2>4 DEF Built
  <2>6. Grows(d, e, c)
    BY <2>2, <2>4, <2>5 DEF Grows
  <2> QED BY <1>3, <2>2, <2>4, <2>6
<1> QED BY <1>1, <1>2, <1>3

\* append_dirty: what shows a pixel of the rectangle, of the region, is dirty.
LEMMA AppendDirtyCovers ==
  ASSUME NEW c, Capturable(c), ~DriverScales(c), NEW d, Built(d, c),
         NEW r \in RectType, NEW e, e = AppendDirty(d, r, c)
  PROVE  /\ Grows(d, e, c)
         /\ ~e.overflow => \A p \in OutputPixels(c) :
              Covers(r, Taps(GeometryOf(c), p)) => CoveredBy(e.dirty, p)
<1> DEFINE g == GeometryOf(c)
           m == IF Deterministic(c) THEN PlanarDamage(r, g) ELSE ScaleRect(r, g)
<1>1. /\ Extents(g) /\ ValidGeometry(g) /\ OutputPixels(c) = Outputs(g)
      /\ ~Deterministic(c) => ~Scaled(g)
  BY CaptureExtents
<1>2. Maps(m, r, g)
  <2> HIDE DEF g
  <2>1. CASE Deterministic(c)
    BY <1>1, <2>1, PlanarDamageMaps
  <2>2. CASE ~Deterministic(c)
    BY <1>1, <2>2, ScaleRectMaps
  <2> QED BY <2>1, <2>2
<1>3. e = WithMapped(d, m)
  BY DEF AppendDirty, WithMapped
<1> HIDE DEF m
<1>4. /\ m.status \in {"mapped", "empty", "unrepresentable"}
      /\ m.status = "mapped" => m.rect \in DirtyRects(c)
  BY <1>2 DEF Maps, DirtyRects, Publishable
<1>5. /\ Grows(d, e, c)
      /\ ~e.overflow => m.status # "unrepresentable"
      /\ ~e.overflow /\ m.status = "mapped"
              => \A p : Covers(m.rect, p) => CoveredBy(e.dirty, p)
  BY <1>3, <1>4, AppendMapped
<1> HIDE DEF g
<1>6. ~e.overflow => \A p \in OutputPixels(c) :
              Covers(r, Taps(g, p)) => CoveredBy(e.dirty, p)
  BY <1>1, <1>2, <1>5 DEF Maps
<1> QED BY <1>5, <1>6 DEF g

-----------------------------------------------------------------------------
(* Windows Graphics Capture.                                               *)

\* A rectangle of the desktop, clipped to the region.
LEMMA ClipShown ==
  ASSUME NEW c, Capturable(c), NEW r \in RectType
  PROVE  LET m == ClipToRegion(r, c.region)
         IN  /\ m.status \in {"mapped", "empty"}
             /\ m.status = "empty" <=> m = Empty
             /\ m.status = "mapped" =>
                  /\ m.rect \in RectType
                  /\ InBounds(m.rect, c.region.w, c.region.h)
             /\ \A p \in OutputPixels(c) :
                  Covers(r, Shown(c, p))
                    <=> /\ m.status = "mapped"
                        /\ Covers(m.rect, Taps(GeometryOf(c), p))
<1> DEFINE g == GeometryOf(c)
           m == ClipToRegion(r, c.region)
<1>1. /\ Extents(g) /\ c.region \in RectType
      /\ g.sw = c.region.w /\ g.sh = c.region.h
      /\ g.ow = c.out.w /\ g.oh = c.out.h
      /\ OutputPixels(c) = Outputs(g)
  BY CaptureExtents
<1>2. /\ m.status \in {"mapped", "empty"}
      /\ m.status = "empty" <=> m = Empty
      /\ m.status = "mapped" =>
           /\ m.rect \in RectType
           /\ InBounds(m.rect, c.region.w, c.region.h)
      /\ \A i \in 0 .. (c.region.w - 1), j \in 0 .. (c.region.h - 1) :
           Covers(r, <<c.region.x + i, c.region.y + j>>)
             <=> m.status = "mapped" /\ Covers(m.rect, <<i, j>>)
  BY <1>1, ClipCovers
<1> HIDE DEF m, g
<1>3. ASSUME NEW p \in OutputPixels(c)
      PROVE  Covers(r, Shown(c, p))
               <=> m.status = "mapped" /\ Covers(m.rect, Taps(g, p))
  <2> DEFINE i == PointTap(p[1], g.sw, g.ow)
             j == PointTap(p[2], g.sh, g.oh)
  <2>1. i \in 0 .. (c.region.w - 1) /\ j \in 0 .. (c.region.h - 1)
    BY <1>1, TapsInside
  <2>2. Taps(g, p) = <<i, j>> /\ Shown(c, p) = <<c.region.x + i, c.region.y + j>>
    BY <1>1 DEF Taps, Shown
  <2> HIDE DEF i, j
  <2> QED BY <1>2, <2>1, <2>2
<1> QED BY <1>2, <1>3 DEF m, g

\* map_source_damage_rect, map_source_deterministic_planar_damage_rect
SourceMapped(r, c) ==
  IF Deterministic(c) THEN SourcePlanarDamage(r, c.region, GeometryOf(c))
  ELSE SourceDamage(r, c.region, GeometryOf(c))

MapsShown(m, r, c) ==
  /\ m.status \in {"mapped", "empty", "unrepresentable"}
  /\ m.status = "mapped" =>
       /\ m.rect \in DirtyRects(c)
       /\ \A p \in OutputPixels(c) : Covers(r, Shown(c, p)) => Covers(m.rect, p)
  /\ m.status = "empty" => \A p \in OutputPixels(c) : ~Covers(r, Shown(c, p))

\* A rectangle of the source maps to all the pixels that show it.
LEMMA SourceMaps ==
  ASSUME NEW c, Capturable(c), ~DriverScales(c), NEW r \in RectType
  PROVE  MapsShown(SourceMapped(r, c), r, c)
<1> DEFINE g == GeometryOf(c)
           clip == ClipToRegion(r, c.region)
           m == IF Deterministic(c) THEN PlanarDamage(clip.rect, g)
                ELSE LocalDamage(clip.rect, g)
<1>1. /\ Extents(g) /\ ValidGeometry(g) /\ OutputPixels(c) = Outputs(g)
      /\ ~Deterministic(c) => ~Scaled(g)
  BY CaptureExtents
<1>2. /\ clip.status \in {"mapped", "empty"}
      /\ clip.status = "mapped" => clip.rect \in RectType
      /\ \A p \in OutputPixels(c) :
           Covers(r, Shown(c, p))
             <=> clip.status = "mapped" /\ Covers(clip.rect, Taps(g, p))
  BY ClipShown
<1>3. SourceMapped(r, c) = IF clip.status = "mapped" THEN m ELSE clip
  BY DEF SourceMapped, SourceDamage, SourcePlanarDamage
<1> HIDE DEF g, clip
<1>4. CASE clip.status = "empty"
  <2>1. SourceMapped(r, c) = clip
    BY <1>3, <1>4
  <2> QED BY <1>2, <1>4, <2>1 DEF MapsShown
<1>5. CASE clip.status = "mapped"
  <2>1. Maps(m, clip.rect, g)
    <3>1. CASE Deterministic(c)
      BY <1>1, <1>2, <1>5, <3>1, PlanarDamageMaps
    <3>2. CASE ~Deterministic(c)
      BY <1>1, <1>2, <1>5, <3>2, LocalDamageMaps
    <3> QED BY <3>1, <3>2
  <2>2. SourceMapped(r, c) = m
    BY <1>3, <1>5
  <2> HIDE DEF m
  <2>3. m.status = "mapped" => m.rect \in DirtyRects(c)
    BY <2>1 DEF Maps, DirtyRects, Publishable, g
  <2> QED BY <1>1, <1>2, <1>5, <2>1, <2>2, <2>3 DEF MapsShown, Maps
<1> QED BY <1>2, <1>4, <1>5

\* One more dirty rectangle of the source is accounted for.
LEMMA AppendPendingCovers ==
  ASSUME NEW c, Capturable(c), ~DriverScales(c), NEW d, Built(d, c),
         NEW r \in RectType, NEW e, e = AppendPending(d, r, c)
  PROVE  /\ Grows(d, e, c)
         /\ ~e.overflow => \A p \in OutputPixels(c) :
              Covers(r, Shown(c, p)) => CoveredBy(e.dirty, p)
<1> DEFINE m == SourceMapped(r, c)
<1>1. MapsShown(m, r, c)
  BY SourceMaps
<1>2. e = IF d.overflow THEN d ELSE WithMapped(d, m)
  BY DEF AppendPending, WithMapped, SourceMapped
<1> HIDE DEF m
<1>3. CASE d.overflow
  <2>1. e = d
    BY <1>2, <1>3
  <2> QED BY <1>3, <2>1 DEF Grows
<1>4. CASE ~d.overflow
  <2>1. e = WithMapped(d, m)
    BY <1>2, <1>4
  <2>2. /\ m.status \in {"mapped", "empty", "unrepresentable"}
        /\ m.status = "mapped" => m.rect \in DirtyRects(c)
    BY <1>1 DEF MapsShown
  <2>3. /\ Grows(d, e, c)
        /\ ~e.overflow => m.status # "unrepresentable"
        /\ ~e.overflow /\ m.status = "mapped"
              => \A p : Covers(m.rect, p) => CoveredBy(e.dirty, p)
    BY <2>1, <2>2, AppendMapped
  <2> QED BY <1>1, <2>3 DEF MapsShown
<1> QED BY <1>3, <1>4

\* The recursive definition of the damage of a WGC frame.
LEMMA PendingUnfolds ==
  ASSUME NEW c, NEW pending, Len(pending) \in Nat
  PROVE  LET f == PendingDamage(pending, c)
         IN  /\ f[0] = NoDamage
             /\ \A i \in 1 .. Len(pending) :
                  f[i] = AppendPending(f[i - 1], pending[i], c)
<1> DEFINE Solves(f, n) ==
             f = [i \in 0 .. n |->
                    IF i = 0 THEN NoDamage
                    ELSE AppendPending(f[i - 1], pending[i], c)]
           T == {n \in Nat : \E f : Solves(f, n)}
<1>1. 0 \in T
  <2>1. Solves([i \in 0 .. 0 |-> NoDamage], 0)
    OBVIOUS
  <2> QED BY <2>1
<1>2. ASSUME NEW n \in Nat, n \in T
      PROVE  n + 1 \in T
  <2>1. PICK f : Solves(f, n)
    BY <1>2
  <2> DEFINE h == [i \in 0 .. (n + 1) |->
                     IF i <= n THEN f[i]
                     ELSE AppendPending(f[n], pending[n + 1], c)]
             Step(i) == IF i = 0 THEN NoDamage
                        ELSE AppendPending(h[i - 1], pending[i], c)
  <2>2. ASSUME NEW i \in 0 .. (n + 1)
        PROVE  h[i] = Step(i)
    <3>1. CASE i = 0
      BY <2>1, <3>1
    <3>2. CASE i \in 1 .. n
      <4>1. h[i] = f[i] /\ h[i - 1] = f[i - 1]
        BY <3>2
      <4>2. f[i] = AppendPending(f[i - 1], pending[i], c)
        BY <2>1, <3>2
      <4> QED BY <3>2, <4>1, <4>2
    <3>3. CASE i = n + 1
      <4>1. h[i] = AppendPending(f[n], pending[n + 1], c) /\ h[n] = f[n]
        BY <3>3
      <4> QED BY <3>3, <4>1
    <3> QED BY <3>1, <3>2, <3>3
  <2>3. h = [i \in 0 .. (n + 1) |-> Step(i)]
    BY <2>2
  <2>4. Solves(h, n + 1)
    BY <2>3
  <2>5. \E k : Solves(k, n + 1)
    <3> HIDE DEF h, Solves
    <3> QED BY <2>4
  <2>6. n + 1 \in Nat
    OBVIOUS
  <2> HIDE DEF Solves
  <2> QED BY <2>5, <2>6
<1>3. Len(pending) \in T
  <2> HIDE DEF T
  <2> QED BY <1>1, <1>2, SetInduction
<1> DEFINE f == CHOOSE k : Solves(k, Len(pending))
<1>4. Solves(f, Len(pending))
  BY <1>3
<1>5. PendingDamage(pending, c) = f
  BY DEF PendingDamage
<1> HIDE DEF f
<1>6. /\ f[0] = NoDamage
      /\ \A i \in 1 .. Len(pending) :
           f[i] = AppendPending(f[i - 1], pending[i], c)
  BY <1>4
<1> QED BY <1>5, <1>6

\* The recursive definition of the damage of a frame's moves.
LEMMA MovedUnfolds ==
  ASSUME NEW c, NEW moves, Len(moves) \in Nat
  PROVE  LET f == MovedDamage(moves, c)
         IN  /\ f[0] = NoDamage
             /\ \A i \in 1 .. Len(moves) :
                  f[i] = AppendMove(f[i - 1], moves[i], c)
<1> DEFINE Solves(f, n) ==
             f = [i \in 0 .. n |->
                    IF i = 0 THEN NoDamage
                    ELSE AppendMove(f[i - 1], moves[i], c)]
           T == {n \in Nat : \E f : Solves(f, n)}
<1>1. 0 \in T
  <2>1. Solves([i \in 0 .. 0 |-> NoDamage], 0)
    OBVIOUS
  <2> QED BY <2>1
<1>2. ASSUME NEW n \in Nat, n \in T
      PROVE  n + 1 \in T
  <2>1. PICK f : Solves(f, n)
    BY <1>2
  <2> DEFINE h == [i \in 0 .. (n + 1) |->
                     IF i <= n THEN f[i]
                     ELSE AppendMove(f[n], moves[n + 1], c)]
             Step(i) == IF i = 0 THEN NoDamage
                        ELSE AppendMove(h[i - 1], moves[i], c)
  <2>2. ASSUME NEW i \in 0 .. (n + 1)
        PROVE  h[i] = Step(i)
    <3>1. CASE i = 0
      BY <2>1, <3>1
    <3>2. CASE i \in 1 .. n
      <4>1. h[i] = f[i] /\ h[i - 1] = f[i - 1]
        BY <3>2
      <4>2. f[i] = AppendMove(f[i - 1], moves[i], c)
        BY <2>1, <3>2
      <4> QED BY <3>2, <4>1, <4>2
    <3>3. CASE i = n + 1
      <4>1. h[i] = AppendMove(f[n], moves[n + 1], c) /\ h[n] = f[n]
        BY <3>3
      <4> QED BY <3>3, <4>1
    <3> QED BY <3>1, <3>2, <3>3
  <2>3. h = [i \in 0 .. (n + 1) |-> Step(i)]
    BY <2>2
  <2>4. Solves(h, n + 1)
    BY <2>3
  <2>5. \E k : Solves(k, n + 1)
    <3> HIDE DEF h, Solves
    <3> QED BY <2>4
  <2>6. n + 1 \in Nat
    OBVIOUS
  <2> HIDE DEF Solves
  <2> QED BY <2>5, <2>6
<1>3. Len(moves) \in T
  <2> HIDE DEF T
  <2> QED BY <1>1, <1>2, SetInduction
<1> DEFINE f == CHOOSE k : Solves(k, Len(moves))
<1>4. Solves(f, Len(moves))
  BY <1>3
<1>5. MovedDamage(moves, c) = f
  BY DEF MovedDamage
<1> HIDE DEF f
<1>6. /\ f[0] = NoDamage
      /\ \A i \in 1 .. Len(moves) :
           f[i] = AppendMove(f[i - 1], moves[i], c)
  BY <1>4
<1> QED BY <1>5, <1>6

\* The recursive definition of the damage of its dirty rectangles.
LEMMA DirtiedUnfolds ==
  ASSUME NEW c, NEW d, NEW dirty, Len(dirty) \in Nat
  PROVE  LET f == DirtiedDamage(d, dirty, c)
         IN  /\ f[0] = d
             /\ \A i \in 1 .. Len(dirty) :
                  f[i] = AppendDirtyRect(f[i - 1], dirty[i], c)
<1> DEFINE Solves(f, n) ==
             f = [i \in 0 .. n |->
                    IF i = 0 THEN d
                    ELSE AppendDirtyRect(f[i - 1], dirty[i], c)]
           T == {n \in Nat : \E f : Solves(f, n)}
<1>1. 0 \in T
  <2>1. Solves([i \in 0 .. 0 |-> d], 0)
    OBVIOUS
  <2> QED BY <2>1
<1>2. ASSUME NEW n \in Nat, n \in T
      PROVE  n + 1 \in T
  <2>1. PICK f : Solves(f, n)
    BY <1>2
  <2> DEFINE h == [i \in 0 .. (n + 1) |->
                     IF i <= n THEN f[i]
                     ELSE AppendDirtyRect(f[n], dirty[n + 1], c)]
             Step(i) == IF i = 0 THEN d
                        ELSE AppendDirtyRect(h[i - 1], dirty[i], c)
  <2>2. ASSUME NEW i \in 0 .. (n + 1)
        PROVE  h[i] = Step(i)
    <3>1. CASE i = 0
      BY <2>1, <3>1
    <3>2. CASE i \in 1 .. n
      <4>1. h[i] = f[i] /\ h[i - 1] = f[i - 1]
        BY <3>2
      <4>2. f[i] = AppendDirtyRect(f[i - 1], dirty[i], c)
        BY <2>1, <3>2
      <4> QED BY <3>2, <4>1, <4>2
    <3>3. CASE i = n + 1
      <4>1. h[i] = AppendDirtyRect(f[n], dirty[n + 1], c) /\ h[n] = f[n]
        BY <3>3
      <4> QED BY <3>3, <4>1
    <3> QED BY <3>1, <3>2, <3>3
  <2>3. h = [i \in 0 .. (n + 1) |-> Step(i)]
    BY <2>2
  <2>4. Solves(h, n + 1)
    BY <2>3
  <2>5. \E k : Solves(k, n + 1)
    <3> HIDE DEF h, Solves
    <3> QED BY <2>4
  <2>6. n + 1 \in Nat
    OBVIOUS
  <2> HIDE DEF Solves
  <2> QED BY <2>5, <2>6
<1>3. Len(dirty) \in T
  <2> HIDE DEF T
  <2> QED BY <1>1, <1>2, SetInduction
<1> DEFINE f == CHOOSE k : Solves(k, Len(dirty))
<1>4. Solves(f, Len(dirty))
  BY <1>3
<1>5. DirtiedDamage(d, dirty, c) = f
  BY DEF DirtiedDamage
<1> HIDE DEF f
<1>6. /\ f[0] = d
      /\ \A i \in 1 .. Len(dirty) :
           f[i] = AppendDirtyRect(f[i - 1], dirty[i], c)
  BY <1>4
<1> QED BY <1>5, <1>6

\* No damage is well built.
LEMMA NothingBuilt ==
  ASSUME NEW c
  PROVE  /\ Built(NoDamage, c) /\ ~NoDamage.overflow
         /\ NoDamage.moves = <<>> /\ NoDamage.dirty = <<>>
<1>1. /\ NoDamage.moves = <<>> /\ NoDamage.dirty = <<>>
      /\ NoDamage.overflow = FALSE /\ NoDamage.full = FALSE
      /\ Len(<<>>) = 0
  BY DEF NoDamage
<1>2. <<>> \in Seq(DirtyRects(c)) /\ <<>> \in Seq(MoveRects(c))
  OBVIOUS
<1>3. NoDamage \in [dirty : Seq(DirtyRects(c)), moves : Seq(MoveRects(c)),
                    full : {FALSE}, overflow : BOOLEAN]
  BY <1>2 DEF NoDamage
<1>4. Len(NoDamage.dirty) = 0 /\ Len(NoDamage.moves) = 0
  BY <1>1
<1>5. 0 <= MaxDirtyRects /\ 0 <= MaxMoveRects
  BY RectsAssumption
<1>6. Len(NoDamage.dirty) <= MaxDirtyRects /\ Len(NoDamage.moves) <= MaxMoveRects
  BY <1>4, <1>5
<1>7. Built(NoDamage, c)
  BY <1>3, <1>6, Zenon DEF Built
<1> QED BY <1>1, <1>7

\* Growing is transitive.
LEMMA GrowsOn ==
  ASSUME NEW c, NEW d, NEW e, NEW f, Grows(d, e, c), Grows(e, f, c)
  PROVE  Grows(d, f, c)
  BY DEF Grows

\* The damage after the first k pending rectangles.
PendingCovered(f, k, pending, c) ==
  /\ Grows(NoDamage, f[k], c)
  /\ ~f[k].overflow =>
       \A p \in OutputPixels(c), i \in 1 .. k :
          Covers(pending[i], Shown(c, p)) => CoveredBy(f[k].dirty, p)

\* The damage of a WGC frame covers everything reported dirty.
LEMMA PendingCovers ==
  ASSUME NEW c, Capturable(c), ~DriverScales(c),
         NEW pending \in Seq(RectType)
  PROVE  PendingCovered(PendingDamage(pending, c), Len(pending), pending, c)
<1> DEFINE f == PendingDamage(pending, c)
           n == Len(pending)
           T == {k \in Nat : k <= n => PendingCovered(f, k, pending, c)}
<1>1. n \in Nat /\ \A i \in 1 .. n : pending[i] \in RectType
  OBVIOUS
<1>2. /\ f[0] = NoDamage
      /\ \A i \in 1 .. n : f[i] = AppendPending(f[i - 1], pending[i], c)
  BY <1>1, PendingUnfolds
<1> HIDE DEF f, n
<1>3. 0 \in T
  <2>1. Grows(NoDamage, NoDamage, c)
    BY NothingBuilt DEF Grows
  <2>2. PendingCovered(f, 0, pending, c)
    BY <1>2, <2>1 DEF PendingCovered
  <2> QED BY <2>2
<1>4. ASSUME NEW k \in Nat, k \in T
      PROVE  k + 1 \in T
  <2> SUFFICES ASSUME k + 1 <= n
               PROVE  PendingCovered(f, k + 1, pending, c)
    OBVIOUS
  <2>1. k + 1 \in 1 .. n /\ (k + 1) - 1 = k /\ k <= n
    BY <1>1
  <2>2. PendingCovered(f, k, pending, c)
    BY <1>4, <2>1
  <2> HIDE DEF T
  <2>3. f[k + 1] = AppendPending(f[k], pending[k + 1], c)
    BY <1>2, <2>1
  <2>4. Built(f[k], c) /\ pending[k + 1] \in RectType
    BY <1>1, <2>1, <2>2 DEF PendingCovered, Grows
  <2> DEFINE r == pending[k + 1]
             d == f[k]
             e == f[k + 1]
  <2>5. /\ Grows(d, e, c)
        /\ ~e.overflow => \A p \in OutputPixels(c) :
             Covers(r, Shown(c, p)) => CoveredBy(e.dirty, p)
    <3> HIDE DEF d, e, r
    <3> QED BY <2>3, <2>4, AppendPendingCovers DEF d, e, r
  <2>6. Grows(NoDamage, e, c)
    BY <2>2, <2>5, GrowsOn DEF PendingCovered
  <2>7. ASSUME ~e.overflow, NEW p \in OutputPixels(c), NEW i \in 1 .. (k + 1),
               Covers(pending[i], Shown(c, p))
        PROVE  CoveredBy(e.dirty, p)
    <3>1. CASE i = k + 1
      BY <2>5, <2>7, <3>1
    <3>2. CASE i # k + 1
      <4>1. i \in 1 .. k
        BY <3>2
      <4>2. CoveredBy(d.dirty, p)
        BY <2>2, <2>5, <2>7, <4>1 DEF PendingCovered, Grows
      <4> QED BY <2>5, <4>2 DEF Grows
    <3> QED BY <3>1, <3>2
  <2> HIDE DEF d, e
  <2>8. PendingCovered(f, k + 1, pending, c)
    BY <2>6, <2>7 DEF PendingCovered, e
  <2> QED BY <2>8
<1>5. n \in T
  <2> HIDE DEF T
  <2> QED BY <1>1, <1>3, <1>4, SetInduction
<1> QED BY <1>1, <1>5 DEF f, n

-----------------------------------------------------------------------------
(* Rotation: a pixel of the desktop as the user sees it, on the surface.   *)

Points == Int \X Int

OnSurface(c, q) ==
  CASE c.rotation = 0 -> q
    [] c.rotation = 90 -> <<q[2], c.surface.h - 1 - q[1]>>
    [] c.rotation = 180 -> <<c.surface.w - 1 - q[1], c.surface.h - 1 - q[2]>>
    [] c.rotation = 270 -> <<c.surface.w - 1 - q[2], q[1]>>

Logical(r, c) == ToLogical(r, c.surface.w, c.surface.h, c.rotation)

\* The surface of an accepted capture.
LEMMA CaptureSurface ==
  ASSUME NEW c, Capturable(c)
  PROVE  /\ c.rotation \in {0, 90, 180, 270}
         /\ c.surface.w \in Nat \ {0} /\ c.surface.h \in Nat \ {0}
         /\ c.region.x \in Int /\ c.region.y \in Int
         /\ c.region.w \in Nat /\ c.region.h \in Nat
         /\ c.region \in RectType
         /\ c.backend # "duplication" => c.rotation = 0
  BY CapturesAssumption DEF Capturable, Rotations, RectType

\* What a pixel shows is a point of the desktop.
LEMMA ShownPoints ==
  ASSUME NEW c, Capturable(c), NEW p \in OutputPixels(c)
  PROVE  Shown(c, p) \in Points
<1> DEFINE g == GeometryOf(c)
<1>1. /\ Extents(g) /\ g.sw = c.region.w /\ g.sh = c.region.h
      /\ g.ow = c.out.w /\ g.oh = c.out.h /\ OutputPixels(c) = Outputs(g)
  BY CaptureExtents
<1>2. c.region.x \in Int /\ c.region.y \in Int
  BY CaptureSurface
<1> HIDE DEF g
<1>3. /\ PointTap(p[1], c.region.w, c.out.w) \in Int
      /\ PointTap(p[2], c.region.h, c.out.h) \in Int
  <2>1. /\ PointTap(p[1], g.sw, g.ow) \in 0 .. (g.sw - 1)
        /\ PointTap(p[2], g.sh, g.oh) \in 0 .. (g.sh - 1)
    BY <1>1, TapsInside
  <2> QED BY <1>1, <2>1
<1> QED BY <1>2, <1>3 DEF Shown, Points

\* load_output_rgb reads the surface at the pixel the user sees there.
LEMMA SurfaceShown ==
  ASSUME NEW c, Capturable(c), NEW x \in Int, NEW y \in Int
  PROVE  SurfacePixel(c, x, y) = OnSurface(c, <<c.region.x + x, c.region.y + y>>)
<1> DEFINE w == c.surface.w
           h == c.surface.h
           r == c.region
           on == ToSurface(r, w, h, c.rotation)
<1>1. /\ c.rotation \in {0, 90, 180, 270} /\ w \in Int /\ h \in Int
      /\ r.x \in Int /\ r.y \in Int /\ r.w \in Int /\ r.h \in Int
  BY CaptureSurface
<1>2. SurfacePixel(c, x, y) =
        CASE c.rotation = 0 -> <<on.x + x, on.y + y>>
          [] c.rotation = 90 -> <<on.x + y, Bottom(on) - 1 - x>>
          [] c.rotation = 180 -> <<Right(on) - 1 - x, Bottom(on) - 1 - y>>
          [] c.rotation = 270 -> <<Right(on) - 1 - y, on.y + x>>
  BY DEF SurfacePixel
<1>3. on = CASE c.rotation = 0 -> r
             [] c.rotation = 90 -> Rect(r.y, h - Right(r), r.h, r.w)
             [] c.rotation = 180 ->
                  Rect(w - Right(r), h - Bottom(r), r.w, r.h)
             [] c.rotation = 270 -> Rect(w - Bottom(r), r.x, r.h, r.w)
  BY DEF ToSurface
<1>4. Right(r) = r.x + r.w /\ Bottom(r) = r.y + r.h
  BY DEF Right, Bottom
<1> DEFINE q == <<r.x + x, r.y + y>>
<1>5. OnSurface(c, q) =
        CASE c.rotation = 0 -> q
          [] c.rotation = 90 -> <<q[2], h - 1 - q[1]>>
          [] c.rotation = 180 -> <<w - 1 - q[1], h - 1 - q[2]>>
          [] c.rotation = 270 -> <<w - 1 - q[2], q[1]>>
  BY DEF OnSurface
<1>6. q[1] = r.x + x /\ q[2] = r.y + y
  OBVIOUS
<1> HIDE DEF w, h, on, r, q
<1>7. CASE c.rotation = 0
  <2>1. on = r
    BY <1>3, <1>7
  <2> QED BY <1>2, <1>5, <1>7, <2>1 DEF r, q
<1>8. CASE c.rotation = 90
  <2>1. on.x = r.y /\ Bottom(on) = (h - Right(r)) + r.w
    BY <1>3, <1>8, RectFields
  <2>2. on.x + y = q[2] /\ Bottom(on) - 1 - x = h - 1 - q[1]
    BY <1>1, <1>4, <1>6, <2>1
  <2>3. SurfacePixel(c, x, y) = <<on.x + y, Bottom(on) - 1 - x>>
    BY <1>2, <1>8
  <2>4. OnSurface(c, q) = <<q[2], h - 1 - q[1]>>
    BY <1>5, <1>8
  <2> QED BY <2>2, <2>3, <2>4 DEF r, q
<1>9. CASE c.rotation = 180
  <2>1. /\ Right(on) = (w - Right(r)) + r.w
        /\ Bottom(on) = (h - Bottom(r)) + r.h
    BY <1>3, <1>9, RectFields
  <2>2. Right(on) - 1 - x = w - 1 - q[1] /\ Bottom(on) - 1 - y = h - 1 - q[2]
    <3>1. \A a, b, d, e \in Int :
            (a - (b + d)) + d - 1 - e = a - 1 - (b + e)
      OBVIOUS
    <3>2. /\ Right(on) = (w - (r.x + r.w)) + r.w /\ q[1] = r.x + x
          /\ Bottom(on) = (h - (r.y + r.h)) + r.h /\ q[2] = r.y + y
      BY <1>4, <1>6, <2>1
    <3> QED BY <1>1, <3>1, <3>2
  <2>3. SurfacePixel(c, x, y) = <<Right(on) - 1 - x, Bottom(on) - 1 - y>>
    BY <1>2, <1>9
  <2>4. OnSurface(c, q) = <<w - 1 - q[1], h - 1 - q[2]>>
    BY <1>5, <1>9
  <2> QED BY <2>2, <2>3, <2>4 DEF r, q
<1>10. CASE c.rotation = 270
  <2>1. Right(on) = (w - Bottom(r)) + r.h /\ on.y = r.x
    BY <1>3, <1>10, RectFields
  <2>2. Right(on) - 1 - y = w - 1 - q[2] /\ on.y + x = q[1]
    BY <1>1, <1>4, <1>6, <2>1
  <2>3. SurfacePixel(c, x, y) = <<Right(on) - 1 - y, on.y + x>>
    BY <1>2, <1>10
  <2>4. OnSurface(c, q) = <<w - 1 - q[2], q[1]>>
    BY <1>5, <1>10
  <2> QED BY <2>2, <2>3, <2>4 DEF r, q
<1> QED BY <1>1, <1>7, <1>8, <1>9, <1>10

\* The shader's pixel of the surface, by way of the desktop.
LEMMA ShownSurfaceIs ==
  ASSUME NEW c, Capturable(c), NEW p \in OutputPixels(c)
  PROVE  ShownSurface(c, p) = OnSurface(c, Shown(c, p))
<1> DEFINE g == GeometryOf(c)
           x == PointTap(p[1], c.region.w, c.out.w)
           y == PointTap(p[2], c.region.h, c.out.h)
<1>1. /\ Extents(g) /\ g.sw = c.region.w /\ g.sh = c.region.h
      /\ g.ow = c.out.w /\ g.oh = c.out.h /\ OutputPixels(c) = Outputs(g)
  BY CaptureExtents
<1> HIDE DEF g
<1>2. x \in Int /\ y \in Int
  <2>1. /\ PointTap(p[1], g.sw, g.ow) \in 0 .. (g.sw - 1)
        /\ PointTap(p[2], g.sh, g.oh) \in 0 .. (g.sh - 1)
    BY <1>1, TapsInside
  <2> QED BY <1>1, <2>1
<1>3. /\ ShownSurface(c, p) = SurfacePixel(c, x, y)
      /\ Shown(c, p) = <<c.region.x + x, c.region.y + y>>
  BY DEF ShownSurface, Shown
<1> HIDE DEF x, y
<1> QED BY <1>2, <1>3, SurfaceShown

\* A rectangle of the surface as the user sees it, field by field.
LEMMA LogicalRects ==
  ASSUME NEW c, Capturable(c), NEW r \in RectType
  PROVE  LET l == Logical(r, c)
             w == c.surface.w
             h == c.surface.h
         IN  /\ l \in RectType
             /\ c.rotation = 0 => l = r
             /\ c.rotation = 90 =>
                  /\ l.x = h - (r.y + r.h) /\ l.y = r.x
                  /\ l.w = r.h /\ l.h = r.w
             /\ c.rotation = 180 =>
                  /\ l.x = w - (r.x + r.w) /\ l.y = h - (r.y + r.h)
                  /\ l.w = r.w /\ l.h = r.h
             /\ c.rotation = 270 =>
                  /\ l.x = r.y /\ l.y = w - (r.x + r.w)
                  /\ l.w = r.h /\ l.h = r.w
<1>1. /\ c.rotation \in {0, 90, 180, 270}
      /\ c.surface.w \in Int /\ c.surface.h \in Int
      /\ r.x \in Int /\ r.y \in Int /\ r.w \in Nat /\ r.h \in Nat
  BY CaptureSurface DEF RectType
<1> DEFINE w == c.surface.w
           h == c.surface.h
           l == Logical(r, c)
<1>2. Right(r) = r.x + r.w /\ Bottom(r) = r.y + r.h
  BY DEF Right, Bottom
<1>3. l = CASE c.rotation = 0 -> r
             [] c.rotation = 90 -> Rect(h - Bottom(r), r.x, r.h, r.w)
             [] c.rotation = 180 ->
                  Rect(w - Right(r), h - Bottom(r), r.w, r.h)
             [] c.rotation = 270 -> Rect(r.y, w - Right(r), r.h, r.w)
  BY DEF Logical, ToLogical
<1> HIDE DEF w, h, l
<1>4. w \in Int /\ h \in Int
  BY <1>1 DEF w, h
<1>5. CASE c.rotation = 0
  BY <1>3, <1>5 DEF l
<1>6. CASE c.rotation = 90
  <2>1. l = Rect(h - Bottom(r), r.x, r.h, r.w)
    BY <1>3, <1>6
  <2>2. h - Bottom(r) \in Int
    BY <1>1, <1>2, <1>4
  <2>3. l \in RectType
    BY <1>1, <2>1, <2>2, RectTyped
  <2>4. l.x = h - Bottom(r) /\ l.y = r.x /\ l.w = r.h /\ l.h = r.w
    BY <2>1, RectFields
  <2> QED BY <1>2, <1>6, <2>3, <2>4 DEF l, h
<1>7. CASE c.rotation = 180
  <2>1. l = Rect(w - Right(r), h - Bottom(r), r.w, r.h)
    BY <1>3, <1>7
  <2>2. h - Bottom(r) \in Int /\ w - Right(r) \in Int
    BY <1>1, <1>2, <1>4
  <2>3. l \in RectType
    BY <1>1, <2>1, <2>2, RectTyped
  <2>4. l.x = w - Right(r) /\ l.y = h - Bottom(r) /\ l.w = r.w /\ l.h = r.h
    BY <2>1, RectFields
  <2> QED BY <1>2, <1>7, <2>3, <2>4 DEF l, h, w
<1>8. CASE c.rotation = 270
  <2>1. l = Rect(r.y, w - Right(r), r.h, r.w)
    BY <1>3, <1>8
  <2>2. w - Right(r) \in Int
    BY <1>1, <1>2, <1>4
  <2>3. l \in RectType
    BY <1>1, <2>1, <2>2, RectTyped
  <2>4. l.x = r.y /\ l.y = w - Right(r) /\ l.w = r.h /\ l.h = r.w
    BY <2>1, RectFields
  <2> QED BY <1>2, <1>8, <2>3, <2>4 DEF l, w
<1> QED BY <1>1, <1>5, <1>6, <1>7, <1>8

\* desktop_duplication_surface_to_logical_rect keeps what a rectangle covers.
LEMMA RotationCovers ==
  ASSUME NEW c, Capturable(c), NEW r \in RectType, NEW q \in Points
  PROVE  Covers(r, OnSurface(c, q)) <=> Covers(Logical(r, c), q)
<1> DEFINE w == c.surface.w
           h == c.surface.h
           l == Logical(r, c)
           o == OnSurface(c, q)
           u == q[1]
           v == q[2]
<1>1. /\ c.rotation \in {0, 90, 180, 270} /\ w \in Int /\ h \in Int
      /\ r.x \in Int /\ r.y \in Int /\ r.w \in Nat /\ r.h \in Nat
      /\ u \in Int /\ v \in Int
  BY CaptureSurface DEF RectType, Points
<1>2. /\ c.rotation = 0 => l = r
      /\ c.rotation = 90 =>
           l.x = h - (r.y + r.h) /\ l.y = r.x /\ l.w = r.h /\ l.h = r.w
      /\ c.rotation = 180 =>
           /\ l.x = w - (r.x + r.w) /\ l.y = h - (r.y + r.h)
           /\ l.w = r.w /\ l.h = r.h
      /\ c.rotation = 270 =>
           l.x = r.y /\ l.y = w - (r.x + r.w) /\ l.w = r.h /\ l.h = r.w
  BY LogicalRects
<1>3. o = CASE c.rotation = 0 -> q
            [] c.rotation = 90 -> <<v, h - 1 - u>>
            [] c.rotation = 180 -> <<w - 1 - u, h - 1 - v>>
            [] c.rotation = 270 -> <<w - 1 - v, u>>
  BY DEF OnSurface
<1>4. /\ Covers(r, o) <=> /\ r.x <= o[1] /\ o[1] < r.x + r.w
                          /\ r.y <= o[2] /\ o[2] < r.y + r.h
      /\ Covers(l, q) <=> /\ l.x <= u /\ u < l.x + l.w
                          /\ l.y <= v /\ v < l.y + l.h
  BY DEF Covers, Right, Bottom
<1> HIDE DEF w, h, l, o, u, v
<1>5. CASE c.rotation = 0
  <2>1. o = q /\ l = r
    BY <1>2, <1>3, <1>5
  <2> QED BY <2>1 DEF o, l
<1>6. CASE c.rotation = 90
  <2>1. o[1] = v /\ o[2] = h - 1 - u
    BY <1>3, <1>6
  <2>2. Covers(r, o) <=> Covers(l, q)
    BY <1>1, <1>2, <1>4, <1>6, <2>1
  <2> QED BY <2>2 DEF o, l
<1>7. CASE c.rotation = 180
  <2>1. o[1] = w - 1 - u /\ o[2] = h - 1 - v
    BY <1>3, <1>7
  <2>2. Covers(r, o) <=> Covers(l, q)
    BY <1>1, <1>2, <1>4, <1>7, <2>1
  <2> QED BY <2>2 DEF o, l
<1>8. CASE c.rotation = 270
  <2>1. o[1] = w - 1 - v /\ o[2] = u
    BY <1>3, <1>8
  <2>2. Covers(r, o) <=> Covers(l, q)
    BY <1>1, <1>2, <1>4, <1>8, <2>1
  <2> QED BY <2>2 DEF o, l
<1> QED BY <1>1, <1>5, <1>6, <1>7, <1>8

\* The pixel of `from` that is moved to q, of a move from (x, y) into r.
Origin(q, r, x, y) == <<q[1] - r.x + x, q[2] - r.y + y>>

\* A move of the surface is a move of the desktop as the user sees it.
LEMMA RotationMoves ==
  ASSUME NEW c, Capturable(c), NEW from \in RectType, NEW to \in RectType,
         from.w = to.w, from.h = to.h, NEW q \in Points
  PROVE  LET f == Logical(from, c)
             t == Logical(to, c)
         IN  Origin(OnSurface(c, q), to, from.x, from.y)
               = OnSurface(c, Origin(q, t, f.x, f.y))
<1> DEFINE w == c.surface.w
           h == c.surface.h
           f == Logical(from, c)
           t == Logical(to, c)
           o == OnSurface(c, q)
           u == q[1]
           v == q[2]
           i == Origin(q, t, f.x, f.y)
           left == Origin(o, to, from.x, from.y)
           right == OnSurface(c, i)
<1>1. /\ c.rotation \in {0, 90, 180, 270} /\ w \in Int /\ h \in Int
      /\ from.x \in Int /\ from.y \in Int /\ from.w \in Nat /\ from.h \in Nat
      /\ to.x \in Int /\ to.y \in Int /\ to.w \in Nat /\ to.h \in Nat
      /\ u \in Int /\ v \in Int /\ q = <<u, v>>
  BY CaptureSurface DEF RectType, Points
<1>2. /\ c.rotation = 0 => f = from /\ t = to
      /\ c.rotation = 90 => /\ f.x = h - (from.y + from.h) /\ f.y = from.x
                            /\ t.x = h - (to.y + to.h) /\ t.y = to.x
      /\ c.rotation = 180 =>
           /\ f.x = w - (from.x + from.w) /\ f.y = h - (from.y + from.h)
           /\ t.x = w - (to.x + to.w) /\ t.y = h - (to.y + to.h)
      /\ c.rotation = 270 => /\ f.x = from.y /\ f.y = w - (from.x + from.w)
                             /\ t.x = to.y /\ t.y = w - (to.x + to.w)
  BY LogicalRects
<1>3. o = CASE c.rotation = 0 -> q
            [] c.rotation = 90 -> <<v, h - 1 - u>>
            [] c.rotation = 180 -> <<w - 1 - u, h - 1 - v>>
            [] c.rotation = 270 -> <<w - 1 - v, u>>
  BY DEF OnSurface
<1>4. right = CASE c.rotation = 0 -> i
                [] c.rotation = 90 -> <<i[2], h - 1 - i[1]>>
                [] c.rotation = 180 -> <<w - 1 - i[1], h - 1 - i[2]>>
                [] c.rotation = 270 -> <<w - 1 - i[2], i[1]>>
  BY DEF OnSurface
<1>5. /\ i[1] = u - t.x + f.x /\ i[2] = v - t.y + f.y
      /\ i = <<u - t.x + f.x, v - t.y + f.y>>
      /\ left = <<o[1] - to.x + from.x, o[2] - to.y + from.y>>
  BY DEF Origin
<1> SUFFICES left = right
  OBVIOUS
<1> HIDE DEF w, h, f, t, o, u, v, i, left, right
<1>6. CASE c.rotation = 0
  <2>1. o[1] = u /\ o[2] = v /\ right = i
    BY <1>1, <1>3, <1>4, <1>6
  <2>2. t = to /\ f = from
    BY <1>2, <1>6
  <2> QED BY <1>5, <2>1, <2>2
<1>7. CASE c.rotation = 90
  <2>1. o[1] = v /\ o[2] = h - 1 - u /\ right = <<i[2], h - 1 - i[1]>>
    BY <1>3, <1>4, <1>7
  <2>2. /\ f.x = h - (from.y + to.h) /\ f.y = from.x
        /\ t.x = h - (to.y + to.h) /\ t.y = to.x
    BY <1>2, <1>7
  <2>3. /\ i[1] = u - (h - (to.y + to.h)) + (h - (from.y + to.h))
        /\ i[2] = v - to.x + from.x
    BY <1>5, <2>2
  <2>4. h - 1 - i[1] = h - 1 - u - to.y + from.y
    <3> DEFINE j == i[1]
               a == to.y
               b == to.h
               d == from.y
    <3>1. /\ h \in Int /\ u \in Int /\ a \in Int /\ b \in Int /\ d \in Int
          /\ j = u - (h - (a + b)) + (h - (d + b))
      BY <1>1, <2>3
    <3> HIDE DEF j, a, b, d
    <3>2. h - 1 - j = h - 1 - u - a + d
      BY <3>1
    <3> QED BY <3>2 DEF j, a, d
  <2>5. /\ o[1] - to.x + from.x = i[2]
        /\ o[2] - to.y + from.y = h - 1 - i[1]
    BY <1>1, <2>1, <2>3, <2>4
  <2> QED BY <1>5, <2>1, <2>5
<1>8. CASE c.rotation = 180
  <2>1. /\ o[1] = w - 1 - u /\ o[2] = h - 1 - v
        /\ right = <<w - 1 - i[1], h - 1 - i[2]>>
    BY <1>3, <1>4, <1>8
  <2>2. /\ o[1] - to.x + from.x = w - 1 - i[1]
        /\ o[2] - to.y + from.y = h - 1 - i[2]
    BY <1>1, <1>2, <1>5, <1>8, <2>1
  <2> QED BY <1>5, <2>1, <2>2
<1>9. CASE c.rotation = 270
  <2>1. o[1] = w - 1 - v /\ o[2] = u /\ right = <<w - 1 - i[2], i[1]>>
    BY <1>3, <1>4, <1>9
  <2>2. /\ o[1] - to.x + from.x = w - 1 - i[2]
        /\ o[2] - to.y + from.y = i[1]
    BY <1>1, <1>2, <1>5, <1>9, <2>1
  <2> QED BY <1>5, <2>1, <2>2
<1> QED BY <1>1, <1>6, <1>7, <1>8, <1>9

-----------------------------------------------------------------------------
(* Moves.                                                                  *)

\* Pixels of the output that are delta apart show source pixels a whole
\* shift apart when delta is exact.
LEMMA TapShifts ==
  ASSUME NEW s \in Nat \ {0}, NEW n \in Nat \ {0},
         NEW shift \in Int, NEW delta \in Int, shift * n = s * delta,
         NEW o \in 0 .. (n - 1), o - delta \in 0 .. (n - 1)
  PROVE  PointTap(o - delta, s, n) = PointTap(o, s, n) - shift
<1> DEFINE t == PointTap(o, s, n)
           a == (2 * (o - delta) + 1) * s
           b == 2 * n
<1>1. t \in Int /\ 2 * n * t <= (2 * o + 1) * s
      /\ (2 * o + 1) * s < 2 * n * t + 2 * n
  BY TapIs
<1>2. PointTap(o - delta, s, n) = a \div b
  BY TapIs
<1> HIDE DEF t
<1>3. a = (2 * o + 1) * s - 2 * (s * delta)
  OBVIOUS
<1>4. a = (2 * o + 1) * s - 2 * (shift * n)
  BY <1>3
<1>5. b * (t - shift) = 2 * n * t - 2 * (shift * n)
  BY <1>1
<1>6. a \in Int /\ b \in Nat \ {0} /\ t - shift \in Int
  BY <1>1
<1>7. b * (t - shift) <= a /\ a < b * (t - shift) + b
  <2> DEFINE x == (2 * o + 1) * s
             y == 2 * n * t
             z == 2 * (shift * n)
  <2>1. x \in Int /\ y \in Int /\ z \in Int
    BY <1>1
  <2>2. a = x - z /\ b * (t - shift) = y - z /\ y <= x /\ x < y + b
    BY <1>1, <1>4, <1>5
  <2> HIDE DEF x, y, z, a, b
  <2>3. y - z <= x - z /\ x - z < (y - z) + b
    BY <1>6, <2>1, <2>2
  <2> QED BY <2>2, <2>3
<1> HIDE DEF a, b
<1>8. a \div b = t - shift
  BY <1>6, <1>7, DivUnique
<1> QED BY <1>2, <1>8 DEF t

\* map_deterministic_planar_move_axis: the pixels of the output that a move
\* of the source fills, and those it fills them from.
MovesAxis(a, from, to, length, s, n) ==
  /\ a.from \in Nat /\ a.to \in Nat /\ a.length \in Nat \ {0}
  /\ a.from % 2 = 0 /\ a.to % 2 = 0 /\ a.length % 2 = 0
  /\ a.from + a.length <= n /\ a.to + a.length <= n
  /\ \A o \in a.to .. (a.to + a.length - 1) :
       /\ to <= PointTap(o, s, n) /\ PointTap(o, s, n) < to + length
       /\ PointTap(o - a.to + a.from, s, n) = PointTap(o, s, n) - to + from

\* What planar_move_axis finds moves whole runs of taps.
LEMMA MoveAxisMoves ==
  ASSUME NEW s \in Nat \ {0}, NEW n \in Nat \ {0},
         NEW from \in Int, NEW to \in Int, NEW length \in Int,
         NEW a \in MoveAxis(from, to, length, s, n)
  PROVE  MovesAxis(a, from, to, length, s, n)
<1> DEFINE delta == ((to - from) * n) \div s
           low == FirstTapAtLeast(to, s, n)
           high == FirstTapAtLeast(to + length, s, n)
           begin == BlockCeil(low)
           end == BlockFloor(high)
<1>1. /\ a = [from |-> begin - delta, to |-> begin, length |-> end - begin]
      /\ ((to - from) * n) % s = 0
      /\ delta % 2 = 0 /\ begin < end
      /\ a.from >= 0 /\ end - delta <= n
  BY DEF MoveAxis
<1>2. /\ low \in 0 .. n /\ high \in 0 .. n
      /\ \A o \in 0 .. (n - 1) : /\ PointTap(o, s, n) < to <=> o < low
                                 /\ PointTap(o, s, n) < to + length <=> o < high
  <2>1. to + length \in Int
    OBVIOUS
  <2>2. Splits(low, to, s, n) /\ Splits(high, to + length, s, n)
    BY <2>1, FirstTapSplits
  <2> HIDE DEF low, high
  <2> QED BY <2>2 DEF Splits
<1>3. /\ begin \in Int /\ low <= begin /\ begin % 2 = 0
      /\ end \in Int /\ end <= high /\ end % 2 = 0
  <2> HIDE DEF low, high
  <2>1. low \in Int /\ high \in Int
    BY <1>2
  <2>2. low <= BlockCeil(low) /\ BlockCeil(low) \in Int /\ BlockCeil(low) % 2 = 0
    BY <2>1, BlockBounds
  <2>3. /\ BlockFloor(high) <= high /\ BlockFloor(high) \in Int
        /\ BlockFloor(high) % 2 = 0
    BY <2>1, BlockBounds
  <2> QED BY <2>2, <2>3
<1>4. delta \in Int /\ (to - from) * n = s * delta
  <2> DEFINE x == (to - from) * n
  <2>1. x \in Int
    OBVIOUS
  <2>2. x % s = 0
    BY <1>1
  <2> HIDE DEF x
  <2>3. x \div s \in Int /\ x = s * (x \div s)
    BY <2>1, <2>2, ModZero, DivBounds
  <2> QED BY <2>3 DEF x
<1>5. \A o \in 0 .. (n - 1) : PointTap(o, s, n) \in Int
  BY TapIs
<1> HIDE DEF delta, low, high, begin, end
<1>6. a.from = begin - delta /\ a.to = begin /\ a.length = end - begin
  BY <1>1
<1>7. /\ a.from \in Nat /\ a.to \in Nat /\ a.length \in Nat \ {0}
      /\ a.from % 2 = 0 /\ a.to % 2 = 0 /\ a.length % 2 = 0
      /\ a.from + a.length = end - delta /\ a.to + a.length = end
  BY <1>1, <1>2, <1>3, <1>4, <1>6
<1>8. ASSUME NEW o \in begin .. (end - 1)
      PROVE  /\ to <= PointTap(o, s, n) /\ PointTap(o, s, n) < to + length
             /\ PointTap(o - a.to + a.from, s, n)
                  = PointTap(o, s, n) - to + from
  <2>1. o \in 0 .. (n - 1) /\ ~(o < low) /\ o < high
    BY <1>2, <1>3
  <2>2. to <= PointTap(o, s, n) /\ PointTap(o, s, n) < to + length
    BY <1>2, <1>5, <2>1
  <2>3. o - delta \in 0 .. (n - 1) /\ o - a.to + a.from = o - delta
    BY <1>1, <1>3, <1>4, <1>6
  <2>4. PointTap(o - delta, s, n) = PointTap(o, s, n) - (to - from)
    <3>1. to - from \in Int
      OBVIOUS
    <3> QED BY <1>4, <2>1, <2>3, <3>1, TapShifts
  <2>5. PointTap(o, s, n) - (to - from) = PointTap(o, s, n) - to + from
    BY <1>5, <2>1
  <2> QED BY <2>2, <2>3, <2>4, <2>5
<1>9. a.to .. (a.to + a.length - 1) = begin .. (end - 1)
  BY <1>6, <1>7
<1>10. a.from + a.length <= n /\ a.to + a.length <= n
  BY <1>1, <1>2, <1>3, <1>7
<1> QED BY <1>7, <1>8, <1>9, <1>10 DEF MovesAxis

\* Strips: the pixels of a rectangle around the move inside it.
LEMMA StripIs ==
  ASSUME NEW S, NEW r, NotEmpty(r) => r \in S
  PROVE  /\ Strip(r) \in Seq(S)
         /\ NotEmpty(r) => \A p : Covers(r, p) => CoveredBy(Strip(r), p)
<1>1. CASE NotEmpty(r)
  <2>1. Strip(r) = <<r>> /\ DOMAIN <<r>> = 1 .. 1 /\ <<r>>[1] = r
    BY <1>1 DEF Strip
  <2>2. 1 \in 1 .. 1
    OBVIOUS
  <2>3. \A p : Covers(r, p) => CoveredBy(Strip(r), p)
    BY <2>1, <2>2 DEF CoveredBy
  <2>4. Strip(r) \in Seq(S)
    BY <1>1, <2>1
  <2> QED BY <2>3, <2>4
<1>2. CASE ~NotEmpty(r)
  BY <1>2 DEF Strip
<1> QED BY <1>1, <1>2

\* Rectangles with the edges of a and of b are all in S.
EdgesIn(a, b, S) ==
  \A x, y \in Int, w, h \in Nat :
    /\ w # 0 /\ h # 0
    /\ x \in {a.x, Right(b)} /\ y \in {a.y, b.y, Bottom(b)}
    /\ x + w \in {Right(a), b.x} /\ y + h \in {Bottom(a), b.y, Bottom(b)}
    => Rect(x, y, w, h) \in S

\* The strips around the interior of a rectangle cover the rest of it.
LEMMA StripsCover ==
  ASSUME NEW S, NEW a \in RectType, NEW b \in RectType,
         Inside(b, a), EdgesIn(a, b, S)
  PROVE  /\ Strips(a, b) \in Seq(S)
         /\ \A p \in Points :
              Covers(a, p) /\ ~Covers(b, p) => CoveredBy(Strips(a, b), p)
<1> DEFINE above == Rect(a.x, a.y, Right(a) - a.x, b.y - a.y)
           below == Rect(a.x, Bottom(b), Right(a) - a.x, Bottom(a) - Bottom(b))
           before == Rect(a.x, b.y, b.x - a.x, Bottom(b) - b.y)
           after == Rect(Right(b), b.y, Right(a) - Right(b), Bottom(b) - b.y)
<1>1. /\ a.x \in Int /\ a.y \in Int /\ a.w \in Nat /\ a.h \in Nat
      /\ b.x \in Int /\ b.y \in Int /\ b.w \in Nat /\ b.h \in Nat
      /\ Right(a) = a.x + a.w /\ Bottom(a) = a.y + a.h
      /\ Right(b) = b.x + b.w /\ Bottom(b) = b.y + b.h
  BY DEF RectType, Right, Bottom
<1>2. /\ a.x <= b.x /\ Right(b) <= Right(a)
      /\ a.y <= b.y /\ Bottom(b) <= Bottom(a)
  BY <1>1 DEF Inside
<1>3. Strips(a, b) = ((Strip(above) \o Strip(below)) \o Strip(before))
                        \o Strip(after)
  BY DEF Strips, Within
<1>4. /\ Right(a) - a.x \in Nat /\ b.y - a.y \in Nat
      /\ Bottom(a) - Bottom(b) \in Nat /\ b.x - a.x \in Nat
      /\ Bottom(b) - b.y \in Nat /\ Right(a) - Right(b) \in Nat
      /\ Right(a) \in Int /\ Right(b) \in Int
      /\ Bottom(a) \in Int /\ Bottom(b) \in Int
  BY <1>1, <1>2
<1>5. /\ a.x + (Right(a) - a.x) = Right(a) /\ a.y + (b.y - a.y) = b.y
      /\ Bottom(b) + (Bottom(a) - Bottom(b)) = Bottom(a)
      /\ a.x + (b.x - a.x) = b.x /\ b.y + (Bottom(b) - b.y) = Bottom(b)
      /\ Right(b) + (Right(a) - Right(b)) = Right(a)
  BY <1>1, <1>4
<1>6. \A x, y, w, h : NotEmpty(Rect(x, y, w, h)) <=> w # 0 /\ h # 0
  BY DEF NotEmpty, Rect
<1>7. /\ NotEmpty(above) => above \in S
      /\ NotEmpty(below) => below \in S
      /\ NotEmpty(before) => before \in S
      /\ NotEmpty(after) => after \in S
  <2> DEFINE aw == Right(a) - a.x
             ah == b.y - a.y
             bh == Bottom(a) - Bottom(b)
             cw == b.x - a.x
             ch == Bottom(b) - b.y
             dw == Right(a) - Right(b)
  <2>1. /\ aw \in Nat /\ ah \in Nat /\ bh \in Nat /\ cw \in Nat
        /\ ch \in Nat /\ dw \in Nat
        /\ a.x + aw = Right(a) /\ a.y + ah = b.y /\ Bottom(b) + bh = Bottom(a)
        /\ a.x + cw = b.x /\ b.y + ch = Bottom(b) /\ Right(b) + dw = Right(a)
    BY <1>4, <1>5
  <2>2. /\ above = Rect(a.x, a.y, aw, ah) /\ below = Rect(a.x, Bottom(b), aw, bh)
        /\ before = Rect(a.x, b.y, cw, ch)
        /\ after = Rect(Right(b), b.y, dw, ch)
    OBVIOUS
  <2> HIDE DEF above, below, before, after, aw, ah, bh, cw, ch, dw
  <2>3. NotEmpty(above) => above \in S
    BY <1>1, <1>4, <1>6, <2>1, <2>2 DEF EdgesIn
  <2>4. NotEmpty(below) => below \in S
    BY <1>1, <1>4, <1>6, <2>1, <2>2 DEF EdgesIn
  <2>5. NotEmpty(before) => before \in S
    BY <1>1, <1>4, <1>6, <2>1, <2>2 DEF EdgesIn
  <2>6. NotEmpty(after) => after \in S
    BY <1>1, <1>4, <1>6, <2>1, <2>2 DEF EdgesIn
  <2> QED BY <2>3, <2>4, <2>5, <2>6
<1>8. ASSUME NEW p \in Points, Covers(a, p), ~Covers(b, p)
      PROVE  \/ NotEmpty(above) /\ Covers(above, p)
             \/ NotEmpty(below) /\ Covers(below, p)
             \/ NotEmpty(before) /\ Covers(before, p)
             \/ NotEmpty(after) /\ Covers(after, p)
  <2> DEFINE u == p[1]
             v == p[2]
  <2>1. /\ a.x <= u /\ u < Right(a) /\ a.y <= v /\ v < Bottom(a)
        /\ ~(b.x <= u /\ u < Right(b) /\ b.y <= v /\ v < Bottom(b))
    BY <1>8 DEF Covers
  <2>2. u \in Int /\ v \in Int
    BY DEF Points
  <2>3. \A x, y, w, h : Covers(Rect(x, y, w, h), p)
                          <=> /\ x <= u /\ u < x + w
                              /\ y <= v /\ v < y + h
    BY DEF Covers, Rect, Right, Bottom
  <2>4. /\ Covers(above, p) <=> /\ a.x <= u /\ u < Right(a)
                                /\ a.y <= v /\ v < b.y
        /\ Covers(below, p) <=> /\ a.x <= u /\ u < Right(a)
                                /\ Bottom(b) <= v /\ v < Bottom(a)
        /\ Covers(before, p) <=> /\ a.x <= u /\ u < b.x
                                 /\ b.y <= v /\ v < Bottom(b)
        /\ Covers(after, p) <=> /\ Right(b) <= u /\ u < Right(a)
                                /\ b.y <= v /\ v < Bottom(b)
    BY <1>5, <2>3
  <2>5. /\ NotEmpty(above) <=> Right(a) - a.x # 0 /\ b.y - a.y # 0
        /\ NotEmpty(below) <=> Right(a) - a.x # 0 /\ Bottom(a) - Bottom(b) # 0
        /\ NotEmpty(before) <=> b.x - a.x # 0 /\ Bottom(b) - b.y # 0
        /\ NotEmpty(after) <=> Right(a) - Right(b) # 0 /\ Bottom(b) - b.y # 0
    BY <1>6
  <2>6. /\ Right(a) \in Int /\ Right(b) \in Int
        /\ Bottom(a) \in Int /\ Bottom(b) \in Int
        /\ a.x \in Int /\ a.y \in Int /\ b.x \in Int /\ b.y \in Int
    BY <1>1, <1>4
  <2> HIDE DEF u, v, above, below, before, after
  <2> QED BY <2>1, <2>2, <2>4, <2>5, <2>6
<1> HIDE DEF above, below, before, after
<1>9. /\ Strip(above) \in Seq(S) /\ Strip(below) \in Seq(S)
      /\ Strip(before) \in Seq(S) /\ Strip(after) \in Seq(S)
      /\ NotEmpty(above) => \A p : Covers(above, p) => CoveredBy(Strip(above), p)
      /\ NotEmpty(below) => \A p : Covers(below, p) => CoveredBy(Strip(below), p)
      /\ NotEmpty(before) => \A p : Covers(before, p) => CoveredBy(Strip(before), p)
      /\ NotEmpty(after) => \A p : Covers(after, p) => CoveredBy(Strip(after), p)
  BY <1>7, StripIs
<1>10. /\ Strip(above) \o Strip(below) \in Seq(S)
       /\ (Strip(above) \o Strip(below)) \o Strip(before) \in Seq(S)
  BY <1>9
<1>11. Strips(a, b) \in Seq(S)
  BY <1>3, <1>9, <1>10
<1>12. ASSUME NEW p \in Points, Covers(a, p), ~Covers(b, p)
       PROVE  CoveredBy(Strips(a, b), p)
  <2>1. \/ CoveredBy(Strip(above), p) \/ CoveredBy(Strip(below), p)
        \/ CoveredBy(Strip(before), p) \/ CoveredBy(Strip(after), p)
    BY <1>8, <1>9, <1>12
  <2>2. CoveredBy(Strip(above) \o Strip(below), p)
          <=> CoveredBy(Strip(above), p) \/ CoveredBy(Strip(below), p)
    BY <1>9, CoveredByConcat
  <2>3. CoveredBy((Strip(above) \o Strip(below)) \o Strip(before), p)
          <=> \/ CoveredBy(Strip(above) \o Strip(below), p)
              \/ CoveredBy(Strip(before), p)
    BY <1>9, <1>10, CoveredByConcat
  <2> DEFINE three == (Strip(above) \o Strip(below)) \o Strip(before)
  <2>4. CoveredBy(Strips(a, b), p)
          <=> CoveredBy(three, p) \/ CoveredBy(Strip(after), p)
    <3>1. Strips(a, b) = three \o Strip(after) /\ three \in Seq(S)
      BY <1>3, <1>10
    <3> HIDE DEF three
    <3> QED BY <1>9, <3>1, CoveredByConcat
  <2> QED BY <2>1, <2>2, <2>3, <2>4
<1> QED BY <1>11, <1>12

\* What remains of the rectangle is of whole blocks of the output.
LEMMA PublishableEdges ==
  ASSUME NEW c, Capturable(c), NEW a \in DirtyRects(c), NEW b \in DirtyRects(c),
         Inside(b, a)
  PROVE  EdgesIn(a, b, DirtyRects(c))
<1> DEFINE g == GeometryOf(c)
<1>1. /\ a.x \in Int /\ a.y \in Int /\ a.w \in Nat /\ a.h \in Nat
      /\ b.x \in Int /\ b.y \in Int /\ b.w \in Nat /\ b.h \in Nat
      /\ Right(a) = a.x + a.w /\ Bottom(a) = a.y + a.h
      /\ Right(b) = b.x + b.w /\ Bottom(b) = b.y + b.h
  BY DEF DirtyRects, RectType, Right, Bottom
<1>2. /\ g.ow \in Int /\ g.oh \in Int /\ g.planar \in BOOLEAN
  BY CaptureExtents DEF Extents
<1>3. /\ a.x >= 0 /\ a.y >= 0 /\ Right(a) <= g.ow /\ Bottom(a) <= g.oh
      /\ b.x >= a.x /\ b.y >= a.y /\ Right(b) <= Right(a)
      /\ Bottom(b) <= Bottom(a)
      /\ g.planar => /\ a.x % 2 = 0 /\ a.y % 2 = 0
                     /\ a.w % 2 = 0 /\ a.h % 2 = 0
                     /\ b.x % 2 = 0 /\ b.y % 2 = 0
                     /\ b.w % 2 = 0 /\ b.h % 2 = 0
  BY DEF DirtyRects, Publishable, InBounds, Inside
<1>4. g.planar => /\ Right(a) % 2 = 0 /\ Bottom(a) % 2 = 0
                  /\ Right(b) % 2 = 0 /\ Bottom(b) % 2 = 0
  BY <1>1, <1>3
<1> HIDE DEF g
<1>5. ASSUME NEW x \in Int, NEW y \in Int, NEW w \in Nat, NEW h \in Nat,
             w # 0, h # 0,
             x \in {a.x, Right(b)}, y \in {a.y, b.y, Bottom(b)},
             x + w \in {Right(a), b.x}, y + h \in {Bottom(a), b.y, Bottom(b)}
      PROVE  Rect(x, y, w, h) \in DirtyRects(c)
  <2> DEFINE r == Rect(x, y, w, h)
  <2>1. /\ r.x = x /\ r.y = y /\ r.w = w /\ r.h = h
        /\ Right(r) = x + w /\ Bottom(r) = y + h
    BY RectFields
  <2>2. r \in RectType
    BY RectTyped
  <2> HIDE DEF r
  <2>3. x >= 0 /\ y >= 0 /\ x + w <= g.ow /\ y + h <= g.oh
    BY <1>1, <1>2, <1>3, <1>5
  <2>4. g.planar => x % 2 = 0 /\ (x + w) % 2 = 0
    BY <1>3, <1>4, <1>5
  <2>5. g.planar => y % 2 = 0 /\ (y + h) % 2 = 0
    BY <1>3, <1>4, <1>5
  <2>6. \A i, j \in Int : i % 2 = 0 /\ (i + j) % 2 = 0 => j % 2 = 0
    OBVIOUS
  <2>7. g.planar => w % 2 = 0 /\ h % 2 = 0
    BY <2>4, <2>5, <2>6
  <2>8. InBounds(r, g.ow, g.oh)
    BY <1>5, <2>1, <2>3 DEF InBounds
  <2>9. Publishable(r, g)
    BY <2>1, <2>2, <2>4, <2>5, <2>7, <2>8 DEF Publishable
  <2> QED BY <2>2, <2>9 DEF DirtyRects, r, g
<1> QED BY <1>5 DEF EdgesIn

\* map_local_deterministic_planar_move: a pixel is brought by the move, is
\* dirty, or shows nothing of the rectangle moved to.
MapsMove(m, from, to, c) ==
  /\ m.status \in {"mapped", "empty", "unrepresentable"}
  /\ m.status = "empty" =>
       \A p \in OutputPixels(c) : ~Covers(to, Taps(GeometryOf(c), p))
  /\ m.status = "mapped" =>
       /\ m.move \in MoveRects(c) /\ m.dirty \in Seq(DirtyRects(c))
       /\ \A p \in OutputPixels(c) :
            IF Covers(m.move.to, p)
            THEN LET o == Origin(p, m.move.to, m.move.x, m.move.y)
                 IN  /\ Covers(to, Taps(GeometryOf(c), p))
                     /\ o \in OutputPixels(c)
                     /\ Taps(GeometryOf(c), o)
                          = Origin(Taps(GeometryOf(c), p), to, from.x, from.y)
            ELSE Covers(to, Taps(GeometryOf(c), p)) => CoveredBy(m.dirty, p)

\* The pixels that a move from h and v, one axis each, brings.
Brings(b, h, v, from, to, c) ==
  /\ Move(h.from, v.from, b) \in MoveRects(c) /\ b \in DirtyRects(c)
  /\ \A p \in OutputPixels(c) : Covers(b, p) =>
       LET o == Origin(p, b, h.from, v.from)
       IN  /\ Covers(to, Taps(GeometryOf(c), p))
           /\ o \in OutputPixels(c)
           /\ Taps(GeometryOf(c), o)
                = Origin(Taps(GeometryOf(c), p), to, from.x, from.y)

\* The interior of a planar move brings what the move brings there.
LEMMA InteriorMoves ==
  ASSUME NEW c, Capturable(c), NEW from \in RectType, NEW to \in RectType,
         NEW h, NEW v, c.planar,
         MovesAxis(h, from.x, to.x, to.w, c.region.w, c.out.w),
         MovesAxis(v, from.y, to.y, to.h, c.region.h, c.out.h)
  PROVE  Brings(Rect(h.to, v.to, h.length, v.length), h, v, from, to, c)
<1> DEFINE g == GeometryOf(c)
           b == Rect(h.to, v.to, h.length, v.length)
           f == Rect(h.from, v.from, h.length, v.length)
           m == Move(h.from, v.from, b)
<1>1. /\ Extents(g) /\ g.sw = c.region.w /\ g.sh = c.region.h
      /\ g.ow = c.out.w /\ g.oh = c.out.h /\ g.planar
      /\ OutputPixels(c) = Outputs(g)
  BY CaptureExtents
<1> HIDE DEF g
<1>2. /\ g.sw \in Nat \ {0} /\ g.sh \in Nat \ {0}
      /\ g.ow \in Nat \ {0} /\ g.oh \in Nat \ {0}
  BY <1>1 DEF Extents
<1>3. /\ h.from \in Nat /\ h.to \in Nat /\ h.length \in Nat /\ h.length > 0
      /\ h.from % 2 = 0 /\ h.to % 2 = 0 /\ h.length % 2 = 0
      /\ h.from + h.length <= g.ow /\ h.to + h.length <= g.ow
      /\ \A o \in h.to .. (h.to + h.length - 1) :
           /\ to.x <= PointTap(o, g.sw, g.ow)
           /\ PointTap(o, g.sw, g.ow) < to.x + to.w
           /\ PointTap(o - h.to + h.from, g.sw, g.ow)
                = PointTap(o, g.sw, g.ow) - to.x + from.x
  BY <1>1 DEF MovesAxis
<1>4. /\ v.from \in Nat /\ v.to \in Nat /\ v.length \in Nat /\ v.length > 0
      /\ v.from % 2 = 0 /\ v.to % 2 = 0 /\ v.length % 2 = 0
      /\ v.from + v.length <= g.oh /\ v.to + v.length <= g.oh
      /\ \A o \in v.to .. (v.to + v.length - 1) :
           /\ to.y <= PointTap(o, g.sh, g.oh)
           /\ PointTap(o, g.sh, g.oh) < to.y + to.h
           /\ PointTap(o - v.to + v.from, g.sh, g.oh)
                = PointTap(o, g.sh, g.oh) - to.y + from.y
  BY <1>1 DEF MovesAxis
<1>5. /\ b.x = h.to /\ b.y = v.to /\ b.w = h.length /\ b.h = v.length
      /\ Right(b) = h.to + h.length /\ Bottom(b) = v.to + v.length
      /\ f.x = h.from /\ f.y = v.from /\ f.w = h.length /\ f.h = v.length
      /\ Right(f) = h.from + h.length /\ Bottom(f) = v.from + v.length
  BY RectFields
<1>6. b \in RectType /\ f \in RectType
  <2>1. /\ h.from \in Int /\ h.to \in Int /\ v.from \in Int /\ v.to \in Int
    BY <1>3, <1>4
  <2> QED BY <1>3, <1>4, <2>1, RectTyped
<1>7. m.x = h.from /\ m.y = v.from /\ m.to = b
      /\ m = [x |-> h.from, y |-> v.from, to |-> b]
  BY DEF Move
<1>8. f = Rect(m.x, m.y, b.w, b.h)
  BY <1>5, <1>7
<1> HIDE DEF b, f, m
<1>9. Publishable(b, g) /\ Publishable(f, g)
  BY <1>3, <1>4, <1>5, <1>6 DEF Publishable, InBounds
<1>10. b \in DirtyRects(c)
  BY <1>6, <1>9 DEF DirtyRects, g
<1>11. m \in MoveRects(c)
  <2>1. m \in [x : Int, y : Int, to : RectType]
    BY <1>3, <1>4, <1>6, <1>7
  <2>2. Publishable(m.to, g) /\ Publishable(Rect(m.x, m.y, m.to.w, m.to.h), g)
    BY <1>7, <1>8, <1>9
  <2> QED BY <2>1, <2>2 DEF MoveRects, g
<1>12. ASSUME NEW p \in OutputPixels(c), Covers(b, p)
       PROVE  /\ Covers(to, Taps(g, p))
              /\ Origin(p, b, h.from, v.from) \in OutputPixels(c)
              /\ Taps(g, Origin(p, b, h.from, v.from))
                   = Origin(Taps(g, p), to, from.x, from.y)
  <2> DEFINE i == p[1]
             j == p[2]
             k == i - h.to + h.from
             l == j - v.to + v.from
  <2>1. i \in Int /\ j \in Int
    BY <1>1, TapsInside
  <2>2. /\ h.to <= i /\ i < h.to + h.length
        /\ v.to <= j /\ j < v.to + v.length
    BY <1>5, <1>12 DEF Covers
  <2>3. /\ Taps(g, p) = <<PointTap(i, g.sw, g.ow), PointTap(j, g.sh, g.oh)>>
        /\ Origin(p, b, h.from, v.from) = <<k, l>>
        /\ Taps(g, <<k, l>>) = <<PointTap(k, g.sw, g.ow), PointTap(l, g.sh, g.oh)>>
    BY <1>5 DEF Taps, Origin
  <2> HIDE DEF i, j
  <2>4. i \in h.to .. (h.to + h.length - 1) /\ j \in v.to .. (v.to + v.length - 1)
    BY <1>3, <1>4, <2>1, <2>2
  <2>5. k \in 0 .. (g.ow - 1) /\ l \in 0 .. (g.oh - 1)
    BY <1>2, <1>3, <1>4, <2>1, <2>2
  <2> HIDE DEF k, l
  <2>6. <<k, l>> \in OutputPixels(c)
    BY <1>1, <2>5 DEF Outputs, PixelsOf
  <2>7. /\ to.x <= PointTap(i, g.sw, g.ow)
        /\ PointTap(i, g.sw, g.ow) < to.x + to.w
        /\ PointTap(k, g.sw, g.ow) = PointTap(i, g.sw, g.ow) - to.x + from.x
    BY <1>3, <2>4 DEF k
  <2>8. /\ to.y <= PointTap(j, g.sh, g.oh)
        /\ PointTap(j, g.sh, g.oh) < to.y + to.h
        /\ PointTap(l, g.sh, g.oh) = PointTap(j, g.sh, g.oh) - to.y + from.y
    BY <1>4, <2>4 DEF l
  <2>9. Covers(to, Taps(g, p))
    BY <2>3, <2>7, <2>8 DEF Covers, Right, Bottom
  <2>10. Taps(g, <<k, l>>) = Origin(Taps(g, p), to, from.x, from.y)
    BY <2>3, <2>7, <2>8 DEF Origin
  <2> QED BY <2>3, <2>6, <2>9, <2>10
<1>13. Brings(b, h, v, from, to, c)
  BY <1>10, <1>11, <1>12 DEF Brings, m, g
<1> QED BY <1>13 DEF b

\* A planar move maps to an interior move and dirty strips.
LEMMA PlanarMoveMaps ==
  ASSUME NEW c, Capturable(c), NEW from \in RectType, NEW to \in RectType
  PROVE  MapsMove(PlanarMove(from, to, GeometryOf(c)), from, to, c)
<1> DEFINE g == GeometryOf(c)
           affected == PlanarDamage(to, g)
           across == MoveAxis(from.x, to.x, to.w, g.sw, g.ow)
           down == MoveAxis(from.y, to.y, to.h, g.sh, g.oh)
           refused == \/ ~ValidGeometry(g) \/ ~g.planar
                      \/ from.w # to.w \/ from.h # to.h
                      \/ ~InBounds(from, g.sw, g.sh) \/ ~InBounds(to, g.sw, g.sh)
           h == CHOOSE a \in across : TRUE
           v == CHOOSE a \in down : TRUE
           b == Rect(h.to, v.to, h.length, v.length)
           m == PlanarMove(from, to, g)
           none == NoMapping("unrepresentable")
           whole == [status |-> "mapped", move |-> Move(h.from, v.from, b),
                     dirty |-> Strips(affected.rect, b)]
<1>1. /\ Extents(g) /\ g.sw = c.region.w /\ g.sh = c.region.h
      /\ g.ow = c.out.w /\ g.oh = c.out.h /\ g.planar = c.planar
      /\ OutputPixels(c) = Outputs(g)
  BY CaptureExtents
<1>2. m = IF refused THEN none
          ELSE IF affected.status # "mapped" THEN NoMapping(affected.status)
          ELSE IF across = {} \/ down = {} THEN none
          ELSE IF ~Inside(b, affected.rect) THEN none ELSE whole
  BY DEF PlanarMove
<1>3. Maps(affected, to, g)
  <2> HIDE DEF g
  <2> QED BY <1>1, PlanarDamageMaps
<1>4. /\ across # {} => h \in across
      /\ down # {} => v \in down
  BY DEF h, v
<1>5. none.status = "unrepresentable"
      /\ NoMapping(affected.status).status = affected.status
  BY DEF NoMapping
<1> HIDE DEF affected, across, down, h, v, b, m, none
<1>6. CASE m = none
  BY <1>5, <1>6 DEF MapsMove, m, g
<1>7. CASE affected.status # "mapped" /\ m = NoMapping(affected.status)
  <2>1. m.status = affected.status
    BY <1>5, <1>7
  <2>2. m.status \in {"empty", "unrepresentable"}
    BY <1>3, <1>7, <2>1 DEF Maps
  <2>3. m.status = "empty" => \A p \in Outputs(g) : ~Covers(to, Taps(g, p))
    BY <1>3, <2>1 DEF Maps
  <2> HIDE DEF g
  <2>4. MapsMove(m, from, to, c)
    BY <1>1, <2>2, <2>3 DEF MapsMove, g
  <2> QED BY <2>4 DEF m, g
<1>8. CASE /\ ~refused /\ affected.status = "mapped"
           /\ across # {} /\ down # {} /\ Inside(b, affected.rect)
           /\ m = whole
  <2>1. g.planar
    BY <1>8
  <2> HIDE DEF g
  <2>2. /\ from.x \in Int /\ to.x \in Int /\ to.w \in Int
        /\ from.y \in Int /\ to.y \in Int /\ to.h \in Int
        /\ g.sw \in Nat \ {0} /\ g.sh \in Nat \ {0}
        /\ g.ow \in Nat \ {0} /\ g.oh \in Nat \ {0}
    BY <1>1 DEF RectType, Extents
  <2>3. /\ MovesAxis(h, from.x, to.x, to.w, c.region.w, c.out.w)
        /\ MovesAxis(v, from.y, to.y, to.h, c.region.h, c.out.h)
    <3>1. h \in across /\ v \in down
      BY <1>4, <1>8
    <3>2. /\ MovesAxis(h, from.x, to.x, to.w, g.sw, g.ow)
          /\ MovesAxis(v, from.y, to.y, to.h, g.sh, g.oh)
      BY <2>2, <3>1, MoveAxisMoves DEF across, down
    <3> QED BY <1>1, <3>2
  <2>4. /\ Move(h.from, v.from, b) \in MoveRects(c) /\ b \in DirtyRects(c)
        /\ \A p \in OutputPixels(c) : Covers(b, p) =>
             LET o == Origin(p, b, h.from, v.from)
             IN  /\ Covers(to, Taps(GeometryOf(c), p))
                 /\ o \in OutputPixels(c)
                 /\ Taps(GeometryOf(c), o)
                      = Origin(Taps(GeometryOf(c), p), to, from.x, from.y)
    <3>1. c.planar
      BY <1>1, <2>1
    <3>2. Brings(b, h, v, from, to, c)
      BY <2>3, <3>1, InteriorMoves DEF b
    <3> QED BY <3>2 DEF Brings
  <2>5. /\ affected.rect \in DirtyRects(c)
        /\ \A p \in OutputPixels(c) :
             Covers(to, Taps(g, p)) => Covers(affected.rect, p)
    BY <1>1, <1>3, <1>8 DEF Maps, Publishable, DirtyRects, g
  <2>6. EdgesIn(affected.rect, b, DirtyRects(c))
    BY <1>8, <2>4, <2>5, PublishableEdges
  <2>7. /\ Strips(affected.rect, b) \in Seq(DirtyRects(c))
        /\ \A p \in Points : Covers(affected.rect, p) /\ ~Covers(b, p)
                               => CoveredBy(Strips(affected.rect, b), p)
    <3>1. b \in RectType /\ affected.rect \in RectType
      BY <2>4, <2>5 DEF DirtyRects
    <3> QED BY <1>8, <2>6, <3>1, StripsCover
  <2>8. OutputPixels(c) \subseteq Points
    BY <1>1, <2>2 DEF OutputPixels, PixelsOf, Points
  <2>9. /\ m.status = "mapped" /\ m.move = Move(h.from, v.from, b)
        /\ m.dirty = Strips(affected.rect, b)
        /\ m.move.to = b /\ m.move.x = h.from /\ m.move.y = v.from
    BY <1>8 DEF Move
  <2> DEFINE dirty == Strips(affected.rect, b)
             move == Move(h.from, v.from, b)
  <2>10. ASSUME NEW p \in OutputPixels(c)
         PROVE  IF Covers(m.move.to, p)
                THEN LET o == Origin(p, m.move.to, m.move.x, m.move.y)
                     IN  /\ Covers(to, Taps(GeometryOf(c), p))
                         /\ o \in OutputPixels(c)
                         /\ Taps(GeometryOf(c), o)
                              = Origin(Taps(GeometryOf(c), p), to,
                                       from.x, from.y)
                ELSE Covers(to, Taps(GeometryOf(c), p)) => CoveredBy(m.dirty, p)
    <3>1. CASE Covers(b, p)
      BY <2>4, <2>9, <3>1
    <3>2. CASE ~Covers(b, p)
      BY <2>5, <2>7, <2>8, <2>9, <3>2 DEF g
    <3> QED BY <2>9, <3>1, <3>2
  <2>11. MapsMove(m, from, to, c)
    BY <2>4, <2>7, <2>9, <2>10 DEF MapsMove
  <2> QED BY <2>11 DEF m, g
<1>9. \/ m = none
      \/ affected.status # "mapped" /\ m = NoMapping(affected.status)
      \/ /\ ~refused /\ affected.status = "mapped"
         /\ across # {} /\ down # {} /\ Inside(b, affected.rect)
         /\ m = whole
  <2> HIDE DEF refused, whole
  <2> QED BY <1>2
<1> QED BY <1>6, <1>7, <1>8, <1>9 DEF m, g

\* At scale 1 a pixel shows itself.
LEMMA TapsUnscaled ==
  ASSUME NEW g, Extents(g), ~Scaled(g), NEW p \in Outputs(g)
  PROVE  Taps(g, p) = p
<1>1. /\ g.sw = g.ow /\ g.sh = g.oh
      /\ g.ow \in Nat \ {0} /\ g.oh \in Nat \ {0}
  BY DEF Scaled, Extents
<1>2. p[1] \in 0 .. (g.ow - 1) /\ p[2] \in 0 .. (g.oh - 1)
      /\ p = <<p[1], p[2]>>
  BY TapsInside
<1>3. PointTap(p[1], g.sw, g.ow) = p[1] /\ PointTap(p[2], g.sh, g.oh) = p[2]
  BY <1>1, <1>2, TapUnscaled
<1> QED BY <1>2, <1>3 DEF Taps

\* A move of the output and the dirty rectangles beside it, for a move of the
\* region from `from` to `to`.
Carries(m, dirty, from, to, c) ==
  /\ m \in MoveRects(c) /\ dirty \in Seq(DirtyRects(c))
  /\ \A p \in OutputPixels(c) :
       IF Covers(m.to, p)
       THEN LET o == Origin(p, m.to, m.x, m.y)
            IN  /\ Covers(to, Taps(GeometryOf(c), p))
                /\ o \in OutputPixels(c)
                /\ Taps(GeometryOf(c), o)
                     = Origin(Taps(GeometryOf(c), p), to, from.x, from.y)
       ELSE Covers(to, Taps(GeometryOf(c), p)) => CoveredBy(dirty, p)

\* The damage of a planar move carries that move.
LEMMA PlanarMoveCarries ==
  ASSUME NEW c, Capturable(c), NEW from \in RectType, NEW to \in RectType,
         NEW m, m = PlanarMove(from, to, GeometryOf(c)), m.status = "mapped"
  PROVE  Carries(m.move, m.dirty, from, to, c)
<1>1. MapsMove(m, from, to, c)
  BY PlanarMoveMaps
<1> QED BY <1>1 DEF MapsMove, Carries

\* A rectangle is what lies within its edges.
LEMMA SameEdges ==
  ASSUME NEW r \in RectType
  PROVE  Within(r.x, r.y, Right(r), Bottom(r)) = r
<1>1. /\ r.x \in Int /\ r.y \in Int /\ r.w \in Nat /\ r.h \in Nat
      /\ r = [x |-> r.x, y |-> r.y, w |-> r.w, h |-> r.h]
  BY DEF RectType
<1>2. Right(r) - r.x = r.w /\ Bottom(r) - r.y = r.h
  BY <1>1 DEF Right, Bottom
<1>3. Within(r.x, r.y, Right(r), Bottom(r)) = [x |-> r.x, y |-> r.y,
                                               w |-> r.w, h |-> r.h]
  BY <1>2 DEF Within, Rect
<1> QED BY <1>1, <1>3

\* At scale 1 a move in bounds, of whole blocks, is published as it is.
LEMMA WholeMoveCarries ==
  ASSUME NEW c, Capturable(c), ~Scaled(GeometryOf(c)),
         NEW from \in RectType, NEW to \in RectType,
         from.w = to.w, from.h = to.h,
         InBounds(from, c.region.w, c.region.h),
         InBounds(to, c.region.w, c.region.h),
         c.planar => PlanarMoveAligned(Move(from.x, from.y, to))
  PROVE  Carries(Move(from.x, from.y, to), <<>>, from, to, c)
<1> DEFINE g == GeometryOf(c)
           m == Move(from.x, from.y, to)
<1>1. /\ Extents(g) /\ g.ow = c.region.w /\ g.oh = c.region.h
      /\ g.sw = g.ow /\ g.sh = g.oh
      /\ g.planar = c.planar /\ OutputPixels(c) = Outputs(g)
  BY CaptureExtents DEF Scaled
<1>2. /\ m.x = from.x /\ m.y = from.y /\ m.to = to
      /\ m = [x |-> from.x, y |-> from.y, to |-> to]
  BY DEF Move
<1> HIDE DEF g, m
<1>3. /\ from.x \in Int /\ from.y \in Int /\ from.w \in Nat /\ from.h \in Nat
      /\ to.x \in Int /\ to.y \in Int /\ to.w \in Nat /\ to.h \in Nat
  BY DEF RectType
<1>4. c.planar => /\ from.x % 2 = 0 /\ from.y % 2 = 0
                  /\ to.x % 2 = 0 /\ to.y % 2 = 0
                  /\ to.w % 2 = 0 /\ to.h % 2 = 0
  BY <1>2 DEF PlanarMoveAligned, m
<1>5. Rect(m.x, m.y, m.to.w, m.to.h) = from
  <2>1. from = [x |-> from.x, y |-> from.y, w |-> from.w, h |-> from.h]
    BY DEF RectType
  <2> QED BY <1>2, <2>1 DEF Rect
<1>6. Publishable(to, g) /\ Publishable(from, g)
  BY <1>1, <1>4 DEF Publishable
<1>7. m \in MoveRects(c)
  <2>1. m \in [x : Int, y : Int, to : RectType]
    BY <1>2, <1>3
  <2> QED BY <1>2, <1>5, <1>6, <2>1 DEF MoveRects, g
<1>8. <<>> \in Seq(DirtyRects(c))
  OBVIOUS
<1>9. ASSUME NEW p \in OutputPixels(c)
      PROVE  /\ Taps(g, p) = p
             /\ Covers(to, p) =>
                  /\ Origin(p, to, from.x, from.y) \in OutputPixels(c)
                  /\ Taps(g, Origin(p, to, from.x, from.y))
                       = Origin(p, to, from.x, from.y)
  <2>1. \A q \in OutputPixels(c) : Taps(g, q) = q
    <3>1. ~Scaled(g)
      BY DEF g
    <3> QED BY <1>1, <3>1, TapsUnscaled
  <2> DEFINE i == p[1]
             j == p[2]
             k == i - to.x + from.x
             l == j - to.y + from.y
  <2>2. ASSUME Covers(to, p)
        PROVE  Origin(p, to, from.x, from.y) \in OutputPixels(c)
    <3>1. /\ to.x <= i /\ i < to.x + to.w /\ to.y <= j /\ j < to.y + to.h
      BY <2>2 DEF Covers, Right, Bottom
    <3>2. /\ from.x >= 0 /\ from.y >= 0
          /\ from.x + to.w <= g.ow /\ from.y + to.h <= g.oh
      BY <1>1 DEF InBounds, Right, Bottom
    <3>3. i \in Int /\ j \in Int /\ g.ow \in Int /\ g.oh \in Int
      BY <1>1, TapsInside DEF Extents
    <3>4. Origin(p, to, from.x, from.y) = <<k, l>>
      BY DEF Origin
    <3> HIDE DEF i, j
    <3>5. k \in 0 .. (g.ow - 1) /\ l \in 0 .. (g.oh - 1)
      BY <1>3, <3>1, <3>2, <3>3
    <3> HIDE DEF k, l
    <3> QED BY <1>1, <3>4, <3>5 DEF Outputs, PixelsOf
  <2> QED BY <2>1, <2>2
<1>10. ASSUME NEW p \in OutputPixels(c)
       PROVE  IF Covers(m.to, p)
              THEN LET o == Origin(p, m.to, m.x, m.y)
                   IN  /\ Covers(to, Taps(GeometryOf(c), p))
                       /\ o \in OutputPixels(c)
                       /\ Taps(GeometryOf(c), o)
                            = Origin(Taps(GeometryOf(c), p), to, from.x, from.y)
              ELSE Covers(to, Taps(GeometryOf(c), p)) => CoveredBy(<<>>, p)
  BY <1>2, <1>9 DEF g
<1>11. Carries(m, <<>>, from, to, c)
  BY <1>7, <1>8, <1>10 DEF Carries
<1> QED BY <1>11 DEF m

\* desktop_duplication_scale_move_exact at scale 1
LEMMA ScaleMoveUnscaled ==
  ASSUME NEW c, Capturable(c), ~Scaled(GeometryOf(c)),
         NEW from \in RectType, NEW to \in RectType,
         NEW e \in ScaleMoveExact(from, to, GeometryOf(c))
  PROVE  /\ e = Move(from.x, from.y, to)
         /\ from.w = to.w /\ from.h = to.h
         /\ InBounds(from, c.region.w, c.region.h)
         /\ InBounds(to, c.region.w, c.region.h)
<1> DEFINE g == GeometryOf(c)
<1>1. /\ Extents(g) /\ g.ow = c.region.w /\ g.oh = c.region.h
      /\ g.sw = g.ow /\ g.sh = g.oh
      /\ g.ow \in Nat \ {0} /\ g.oh \in Nat \ {0}
  BY CaptureExtents DEF Scaled, Extents
<1>2. /\ e = Move(ScaleFloor(from.x, g.sw, g.ow), ScaleFloor(from.y, g.sh, g.oh),
                  Within(ScaleFloor(to.x, g.sw, g.ow),
                         ScaleFloor(to.y, g.sh, g.oh),
                         ScaleFloor(Right(to), g.sw, g.ow),
                         ScaleFloor(Bottom(to), g.sh, g.oh)))
      /\ InBounds(from, g.sw, g.sh) /\ InBounds(to, g.sw, g.sh)
      /\ from.w = to.w /\ from.h = to.h
  BY DEF ScaleMoveExact
<1> HIDE DEF g
<1>3. /\ from.x \in Int /\ from.y \in Int /\ to.x \in Int /\ to.y \in Int
      /\ Right(to) \in Int /\ Bottom(to) \in Int
  BY DEF RectType, Right, Bottom
<1>4. /\ ScaleFloor(from.x, g.sw, g.ow) = from.x
      /\ ScaleFloor(from.y, g.sh, g.oh) = from.y
      /\ ScaleFloor(to.x, g.sw, g.ow) = to.x
      /\ ScaleFloor(to.y, g.sh, g.oh) = to.y
      /\ ScaleFloor(Right(to), g.sw, g.ow) = Right(to)
      /\ ScaleFloor(Bottom(to), g.sh, g.oh) = Bottom(to)
  BY <1>1, <1>3, ScaleUnscaled
<1> QED BY <1>1, <1>2, <1>4, SameEdges

\* map_move_rect_exact at scale 1
LEMMA MoveExactUnscaled ==
  ASSUME NEW c, Capturable(c), ~Scaled(GeometryOf(c)),
         NEW x \in Int, NEW y \in Int, NEW to \in RectType,
         NEW e \in MoveExact(Move(x, y, to), GeometryOf(c))
  PROVE  /\ e = Move(x, y, to)
         /\ InBounds(Rect(x, y, to.w, to.h), c.region.w, c.region.h)
         /\ InBounds(to, c.region.w, c.region.h)
         /\ c.planar => PlanarMoveAligned(e)
<1> DEFINE g == GeometryOf(c)
           m == Move(x, y, to)
<1>1. /\ Extents(g) /\ g.ow = c.region.w /\ g.oh = c.region.h
      /\ g.sw = g.ow /\ g.sh = g.oh /\ g.planar = c.planar
      /\ g.ow \in Nat \ {0} /\ g.oh \in Nat \ {0}
  BY CaptureExtents DEF Scaled, Extents
<1>2. m.x = x /\ m.y = y /\ m.to = to
  BY DEF Move
<1> HIDE DEF m
<1>3. /\ e = Move(ScaleFloor(m.x, g.sw, g.ow), ScaleFloor(m.y, g.sh, g.oh),
                  Within(ScaleFloor(m.to.x, g.sw, g.ow),
                         ScaleFloor(m.to.y, g.sh, g.oh),
                         ScaleFloor(Right(m.to), g.sw, g.ow),
                         ScaleFloor(Bottom(m.to), g.sh, g.oh)))
      /\ InBounds(Rect(m.x, m.y, m.to.w, m.to.h), g.sw, g.sh)
      /\ InBounds(m.to, g.sw, g.sh)
      /\ g.planar => \A n \in {e.x, e.y, e.to.x, e.to.y, e.to.w, e.to.h} :
                       n % 2 = 0
  BY DEF MoveExact, m
<1> HIDE DEF g
<1>4. /\ to.x \in Int /\ to.y \in Int
      /\ Right(to) \in Int /\ Bottom(to) \in Int
  BY DEF RectType, Right, Bottom
<1>5. /\ ScaleFloor(x, g.sw, g.ow) = x
      /\ ScaleFloor(y, g.sh, g.oh) = y
      /\ ScaleFloor(to.x, g.sw, g.ow) = to.x
      /\ ScaleFloor(to.y, g.sh, g.oh) = to.y
      /\ ScaleFloor(Right(to), g.sw, g.ow) = Right(to)
      /\ ScaleFloor(Bottom(to), g.sh, g.oh) = Bottom(to)
  BY <1>1, <1>4, ScaleUnscaled
<1>6. e = Move(x, y, to)
  BY <1>2, <1>3, <1>5, SameEdges
<1>7. c.planar => PlanarMoveAligned(e)
  BY <1>1, <1>3 DEF PlanarMoveAligned
<1> QED BY <1>1, <1>2, <1>3, <1>6, <1>7

-----------------------------------------------------------------------------
(* Where a pixel comes from: on the surface, after the first k moves of a  *)
(* frame, and in the consumer's image, after the moves of its damage.      *)

SurfaceMoves == {m \in [from : RectType, to : RectType] :
                   m.from.w = m.to.w /\ m.from.h = m.to.h}

InFirst(moves, k, q) == {i \in 1 .. k : Covers(moves[i].to, q)}

Landed(moves, k, q) ==
  LET i == Latest(InFirst(moves, k, q))
  IN  IF InFirst(moves, k, q) = {} THEN q
      ELSE Origin(q, moves[i].to, moves[i].from.x, moves[i].from.y)

Brought(moves, p) ==
  LET i == Latest(Into(moves, p))
  IN  IF Into(moves, p) = {} THEN p
      ELSE Origin(p, moves[i].to, moves[i].x, moves[i].y)

\* The latest of some moves is one of them.
LEMMA LatestIs ==
  ASSUME NEW S, NEW k \in Nat, S \subseteq 1 .. k, S # {}
  PROVE  Latest(S) \in S /\ \A j \in S : j <= Latest(S)
<1> DEFINE T == {k - j : j \in S}
<1>1. T \in SUBSET Nat /\ T # {}
  <2>1. \A j \in S : k - j \in Nat
    OBVIOUS
  <2> QED BY <2>1
<1>2. PICK t \in T : \A u \in T : t <= u
  <2> HIDE DEF T
  <2> QED BY <1>1, LeastNatural
<1>3. PICK i \in S : t = k - i
  BY <1>2
<1>4. \A j \in S : j <= i
  <2> TAKE j \in S
  <2>1. k - j \in T
    OBVIOUS
  <2>2. k - i <= k - j
    BY <1>2, <1>3, <2>1
  <2>3. i \in Int /\ j \in Int
    OBVIOUS
  <2> QED BY <2>2, <2>3
<1> QED BY <1>4 DEF Latest

\* And the only one that no other follows.
LEMMA LatestUnique ==
  ASSUME NEW S, NEW k \in Nat, S \subseteq 1 .. k,
         NEW i \in S, \A j \in S : j <= i
  PROVE  Latest(S) = i
<1>1. Latest(S) \in S /\ \A j \in S : j <= Latest(S)
  BY LatestIs
<1> DEFINE l == Latest(S)
<1>2. l \in S /\ l <= i /\ i <= l
  BY <1>1
<1> HIDE DEF l
<1>3. l \in Int /\ i \in Int
  BY <1>2
<1>4. l = i
  BY <1>2, <1>3
<1> QED BY <1>4 DEF l

\* The latest of one more.
LEMMA LatestNext ==
  ASSUME NEW S, NEW k \in Nat, S \subseteq 1 .. k
  PROVE  Latest(S \cup {k + 1}) = k + 1
<1>1. S \cup {k + 1} \subseteq 1 .. (k + 1) /\ k + 1 \in Nat
  OBVIOUS
<1>2. \A j \in S \cup {k + 1} : j <= k + 1
  OBVIOUS
<1>3. k + 1 \in S \cup {k + 1}
  OBVIOUS
<1> DEFINE T == S \cup {k + 1}
           n == k + 1
<1> HIDE DEF T, n
<1> QED BY <1>1, <1>2, <1>3, LatestUnique DEF T, n

\* One more move of the surface.
LEMMA LandedNext ==
  ASSUME NEW moves, NEW k \in Nat, NEW q
  PROVE  /\ Landed(moves, 0, q) = q
         /\ Landed(moves, k + 1, q) =
              IF Covers(moves[k + 1].to, q)
              THEN Origin(q, moves[k + 1].to,
                          moves[k + 1].from.x, moves[k + 1].from.y)
              ELSE Landed(moves, k, q)
<1>1. InFirst(moves, 0, q) = {}
  BY DEF InFirst
<1>2. InFirst(moves, k, q) \subseteq 1 .. k
  BY DEF InFirst
<1>3. CASE Covers(moves[k + 1].to, q)
  <2>1. InFirst(moves, k + 1, q) = InFirst(moves, k, q) \cup {k + 1}
    <3>1. 1 .. (k + 1) = (1 .. k) \cup {k + 1}
      OBVIOUS
    <3> QED BY <1>3, <3>1 DEF InFirst
  <2>2. Latest(InFirst(moves, k + 1, q)) = k + 1
    BY <1>2, <2>1, LatestNext
  <2>3. InFirst(moves, k + 1, q) # {}
    BY <2>1
  <2> QED BY <1>1, <1>3, <2>2, <2>3 DEF Landed
<1>4. CASE ~Covers(moves[k + 1].to, q)
  <2>1. InFirst(moves, k + 1, q) = InFirst(moves, k, q)
    <3>1. 1 .. (k + 1) = (1 .. k) \cup {k + 1}
      OBVIOUS
    <3> QED BY <1>4, <3>1 DEF InFirst
  <2> QED BY <1>1, <1>4, <2>1 DEF Landed
<1> QED BY <1>3, <1>4

\* One more move of the damage.
LEMMA BroughtAppend ==
  ASSUME NEW S, NEW moves \in Seq(S), NEW m \in S, NEW p
  PROVE  Brought(Append(moves, m), p) =
           IF Covers(m.to, p) THEN Origin(p, m.to, m.x, m.y)
           ELSE Brought(moves, p)
<1> DEFINE n == Len(moves)
           longer == Append(moves, m)
<1>1. /\ n \in Nat /\ DOMAIN moves = 1 .. n /\ DOMAIN longer = 1 .. (n + 1)
      /\ \A i \in 1 .. n : longer[i] = moves[i]
      /\ longer[n + 1] = m
  OBVIOUS
<1> HIDE DEF n, longer
<1>2. 1 .. (n + 1) = (1 .. n) \cup {n + 1} /\ n + 1 \notin 1 .. n
  BY <1>1
<1>3. Into(moves, p) \subseteq 1 .. n
  BY <1>1 DEF Into
<1>4. CASE Covers(m.to, p)
  <2>1. Into(longer, p) = Into(moves, p) \cup {n + 1}
    BY <1>1, <1>2, <1>4 DEF Into
  <2>2. Latest(Into(longer, p)) = n + 1
    BY <1>1, <1>3, <2>1, LatestNext
  <2>3. Into(longer, p) # {}
    BY <2>1
  <2> QED BY <1>1, <1>4, <2>2, <2>3 DEF Brought, longer
<1>5. CASE ~Covers(m.to, p)
  <2>1. Into(longer, p) = Into(moves, p)
    BY <1>1, <1>2, <1>5 DEF Into
  <2>2. CASE Into(moves, p) = {}
    BY <1>5, <2>1, <2>2 DEF Brought, longer
  <2>3. CASE Into(moves, p) # {}
    <3>1. Latest(Into(moves, p)) \in 1 .. n
      BY <1>1, <1>3, <2>3, LatestIs
    <3>2. longer[Latest(Into(moves, p))] = moves[Latest(Into(moves, p))]
      BY <1>1, <3>1
    <3> QED BY <1>5, <2>1, <2>3, <3>2 DEF Brought, longer
  <2> QED BY <2>2, <2>3
<1> QED BY <1>4, <1>5

\* The damage after the first k moves brings, or has dirty, what they moved.
MovesFollowed(d, moves, k, c) ==
  /\ Built(d, c)
  /\ ~d.overflow =>
       \A p \in OutputPixels(c) : ~CoveredBy(d.dirty, p) =>
          /\ Brought(d.moves, p) \in OutputPixels(c)
          /\ ShownSurface(c, Brought(d.moves, p))
               = Landed(moves, k, ShownSurface(c, p))

\* What a rectangle of the surface covers, clipped to the region.
LEMMA SurfaceClip ==
  ASSUME NEW c, Capturable(c), NEW r \in RectType
  PROVE  LET m == ClipToRegion(Logical(r, c), c.region)
         IN  /\ m.status \in {"mapped", "empty"}
             /\ m.status = "empty" <=> m = Empty
             /\ m.status = "mapped" => /\ m.rect \in RectType
                                       /\ InBounds(m.rect, c.region.w, c.region.h)
             /\ \A p \in OutputPixels(c) :
                  Covers(r, ShownSurface(c, p))
                    <=> m.status = "mapped"
                        /\ Covers(m.rect, Taps(GeometryOf(c), p))
<1> DEFINE l == Logical(r, c)
           m == ClipToRegion(l, c.region)
<1>1. l \in RectType
  BY LogicalRects
<1> HIDE DEF l
<1>2. /\ m.status \in {"mapped", "empty"}
      /\ m.status = "empty" <=> m = Empty
      /\ m.status = "mapped" => /\ m.rect \in RectType
                                /\ InBounds(m.rect, c.region.w, c.region.h)
      /\ \A p \in OutputPixels(c) :
           Covers(l, Shown(c, p))
             <=> m.status = "mapped" /\ Covers(m.rect, Taps(GeometryOf(c), p))
  BY <1>1, ClipShown
<1>3. \A p \in OutputPixels(c) :
        Covers(r, ShownSurface(c, p)) <=> Covers(l, Shown(c, p))
  BY ShownPoints, ShownSurfaceIs, RotationCovers DEF l
<1> HIDE DEF m
<1>4. \A p \in OutputPixels(c) :
        Covers(r, ShownSurface(c, p))
          <=> m.status = "mapped" /\ Covers(m.rect, Taps(GeometryOf(c), p))
  BY <1>2, <1>3
<1> QED BY <1>2, <1>4 DEF m, l

\* A move of the region is the move of the surface it was clipped from.
LEMMA MoveShown ==
  ASSUME NEW c, Capturable(c), NEW move \in SurfaceMoves,
         NEW to \in RectType, NEW from,
         from = ClippedSource(Logical(move.from, c), Logical(move.to, c),
                              to, c.region),
         NEW p \in OutputPixels(c), NEW o \in OutputPixels(c),
         Taps(GeometryOf(c), o)
           = Origin(Taps(GeometryOf(c), p), to, from.x, from.y)
  PROVE  ShownSurface(c, o)
           = Origin(ShownSurface(c, p), move.to, move.from.x, move.from.y)
<1> DEFINE g == GeometryOf(c)
           f == Logical(move.from, c)
           t == Logical(move.to, c)
           i == Taps(g, p)[1]
           j == Taps(g, p)[2]
<1>1. /\ Extents(g) /\ g.sw = c.region.w /\ g.sh = c.region.h
      /\ g.ow = c.out.w /\ g.oh = c.out.h /\ OutputPixels(c) = Outputs(g)
      /\ c.region.x \in Int /\ c.region.y \in Int
  BY CaptureExtents, CaptureSurface
<1>2. /\ move.from \in RectType /\ move.to \in RectType
      /\ move.from.w = move.to.w /\ move.from.h = move.to.h
  BY DEF SurfaceMoves
<1>3. f \in RectType /\ t \in RectType
  BY <1>2, LogicalRects
<1>4. i \in Int /\ j \in Int
  <2> HIDE DEF g
  <2> QED BY <1>1, TapsInside DEF Taps
<1>5. \A q : Shown(c, q) = <<c.region.x + Taps(g, q)[1],
                             c.region.y + Taps(g, q)[2]>>
  BY <1>1 DEF Shown, Taps
<1>6. /\ from.x = f.x + to.x - t.x /\ from.y = f.y + to.y - t.y
  BY RectFields DEF ClippedSource
<1>7. /\ Taps(g, o)[1] = i - to.x + from.x /\ Taps(g, o)[2] = j - to.y + from.y
  BY DEF Origin
<1>8. Shown(c, p)[1] = c.region.x + i /\ Shown(c, p)[2] = c.region.y + j
  BY <1>5
<1> HIDE DEF g, f, t, i, j
<1>9. /\ f.x \in Int /\ f.y \in Int /\ t.x \in Int /\ t.y \in Int
      /\ to.x \in Int /\ to.y \in Int
  BY <1>3 DEF RectType
<1>10. /\ c.region.x + (i - to.x + from.x) = (c.region.x + i) - t.x + f.x
       /\ c.region.y + (j - to.y + from.y) = (c.region.y + j) - t.y + f.y
  <2>1. /\ i - to.x + from.x = i - t.x + f.x
        /\ j - to.y + from.y = j - t.y + f.y
    BY <1>4, <1>6, <1>9
  <2>2. \A a, b, d, e \in Int : a + (b - d + e) = (a + b) - d + e
    OBVIOUS
  <2> QED BY <1>1, <1>4, <1>9, <2>1, <2>2
<1>11. Shown(c, o) = Origin(Shown(c, p), t, f.x, f.y)
  <2>1. Shown(c, o) = <<c.region.x + (i - to.x + from.x),
                        c.region.y + (j - to.y + from.y)>>
    BY <1>5, <1>7
  <2>2. Origin(Shown(c, p), t, f.x, f.y)
          = <<(c.region.x + i) - t.x + f.x, (c.region.y + j) - t.y + f.y>>
    BY <1>8 DEF Origin
  <2> QED BY <1>10, <2>1, <2>2
<1>12. Origin(OnSurface(c, Shown(c, p)), move.to, move.from.x, move.from.y)
         = OnSurface(c, Origin(Shown(c, p), t, f.x, f.y))
  BY <1>2, ShownPoints, RotationMoves DEF f, t
<1> QED BY <1>11, <1>12, ShownSurfaceIs

\* Damage that grows, when nothing uncovered shows what the next move fills.
LEMMA FollowedByDirt ==
  ASSUME NEW c, Capturable(c), NEW moves, NEW k \in Nat,
         NEW d, NEW e, MovesFollowed(d, moves, k, c), Grows(d, e, c),
         ~e.overflow => \A p \in OutputPixels(c) :
           Covers(moves[k + 1].to, ShownSurface(c, p)) => CoveredBy(e.dirty, p)
  PROVE  MovesFollowed(e, moves, k + 1, c)
<1>1. ASSUME ~e.overflow, NEW p \in OutputPixels(c), ~CoveredBy(e.dirty, p)
      PROVE  /\ Brought(e.moves, p) \in OutputPixels(c)
             /\ ShownSurface(c, Brought(e.moves, p))
                  = Landed(moves, k + 1, ShownSurface(c, p))
  <2>1. ~d.overflow /\ ~CoveredBy(d.dirty, p) /\ e.moves = d.moves
    BY <1>1 DEF Grows
  <2>2. /\ Brought(d.moves, p) \in OutputPixels(c)
        /\ ShownSurface(c, Brought(d.moves, p))
             = Landed(moves, k, ShownSurface(c, p))
    BY <2>1 DEF MovesFollowed
  <2>3. Landed(moves, k + 1, ShownSurface(c, p))
          = Landed(moves, k, ShownSurface(c, p))
    BY <1>1, LandedNext
  <2> QED BY <2>1, <2>2, <2>3
<1>2. Built(e, c)
  BY DEF Grows
<1> QED BY <1>1, <1>2 DEF MovesFollowed

\* A move appended, with the dirty rectangles beside it.
WithMove(d, m, dirty) ==
  [d EXCEPT !.moves = Append(@, m), !.dirty = @ \o dirty]

\* A move that is mapped keeps the damage true to the moves so far.
LEMMA FollowedByMove ==
  ASSUME NEW c, Capturable(c), NEW moves, NEW k \in Nat,
         moves[k + 1] \in SurfaceMoves,
         NEW d, MovesFollowed(d, moves, k, c), ~d.overflow,
         NEW to \in RectType, NEW from, NEW clip,
         clip = ClipToRegion(Logical(moves[k + 1].to, c), c.region),
         clip.status = "mapped", to = clip.rect,
         from = ClippedSource(Logical(moves[k + 1].from, c),
                              Logical(moves[k + 1].to, c), to, c.region),
         NEW m, NEW dirty, Carries(m, dirty, from, to, c),
         Len(d.moves) < MaxMoveRects,
         Len(d.dirty) + Len(dirty) <= MaxDirtyRects,
         NEW e, e = WithMove(d, m, dirty)
  PROVE  MovesFollowed(e, moves, k + 1, c)
<1> DEFINE g == GeometryOf(c)
           longer == Append(d.moves, m)
           dirtier == d.dirty \o dirty
<1>1. /\ Built(d, c)
      /\ d.dirty \in Seq(DirtyRects(c)) /\ d.moves \in Seq(MoveRects(c))
      /\ d.full = FALSE /\ d.overflow \in BOOLEAN
      /\ Len(d.dirty) \in Nat /\ Len(d.dirty) <= MaxDirtyRects
      /\ Len(d.moves) \in Nat /\ Len(d.moves) <= MaxMoveRects
  BY DamageFields DEF MovesFollowed
<1>2. m \in MoveRects(c) /\ dirty \in Seq(DirtyRects(c))
  BY DEF Carries
<1>3. /\ longer \in Seq(MoveRects(c)) /\ Len(longer) = Len(d.moves) + 1
      /\ dirtier \in Seq(DirtyRects(c))
      /\ Len(dirtier) = Len(d.dirty) + Len(dirty)
  BY <1>1, <1>2
<1>4. Len(longer) <= MaxMoveRects /\ Len(dirtier) <= MaxDirtyRects
  BY <1>1, <1>3, RectsAssumption
<1>5. \A p : /\ CoveredBy(dirtier, p)
                  <=> CoveredBy(d.dirty, p) \/ CoveredBy(dirty, p)
             /\ Brought(longer, p) = IF Covers(m.to, p)
                                     THEN Origin(p, m.to, m.x, m.y)
                                     ELSE Brought(d.moves, p)
  BY <1>1, <1>2, CoveredByConcat, BroughtAppend
<1>6. e = [d EXCEPT !.moves = longer, !.dirty = dirtier]
  BY DEF WithMove
<1> HIDE DEF longer, dirtier
<1>7. /\ e.dirty = dirtier /\ e.moves = longer /\ e.overflow = d.overflow
      /\ e \in [dirty : Seq(DirtyRects(c)), moves : Seq(MoveRects(c)),
                full : {FALSE}, overflow : BOOLEAN]
  BY <1>1, <1>3, <1>6 DEF Built
<1>8. Built(e, c)
  BY <1>4, <1>7 DEF Built
<1>9. ASSUME NEW p \in OutputPixels(c), ~CoveredBy(e.dirty, p)
      PROVE  /\ Brought(e.moves, p) \in OutputPixels(c)
             /\ ShownSurface(c, Brought(e.moves, p))
                  = Landed(moves, k + 1, ShownSurface(c, p))
  <2>1. ~CoveredBy(d.dirty, p) /\ ~CoveredBy(dirty, p)
    BY <1>5, <1>7, <1>9
  <2>2. Covers(moves[k + 1].to, ShownSurface(c, p)) <=> Covers(to, Taps(g, p))
    <3>1. moves[k + 1].to \in RectType
      BY DEF SurfaceMoves
    <3>2. \A q \in OutputPixels(c) :
            Covers(moves[k + 1].to, ShownSurface(c, q))
              <=> clip.status = "mapped" /\ Covers(clip.rect, Taps(g, q))
      BY <3>1, SurfaceClip
    <3> QED BY <3>2
  <2>3. CASE Covers(m.to, p)
    <3> DEFINE o == Origin(p, m.to, m.x, m.y)
    <3>1. /\ Covers(to, Taps(g, p)) /\ o \in OutputPixels(c)
          /\ Taps(g, o) = Origin(Taps(g, p), to, from.x, from.y)
      BY <2>3 DEF Carries
    <3>2. Brought(e.moves, p) = o
      BY <1>5, <1>7, <2>3
    <3> HIDE DEF o
    <3>3. ShownSurface(c, o)
            = Origin(ShownSurface(c, p), moves[k + 1].to,
                     moves[k + 1].from.x, moves[k + 1].from.y)
      BY <3>1, MoveShown DEF g
    <3>4. Landed(moves, k + 1, ShownSurface(c, p))
            = Origin(ShownSurface(c, p), moves[k + 1].to,
                     moves[k + 1].from.x, moves[k + 1].from.y)
      BY <2>2, <3>1, LandedNext
    <3> QED BY <3>1, <3>2, <3>3, <3>4
  <2>4. CASE ~Covers(m.to, p)
    <3>1. ~Covers(to, Taps(g, p))
      BY <2>1, <2>4 DEF Carries
    <3>2. Brought(e.moves, p) = Brought(d.moves, p)
      BY <1>5, <1>7, <2>4
    <3>3. Landed(moves, k + 1, ShownSurface(c, p))
            = Landed(moves, k, ShownSurface(c, p))
      BY <2>2, <3>1, LandedNext
    <3> QED BY <2>1, <3>2, <3>3 DEF MovesFollowed
  <2> QED BY <2>3, <2>4
<1> QED BY <1>8, <1>9 DEF MovesFollowed

\* append_move, as build_damage does it
LEMMA AppendMoveFollows ==
  ASSUME NEW c, Capturable(c), ~DriverScales(c), NEW moves, NEW k \in Nat,
         moves[k + 1] \in SurfaceMoves,
         NEW d, MovesFollowed(d, moves, k, c),
         NEW e, e = AppendMove(d, moves[k + 1], c)
  PROVE  MovesFollowed(e, moves, k + 1, c)
<1> DEFINE m == moves[k + 1]
           g == GeometryOf(c)
           clip == ClipToRegion(Logical(m.to, c), c.region)
           to == clip.rect
           from == ClippedSource(Logical(m.from, c), Logical(m.to, c), to,
                                 c.region)
           mapping == PlanarMove(from, to, g)
           exact == {x \in ScaleMoveExact(from, to, g) :
                       c.planar => PlanarMoveAligned(x)}
           chosen == CHOOSE x \in exact : TRUE
<1>1. e = IF d.overflow \/ clip = Empty THEN d
          ELSE IF ~InBounds(from, g.sw, g.sh) THEN AppendDirty(d, to, c)
          ELSE IF Scaled(g)
          THEN IF ~Deterministic(c) THEN AppendDirty(d, to, c)
               ELSE IF mapping.status = "empty" THEN d
               ELSE IF mapping.status = "mapped" THEN AppendMapping(d, mapping)
               ELSE AppendDirty(d, to, c)
          ELSE IF exact = {} THEN AppendDirty(d, to, c)
          ELSE IF Len(d.moves) = MaxMoveRects THEN Overflow(d)
          ELSE [d EXCEPT !.moves = Append(@, chosen)]
  BY DEF AppendMove, Logical
<1>2. m.to \in RectType
  BY DEF SurfaceMoves
<1>3. /\ clip.status \in {"mapped", "empty"}
      /\ clip.status = "empty" <=> clip = Empty
      /\ clip.status = "mapped" => /\ clip.rect \in RectType
                                   /\ InBounds(clip.rect, c.region.w, c.region.h)
      /\ \A p \in OutputPixels(c) :
           Covers(m.to, ShownSurface(c, p))
             <=> clip.status = "mapped" /\ Covers(clip.rect, Taps(g, p))
  BY <1>2, SurfaceClip
<1>4. /\ Extents(g) /\ g.sw = c.region.w /\ g.sh = c.region.h
      /\ OutputPixels(c) = Outputs(g)
      /\ ~Deterministic(c) => ~Scaled(g)
  BY CaptureExtents
<1>5. Built(d, c) /\ Grows(d, d, c)
  BY DEF MovesFollowed, Grows
<1>6. exact # {} => /\ chosen \in ScaleMoveExact(from, to, g)
                    /\ c.planar => PlanarMoveAligned(chosen)
  OBVIOUS
<1>7. clip.status = "mapped" => /\ from \in RectType
                                /\ from.w = to.w /\ from.h = to.h
  <2> SUFFICES ASSUME clip.status = "mapped"
               PROVE  /\ from \in RectType
                      /\ from.w = to.w /\ from.h = to.h
    OBVIOUS
  <2> DEFINE f == Logical(m.from, c)
             t == Logical(m.to, c)
  <2>1. f \in RectType /\ t \in RectType
    BY LogicalRects DEF SurfaceMoves
  <2>2. to \in RectType
    BY <1>3
  <2> HIDE DEF f, t, clip
  <2>3. /\ f.x + to.x - t.x \in Int /\ f.y + to.y - t.y \in Int
        /\ to.w \in Nat /\ to.h \in Nat
    BY <2>1, <2>2 DEF RectType
  <2>4. from = Rect(f.x + to.x - t.x, f.y + to.y - t.y, to.w, to.h)
    BY DEF ClippedSource, f, t
  <2>5. from \in RectType
    BY <2>3, <2>4, RectTyped
  <2>6. from.w = to.w /\ from.h = to.h
    BY <2>4, RectFields
  <2> QED BY <2>5, <2>6
<1>17. /\ clip = ClipToRegion(Logical(moves[k + 1].to, c), c.region)
       /\ from = ClippedSource(Logical(moves[k + 1].from, c),
                               Logical(moves[k + 1].to, c), to, c.region)
       /\ to = clip.rect
  OBVIOUS
<1> HIDE DEF clip, from, mapping, exact, chosen
<1>8. ASSUME Grows(d, e, c), ~e.overflow => \A p \in OutputPixels(c) :
               Covers(m.to, ShownSurface(c, p)) => CoveredBy(e.dirty, p)
      PROVE  MovesFollowed(e, moves, k + 1, c)
  BY <1>8, FollowedByDirt
<1>9. CASE e = d /\ d.overflow
  BY <1>5, <1>8, <1>9
<1>10. CASE e = d /\ clip = Empty
  BY <1>3, <1>5, <1>8, <1>10
<1>11. CASE e = Overflow(d)
  BY <1>5, <1>8, <1>11, Overflown
<1>12. CASE e = AppendDirty(d, to, c) /\ clip.status = "mapped"
  <2>1. to \in RectType
    BY <1>3, <1>12
  <2>2. /\ Grows(d, e, c)
        /\ ~e.overflow => \A p \in OutputPixels(c) :
             Covers(to, Taps(g, p)) => CoveredBy(e.dirty, p)
    <3> HIDE DEF to
    <3> QED BY <1>5, <1>12, <2>1, AppendDirtyCovers
  <2> QED BY <1>3, <1>8, <2>2
<1>13. CASE /\ e = d /\ clip.status = "mapped" /\ mapping.status = "empty"
  <2>1. MapsMove(mapping, from, to, c)
    <3> HIDE DEF to
    <3>1. to \in RectType /\ from \in RectType
      BY <1>3, <1>7, <1>13 DEF to
    <3> QED BY <3>1, PlanarMoveMaps DEF mapping
  <2>2. \A p \in OutputPixels(c) : ~Covers(to, Taps(g, p))
    BY <1>13, <2>1 DEF MapsMove
  <2> QED BY <1>3, <1>5, <1>8, <1>13, <2>2
<1>14. CASE /\ e = AppendMapping(d, mapping) /\ mapping.status = "mapped"
            /\ clip.status = "mapped" /\ ~d.overflow
  <2>1. to \in RectType /\ from \in RectType
    BY <1>3, <1>7, <1>14
  <2>2. Carries(mapping.move, mapping.dirty, from, to, c)
    <3> HIDE DEF to, g
    <3> QED BY <1>14, <2>1, PlanarMoveCarries DEF mapping, g
  <2>3. /\ Len(d.dirty) \in Nat /\ Len(d.moves) \in Nat
        /\ Len(d.moves) <= MaxMoveRects
    BY <1>5, DamageFields
  <2>4. Len(mapping.dirty) \in Nat
    BY <2>2 DEF Carries
  <2>5. MaxDirtyRects \in Nat /\ MaxMoveRects \in Nat
    BY RectsAssumption
  <2>6. CASE \/ Len(d.moves) >= MaxMoveRects
             \/ Len(mapping.dirty) > MaxDirtyRects - Len(d.dirty)
    <3>1. e = Overflow(d)
      BY <1>14, <2>6 DEF AppendMapping
    <3> QED BY <1>11, <3>1
  <2>7. CASE ~(\/ Len(d.moves) >= MaxMoveRects
               \/ Len(mapping.dirty) > MaxDirtyRects - Len(d.dirty))
    <3>1. e = WithMove(d, mapping.move, mapping.dirty)
      BY <1>14, <2>7 DEF AppendMapping, WithMove
    <3>2. /\ Len(d.moves) < MaxMoveRects
          /\ Len(d.dirty) + Len(mapping.dirty) <= MaxDirtyRects
      <4>1. \A i, j, k1, l1, m1 \in Nat :
              ~(i >= j \/ k1 > l1 - m1) => i < j /\ m1 + k1 <= l1
        OBVIOUS
      <4> QED BY <2>3, <2>4, <2>5, <2>7, <4>1
    <3> HIDE DEF to
    <3> QED BY <1>14, <1>17, <2>1, <2>2, <3>1, <3>2, FollowedByMove
  <2> QED BY <2>6, <2>7
<1>15. CASE /\ e = [d EXCEPT !.moves = Append(@, chosen)] /\ exact # {}
            /\ ~Scaled(g) /\ clip.status = "mapped" /\ ~d.overflow
            /\ Len(d.moves) # MaxMoveRects
  <2>1. to \in RectType /\ from \in RectType
    BY <1>3, <1>7, <1>15
  <2>2. /\ chosen = Move(from.x, from.y, to)
        /\ from.w = to.w /\ from.h = to.h
        /\ InBounds(from, c.region.w, c.region.h)
        /\ InBounds(to, c.region.w, c.region.h)
    <3> HIDE DEF to
    <3> QED BY <1>6, <1>15, <2>1, ScaleMoveUnscaled
  <2>3. Carries(chosen, <<>>, from, to, c)
    <3> HIDE DEF to
    <3> QED BY <1>6, <1>15, <2>1, <2>2, WholeMoveCarries
  <2>4. /\ Len(d.dirty) \in Nat /\ Len(d.moves) \in Nat
        /\ Len(d.moves) <= MaxMoveRects /\ Len(d.dirty) <= MaxDirtyRects
        /\ d.dirty \in Seq(DirtyRects(c))
    BY <1>5, DamageFields
  <2>5. MaxDirtyRects \in Nat /\ MaxMoveRects \in Nat
    BY RectsAssumption
  <2>6. d.dirty \o <<>> = d.dirty /\ Len(<<>>) = 0
    BY <2>4
  <2>7. /\ Len(d.moves) < MaxMoveRects
        /\ Len(d.dirty) + Len(<<>>) <= MaxDirtyRects
    BY <1>15, <2>4, <2>5, <2>6
  <2>8. e = WithMove(d, chosen, <<>>)
    <3> DEFINE longer == Append(d.moves, chosen)
    <3>1. e = [d EXCEPT !.moves = longer]
      BY <1>15
    <3> HIDE DEF longer
    <3>2. [d EXCEPT !.moves = longer]
            = [d EXCEPT !.moves = longer, !.dirty = d.dirty]
      BY <1>5 DEF Built
    <3> QED BY <2>6, <3>1, <3>2 DEF longer, WithMove
  <2> HIDE DEF to
  <2> QED BY <1>15, <1>17, <2>1, <2>3, <2>7, <2>8, FollowedByMove
<1>16. \/ e = d /\ d.overflow
       \/ e = d /\ clip = Empty
       \/ e = Overflow(d)
       \/ e = AppendDirty(d, to, c) /\ clip.status = "mapped"
       \/ e = d /\ clip.status = "mapped" /\ mapping.status = "empty"
       \/ /\ e = AppendMapping(d, mapping) /\ mapping.status = "mapped"
          /\ clip.status = "mapped" /\ ~d.overflow
       \/ /\ e = [d EXCEPT !.moves = Append(@, chosen)] /\ exact # {}
          /\ ~Scaled(g) /\ clip.status = "mapped" /\ ~d.overflow
          /\ Len(d.moves) # MaxMoveRects
  <2>1. clip # Empty => clip.status = "mapped"
    BY <1>3
  <2> HIDE DEF to, g
  <2> QED BY <1>1, <2>1
<1> QED BY <1>9, <1>10, <1>11, <1>12, <1>13, <1>14, <1>15, <1>16

\* The damage of a frame's moves is true to all of them.
LEMMA MovesFollow ==
  ASSUME NEW c, Capturable(c), ~DriverScales(c), NEW moves \in Seq(SurfaceMoves)
  PROVE  MovesFollowed(MovedDamage(moves, c)[Len(moves)], moves, Len(moves), c)
<1> DEFINE f == MovedDamage(moves, c)
           n == Len(moves)
           T == {k \in Nat : k <= n => MovesFollowed(f[k], moves, k, c)}
<1>1. n \in Nat /\ \A i \in 1 .. n : moves[i] \in SurfaceMoves
  OBVIOUS
<1>2. /\ f[0] = NoDamage
      /\ \A i \in 1 .. n : f[i] = AppendMove(f[i - 1], moves[i], c)
  BY <1>1, MovedUnfolds
<1> HIDE DEF f, n
<1>3. 0 \in T
  <2>1. Into(<<>>, 0) = {} /\ \A p : Into(<<>>, p) = {}
    BY DEF Into
  <2>2. \A p : Brought(<<>>, p) = p
    BY <2>1 DEF Brought
  <2>3. \A q : Landed(moves, 0, q) = q
    BY LandedNext
  <2>4. MovesFollowed(NoDamage, moves, 0, c)
    BY <2>2, <2>3, NothingBuilt DEF MovesFollowed
  <2> QED BY <1>2, <2>4
<1>4. ASSUME NEW k \in Nat, k \in T
      PROVE  k + 1 \in T
  <2> SUFFICES ASSUME k + 1 <= n
               PROVE  MovesFollowed(f[k + 1], moves, k + 1, c)
    OBVIOUS
  <2>1. k + 1 \in 1 .. n /\ (k + 1) - 1 = k /\ k <= n
    BY <1>1
  <2>2. MovesFollowed(f[k], moves, k, c)
    BY <1>4, <2>1
  <2>3. f[k + 1] = AppendMove(f[k], moves[k + 1], c)
    BY <1>2, <2>1
  <2>4. moves[k + 1] \in SurfaceMoves
    BY <1>1, <2>1
  <2> QED BY <2>2, <2>3, <2>4, AppendMoveFollows
<1>5. n \in T
  <2> HIDE DEF T
  <2> QED BY <1>1, <1>3, <1>4, SetInduction
<1> QED BY <1>1, <1>5 DEF f, n

\* The damage of the moves, after the first k dirty rectangles as well.
DirtFollowed(f, d, k, dirty, c) ==
  /\ Grows(d, f[k], c)
  /\ ~f[k].overflow =>
       \A p \in OutputPixels(c), i \in 1 .. k :
          Covers(dirty[i], ShownSurface(c, p)) => CoveredBy(f[k].dirty, p)

\* One more dirty rectangle of a duplicated frame is accounted for.
LEMMA AppendDirtyRectCovers ==
  ASSUME NEW c, Capturable(c), ~DriverScales(c), NEW d, Built(d, c),
         NEW r \in RectType, NEW e, e = AppendDirtyRect(d, r, c)
  PROVE  /\ Grows(d, e, c)
         /\ ~e.overflow => \A p \in OutputPixels(c) :
              Covers(r, ShownSurface(c, p)) => CoveredBy(e.dirty, p)
<1> DEFINE g == GeometryOf(c)
           clip == ClipToRegion(Logical(r, c), c.region)
<1>1. e = IF d.overflow \/ clip = Empty THEN d
          ELSE AppendDirty(d, clip.rect, c)
  BY DEF AppendDirtyRect, Logical
<1>2. /\ clip.status \in {"mapped", "empty"}
      /\ clip.status = "empty" <=> clip = Empty
      /\ clip.status = "mapped" => /\ clip.rect \in RectType
                                   /\ InBounds(clip.rect, c.region.w, c.region.h)
      /\ \A p \in OutputPixels(c) :
           Covers(r, ShownSurface(c, p))
             <=> clip.status = "mapped" /\ Covers(clip.rect, Taps(g, p))
  BY SurfaceClip
<1> HIDE DEF clip
<1>3. CASE d.overflow \/ clip = Empty
  <2>1. e = d
    BY <1>1, <1>3
  <2>2. Grows(d, d, c)
    BY DEF Grows
  <2> QED BY <1>2, <1>3, <2>1, <2>2
<1>4. CASE ~d.overflow /\ clip # Empty
  <2>1. e = AppendDirty(d, clip.rect, c) /\ clip.rect \in RectType
    BY <1>1, <1>2, <1>4
  <2>2. /\ Grows(d, e, c)
        /\ ~e.overflow => \A p \in OutputPixels(c) :
             Covers(clip.rect, Taps(GeometryOf(c), p)) => CoveredBy(e.dirty, p)
    BY <2>1, AppendDirtyCovers
  <2> QED BY <1>2, <2>2
<1> QED BY <1>3, <1>4

\* All the dirty rectangles of a duplicated frame are.
LEMMA DirtFollows ==
  ASSUME NEW c, Capturable(c), ~DriverScales(c), NEW d, Built(d, c),
         NEW dirty \in Seq(RectType)
  PROVE  DirtFollowed(DirtiedDamage(d, dirty, c), d, Len(dirty), dirty, c)
<1> DEFINE f == DirtiedDamage(d, dirty, c)
           n == Len(dirty)
           T == {k \in Nat : k <= n => DirtFollowed(f, d, k, dirty, c)}
<1>1. n \in Nat /\ \A i \in 1 .. n : dirty[i] \in RectType
  OBVIOUS
<1>2. /\ f[0] = d
      /\ \A i \in 1 .. n : f[i] = AppendDirtyRect(f[i - 1], dirty[i], c)
  BY <1>1, DirtiedUnfolds
<1> HIDE DEF f, n
<1>3. 0 \in T
  <2>1. Grows(d, d, c)
    BY DEF Grows
  <2>2. DirtFollowed(f, d, 0, dirty, c)
    BY <1>2, <2>1 DEF DirtFollowed
  <2> QED BY <2>2
<1>4. ASSUME NEW k \in Nat, k \in T
      PROVE  k + 1 \in T
  <2> SUFFICES ASSUME k + 1 <= n
               PROVE  DirtFollowed(f, d, k + 1, dirty, c)
    OBVIOUS
  <2>1. k + 1 \in 1 .. n /\ (k + 1) - 1 = k /\ k <= n
    BY <1>1
  <2>2. DirtFollowed(f, d, k, dirty, c)
    BY <1>4, <2>1
  <2> HIDE DEF T
  <2>3. f[k + 1] = AppendDirtyRect(f[k], dirty[k + 1], c)
    BY <1>2, <2>1
  <2>4. Built(f[k], c) /\ dirty[k + 1] \in RectType
    BY <1>1, <2>1, <2>2 DEF DirtFollowed, Grows
  <2> DEFINE r == dirty[k + 1]
             b == f[k]
             e == f[k + 1]
  <2>5. /\ Grows(b, e, c)
        /\ ~e.overflow => \A p \in OutputPixels(c) :
             Covers(r, ShownSurface(c, p)) => CoveredBy(e.dirty, p)
    <3> HIDE DEF b, e, r
    <3> QED BY <2>3, <2>4, AppendDirtyRectCovers DEF b, e, r
  <2>6. Grows(d, e, c)
    BY <2>2, <2>5, GrowsOn DEF DirtFollowed
  <2>7. ASSUME ~e.overflow, NEW p \in OutputPixels(c), NEW i \in 1 .. (k + 1),
               Covers(dirty[i], ShownSurface(c, p))
        PROVE  CoveredBy(e.dirty, p)
    <3>1. CASE i = k + 1
      BY <2>5, <2>7, <3>1
    <3>2. CASE i # k + 1
      <4>1. i \in 1 .. k
        BY <3>2
      <4>2. CoveredBy(b.dirty, p)
        BY <2>2, <2>5, <2>7, <4>1 DEF DirtFollowed, Grows
      <4> QED BY <2>5, <4>2 DEF Grows
    <3> QED BY <3>1, <3>2
  <2> HIDE DEF b, e
  <2>8. DirtFollowed(f, d, k + 1, dirty, c)
    BY <2>6, <2>7 DEF DirtFollowed, e
  <2> QED BY <2>8
<1>5. n \in T
  <2> HIDE DEF T
  <2> QED BY <1>1, <1>3, <1>4, SetInduction
<1> QED BY <1>1, <1>5 DEF f, n

-----------------------------------------------------------------------------
(* The consumer's image.  A chroma sample averages the four pixels of its  *)
(* block, so an image is its luma when every rectangle is of whole blocks. *)

Quarters == {0, 1} \X {0, 1}
Corner(b, i) == <<2 * b[1] + i[1], 2 * b[2] + i[2]>>

ChromaOf(luma, c) ==
  [b \in Blocks(c) |-> [i \in Quarters |-> luma[Corner(b, i)]]]
ImageOf(luma, c) == [luma |-> luma, chroma |-> ChromaOf(luma, c)]

LumaOf(c, image) == [p \in OutputPixels(c) |-> image[ShownSurface(c, p)]]

\* A rendered image is its luma.
LEMMA RenderIs ==
  ASSUME NEW c, NEW image
  PROVE  Render(c, image) = ImageOf(LumaOf(c, image), c)
  BY DEF Render, ImageOf, ChromaOf, LumaOf, ShownSurface, Quarters, Corner

\* The four pixels of a chroma block are pixels of the output.
LEMMA BlockCorners ==
  ASSUME NEW c, Capturable(c), NEW b \in Blocks(c), NEW i \in Quarters
  PROVE  /\ c.planar /\ Corner(b, i) \in OutputPixels(c)
         /\ b[1] \in Int /\ b[2] \in Int /\ i[1] \in {0, 1} /\ i[2] \in {0, 1}
<1> DEFINE g == GeometryOf(c)
<1>1. /\ g.ow = c.out.w /\ g.oh = c.out.h /\ g.planar = c.planar
      /\ g.ow \in Nat \ {0} /\ g.oh \in Nat \ {0} /\ ValidGeometry(g)
  BY CaptureExtents DEF Extents
<1>2. c.planar /\ b \in PixelsOf(g.ow \div 2, g.oh \div 2)
  BY <1>1 DEF Blocks
<1>3. g.ow % 2 = 0 /\ g.oh % 2 = 0
  BY <1>1, <1>2 DEF ValidGeometry
<1> HIDE DEF g
<1>4. b[1] \in 0 .. (g.ow \div 2 - 1) /\ b[2] \in 0 .. (g.oh \div 2 - 1)
  BY <1>2 DEF PixelsOf
<1>5. i[1] \in {0, 1} /\ i[2] \in {0, 1}
  BY DEF Quarters
<1>6. \A n \in Nat : \A k, j \in Int :
        n % 2 = 0 /\ k \in 0 .. (n \div 2 - 1) /\ j \in {0, 1}
          => 2 * k + j \in 0 .. (n - 1)
  OBVIOUS
<1>7. b[1] \in Int /\ b[2] \in Int /\ i[1] \in Int /\ i[2] \in Int
  BY <1>1, <1>4, <1>5
<1>8. 2 * b[1] + i[1] \in 0 .. (g.ow - 1) /\ 2 * b[2] + i[2] \in 0 .. (g.oh - 1)
  BY <1>1, <1>3, <1>4, <1>5, <1>6, <1>7
<1>9. Corner(b, i) \in OutputPixels(c)
  BY <1>1, <1>8 DEF Corner, OutputPixels, PixelsOf
<1> QED BY <1>2, <1>5, <1>7, <1>9

\* A rectangle of whole blocks covers all of a block or none of it.
LEMMA BlockCovered ==
  ASSUME NEW c, Capturable(c), NEW r \in DirtyRects(c),
         NEW b \in Blocks(c), NEW i \in Quarters
  PROVE  CoversBlock(r, b) <=> Covers(r, Corner(b, i))
<1> DEFINE x == b[1]
           y == b[2]
           j == i[1]
           k == i[2]
<1>1. /\ c.planar /\ x \in Int /\ y \in Int /\ j \in {0, 1} /\ k \in {0, 1}
  BY BlockCorners
<1>2. GeometryOf(c).planar
  BY <1>1 DEF GeometryOf
<1>3. /\ r.x \in Int /\ r.y \in Int /\ r.w \in Nat /\ r.h \in Nat
      /\ r.x % 2 = 0 /\ r.y % 2 = 0 /\ r.w % 2 = 0 /\ r.h % 2 = 0
  BY <1>2 DEF DirtyRects, Publishable, RectType
<1>4. /\ CoversBlock(r, b) <=>
           /\ r.x <= 2 * x /\ 2 * x < r.x + r.w
           /\ r.y <= 2 * y /\ 2 * y < r.y + r.h
           /\ r.x <= 2 * x + 1 /\ 2 * x + 1 < r.x + r.w
           /\ r.y <= 2 * y + 1 /\ 2 * y + 1 < r.y + r.h
      /\ Covers(r, Corner(b, i)) <=>
           /\ r.x <= 2 * x + j /\ 2 * x + j < r.x + r.w
           /\ r.y <= 2 * y + k /\ 2 * y + k < r.y + r.h
  BY DEF CoversBlock, Covers, Corner, Right, Bottom
<1> HIDE DEF x, y, j, k
<1>5. \A a, l, z \in Int : a % 2 = 0 /\ l % 2 = 0 =>
        /\ a <= 2 * z /\ 2 * z < a + l
             <=> a <= 2 * z + 1 /\ 2 * z + 1 < a + l
  OBVIOUS
<1>6. /\ r.x <= 2 * x /\ 2 * x < r.x + r.w
           <=> r.x <= 2 * x + 1 /\ 2 * x + 1 < r.x + r.w
      /\ r.y <= 2 * y /\ 2 * y < r.y + r.h
           <=> r.y <= 2 * y + 1 /\ 2 * y + 1 < r.y + r.h
  BY <1>1, <1>3, <1>5
<1>7. /\ 2 * x + 0 = 2 * x /\ 2 * y + 0 = 2 * y
  BY <1>1
<1> QED BY <1>1, <1>4, <1>6, <1>7

\* copy of the dirty rectangles
LEMMA CopyDirtyWhole ==
  ASSUME NEW c, Capturable(c), NEW dirty \in Seq(DirtyRects(c)),
         NEW new, NEW old
  PROVE  CopyDirty(dirty, ImageOf(new, c), ImageOf(old, c), c)
           = ImageOf([p \in OutputPixels(c) |->
                        IF CoveredBy(dirty, p) THEN new[p] ELSE old[p]], c)
<1> DEFINE luma == [p \in OutputPixels(c) |->
                      IF CoveredBy(dirty, p) THEN new[p] ELSE old[p]]
           copied == CopyDirty(dirty, ImageOf(new, c), ImageOf(old, c), c)
           chroma == [b \in Blocks(c) |->
                        IF \E i \in DOMAIN dirty : CoversBlock(dirty[i], b)
                        THEN ChromaOf(new, c)[b] ELSE ChromaOf(old, c)[b]]
<1>1. copied = [luma |-> luma, chroma |-> chroma]
  BY DEF CopyDirty, ImageOf, CoveredBy
<1>2. ASSUME NEW b \in Blocks(c)
      PROVE  chroma[b] = ChromaOf(luma, c)[b]
  <2>1. ASSUME NEW i \in Quarters
        PROVE  luma[Corner(b, i)] =
                 IF \E j \in DOMAIN dirty : CoversBlock(dirty[j], b)
                 THEN new[Corner(b, i)] ELSE old[Corner(b, i)]
    <3>1. Corner(b, i) \in OutputPixels(c)
      BY BlockCorners
    <3>2. ASSUME NEW j \in DOMAIN dirty
          PROVE  CoversBlock(dirty[j], b) <=> Covers(dirty[j], Corner(b, i))
      <4>1. dirty[j] \in DirtyRects(c)
        OBVIOUS
      <4> QED BY <4>1, BlockCovered
    <3>3. CoveredBy(dirty, Corner(b, i))
            <=> \E j \in DOMAIN dirty : CoversBlock(dirty[j], b)
      BY <3>2 DEF CoveredBy
    <3> QED BY <3>1, <3>3
  <2>2. ChromaOf(luma, c)[b] = [i \in Quarters |-> luma[Corner(b, i)]]
    BY DEF ChromaOf
  <2>3. /\ ChromaOf(new, c)[b] = [i \in Quarters |-> new[Corner(b, i)]]
        /\ ChromaOf(old, c)[b] = [i \in Quarters |-> old[Corner(b, i)]]
    BY DEF ChromaOf
  <2> HIDE DEF luma
  <2>4. CASE \E j \in DOMAIN dirty : CoversBlock(dirty[j], b)
    <3>1. \A i \in Quarters : luma[Corner(b, i)] = new[Corner(b, i)]
      BY <2>1, <2>4
    <3>2. ChromaOf(luma, c)[b] = ChromaOf(new, c)[b]
      BY <2>2, <2>3, <3>1
    <3> QED BY <2>4, <3>2
  <2>5. CASE ~\E j \in DOMAIN dirty : CoversBlock(dirty[j], b)
    <3>1. \A i \in Quarters : luma[Corner(b, i)] = old[Corner(b, i)]
      BY <2>1, <2>5
    <3>2. ChromaOf(luma, c)[b] = ChromaOf(old, c)[b]
      BY <2>2, <2>3, <3>1
    <3> QED BY <2>5, <3>2
  <2> QED BY <2>4, <2>5
<1> HIDE DEF luma
<1>3. chroma = ChromaOf(luma, c)
  <2>1. ChromaOf(luma, c) = [b \in Blocks(c) |-> ChromaOf(luma, c)[b]]
    BY DEF ChromaOf
  <2>2. chroma = [b \in Blocks(c) |-> chroma[b]]
    OBVIOUS
  <2> HIDE DEF chroma
  <2> QED BY <1>2, <2>1, <2>2
<1> QED BY <1>1, <1>3 DEF ImageOf, luma

HalfOrigin(o, z, t, s, n) ==
  o \in 0 .. (n \div 2 - 1) /\ 2 * o = 2 * z - t + s

\* Where a block comes from, along one axis.
LEMMA BlockOrigin ==
  ASSUME NEW n \in Int, NEW z \in Int, NEW t \in Int, NEW s \in Int,
         NEW l \in Int,
         n % 2 = 0, t % 2 = 0, s % 2 = 0, l % 2 = 0,
         s >= 0, s + l <= n, t <= 2 * z, 2 * z < t + l
  PROVE  HalfOrigin((2 * z - t + s) \div 2, z, t, s, n)
  BY DEF HalfOrigin

\* The block that a move of whole blocks brings.
LEMMA BlockBrought ==
  ASSUME NEW c, Capturable(c), NEW m \in MoveRects(c),
         NEW b \in Blocks(c), CoversBlock(m.to, b)
  PROVE  LET o == <<(2 * b[1] - m.to.x + m.x) \div 2,
                    (2 * b[2] - m.to.y + m.y) \div 2>>
         IN  /\ o \in Blocks(c)
             /\ \A i \in Quarters :
                  Corner(o, i) = Origin(Corner(b, i), m.to, m.x, m.y)
<1> DEFINE g == GeometryOf(c)
           x == b[1]
           y == b[2]
           u == (2 * x - m.to.x + m.x) \div 2
           v == (2 * y - m.to.y + m.y) \div 2
<1>1. /\ g.ow = c.out.w /\ g.oh = c.out.h /\ g.planar = c.planar
      /\ g.ow \in Nat \ {0} /\ g.oh \in Nat \ {0} /\ ValidGeometry(g)
  BY CaptureExtents DEF Extents
<1>2. <<0, 0>> \in Quarters
  BY DEF Quarters
<1>3. c.planar /\ x \in Int /\ y \in Int
  BY <1>2, BlockCorners
<1>4. g.ow % 2 = 0 /\ g.oh % 2 = 0
  BY <1>1, <1>3 DEF ValidGeometry
<1>5. /\ m.x \in Int /\ m.y \in Int /\ m.to \in RectType
      /\ Publishable(m.to, g) /\ Publishable(Rect(m.x, m.y, m.to.w, m.to.h), g)
  BY DEF MoveRects
<1> HIDE DEF g
<1>6. /\ m.to.x \in Int /\ m.to.y \in Int /\ m.to.w \in Nat /\ m.to.h \in Nat
      /\ m.to.x % 2 = 0 /\ m.to.y % 2 = 0
      /\ m.to.w % 2 = 0 /\ m.to.h % 2 = 0
  BY <1>1, <1>3, <1>5 DEF Publishable, RectType
<1>7. /\ m.x % 2 = 0 /\ m.y % 2 = 0 /\ m.x >= 0 /\ m.y >= 0
      /\ m.x + m.to.w <= g.ow /\ m.y + m.to.h <= g.oh
  BY <1>1, <1>3, <1>5, RectFields DEF Publishable, InBounds
<1>8. /\ m.to.x <= 2 * x /\ 2 * x < m.to.x + m.to.w
      /\ m.to.y <= 2 * y /\ 2 * y < m.to.y + m.to.h
  BY DEF CoversBlock, Covers, Right, Bottom
<1> HIDE DEF x, y
<1>9. /\ g.ow \in Int /\ g.oh \in Int /\ x \in Int /\ y \in Int
      /\ m.to.x \in Int /\ m.to.y \in Int /\ m.to.w \in Int /\ m.to.h \in Int
      /\ m.x \in Int /\ m.y \in Int
  BY <1>1, <1>3, <1>5, <1>6
<1>10. HalfOrigin(u, x, m.to.x, m.x, g.ow)
  BY <1>4, <1>6, <1>7, <1>8, <1>9, BlockOrigin
<1>11. HalfOrigin(v, y, m.to.y, m.y, g.oh)
  BY <1>4, <1>6, <1>7, <1>8, <1>9, BlockOrigin
<1> HIDE DEF u, v
<1>15. /\ u \in 0 .. (g.ow \div 2 - 1) /\ 2 * u = 2 * x - m.to.x + m.x
       /\ v \in 0 .. (g.oh \div 2 - 1) /\ 2 * v = 2 * y - m.to.y + m.y
  BY <1>10, <1>11 DEF HalfOrigin
<1>12. u \in Int /\ v \in Int
  BY <1>1, <1>15
<1>13. <<u, v>> \in Blocks(c)
  BY <1>1, <1>3, <1>15 DEF Blocks, PixelsOf
<1>14. ASSUME NEW i \in Quarters
       PROVE  Corner(<<u, v>>, i) = Origin(Corner(b, i), m.to, m.x, m.y)
  <2>1. i[1] \in Int /\ i[2] \in Int
    BY DEF Quarters
  <2>2. 2 * u + i[1] = 2 * x + i[1] - m.to.x + m.x
    BY <1>3, <1>5, <1>6, <1>15, <1>12, <2>1
  <2>3. 2 * v + i[2] = 2 * y + i[2] - m.to.y + m.y
    BY <1>3, <1>5, <1>6, <1>15, <1>12, <2>1
  <2>4. Corner(<<u, v>>, i) = <<2 * u + i[1], 2 * v + i[2]>>
    BY DEF Corner
  <2>5. Origin(Corner(b, i), m.to, m.x, m.y)
          = <<2 * x + i[1] - m.to.x + m.x, 2 * y + i[2] - m.to.y + m.y>>
    <3> DEFINE k == Corner(b, i)
    <3>1. k = <<2 * x + i[1], 2 * y + i[2]>>
      BY DEF Corner, x, y
    <3> HIDE DEF k
    <3>2. k[1] = 2 * x + i[1] /\ k[2] = 2 * y + i[2]
      BY <3>1
    <3>3. Origin(k, m.to, m.x, m.y)
            = <<k[1] - m.to.x + m.x, k[2] - m.to.y + m.y>>
      BY DEF Origin
    <3> HIDE DEF x, y
    <3>4. Origin(k, m.to, m.x, m.y)
            = <<2 * x + i[1] - m.to.x + m.x, 2 * y + i[2] - m.to.y + m.y>>
      <4> HIDE DEF k
      <4>1. /\ k[1] - m.to.x + m.x = 2 * x + i[1] - m.to.x + m.x
            /\ k[2] - m.to.y + m.y = 2 * y + i[2] - m.to.y + m.y
        BY <1>9, <2>1, <3>2
      <4> QED BY <3>3, <4>1
    <3> QED BY <3>4 DEF k
  <2> QED BY <2>2, <2>3, <2>4, <2>5
<1> QED BY <1>13, <1>14 DEF u, v, x, y

\* Replaying moves of whole blocks replays the luma of each pixel.
LEMMA ReplayMovesWhole ==
  ASSUME NEW c, Capturable(c), NEW moves \in Seq(MoveRects(c)),
         NEW from, NEW old
  PROVE  ReplayMoves(moves, ImageOf(from, c), ImageOf(old, c), c)
           = ImageOf([p \in OutputPixels(c) |->
                        IF Into(moves, p) = {} THEN old[p]
                        ELSE from[Brought(moves, p)]], c)
<1> DEFINE luma == [p \in OutputPixels(c) |->
                      IF Into(moves, p) = {} THEN old[p]
                      ELSE from[Brought(moves, p)]]
           replayed == ReplayMoves(moves, ImageOf(from, c), ImageOf(old, c), c)
           last(b) == moves[Latest(IntoBlock(moves, b))]
           block(m, b) == <<(2 * b[1] - m.to.x + m.x) \div 2,
                            (2 * b[2] - m.to.y + m.y) \div 2>>
           chroma == [b \in Blocks(c) |->
                        IF IntoBlock(moves, b) = {} THEN ChromaOf(old, c)[b]
                        ELSE ChromaOf(from, c)[block(last(b), b)]]
<1>1. replayed = [luma |-> luma, chroma |-> chroma]
  <2>1. replayed.luma = luma
    BY DEF ReplayMoves, ImageOf, Brought, Origin
  <2>2. replayed.chroma = chroma
    BY DEF ReplayMoves, ImageOf
  <2>3. replayed = [luma |-> replayed.luma, chroma |-> replayed.chroma]
    BY DEF ReplayMoves
  <2> HIDE DEF replayed, luma, chroma
  <2> QED BY <2>1, <2>2, <2>3
<1>2. ASSUME NEW b \in Blocks(c)
      PROVE  chroma[b] = ChromaOf(luma, c)[b]
  <2>1. ASSUME NEW i \in Quarters
        PROVE  /\ Corner(b, i) \in OutputPixels(c)
               /\ Into(moves, Corner(b, i)) = IntoBlock(moves, b)
    <3>1. Corner(b, i) \in OutputPixels(c)
      BY BlockCorners
    <3>2. ASSUME NEW j \in DOMAIN moves
          PROVE  CoversBlock(moves[j].to, b) <=> Covers(moves[j].to, Corner(b, i))
      <4>1. moves[j].to \in DirtyRects(c)
        <5>1. moves[j] \in MoveRects(c)
          OBVIOUS
        <5> QED BY <5>1 DEF MoveRects, DirtyRects
      <4> QED BY <4>1, BlockCovered
    <3> QED BY <3>1, <3>2 DEF Into, IntoBlock
  <2>2. ChromaOf(luma, c)[b] = [i \in Quarters |-> luma[Corner(b, i)]]
    BY DEF ChromaOf
  <2>3. CASE IntoBlock(moves, b) = {}
    <3>1. \A i \in Quarters : luma[Corner(b, i)] = old[Corner(b, i)]
      BY <2>1, <2>3
    <3>2. ChromaOf(old, c)[b] = [i \in Quarters |-> old[Corner(b, i)]]
      BY DEF ChromaOf
    <3>3. chroma[b] = ChromaOf(old, c)[b]
      BY <2>3
    <3> HIDE DEF luma, chroma
    <3> QED BY <2>2, <3>1, <3>2, <3>3
  <2>4. CASE IntoBlock(moves, b) # {}
    <3> DEFINE m == last(b)
               o == block(m, b)
    <3>1. Latest(IntoBlock(moves, b)) \in IntoBlock(moves, b)
      <4>1. /\ IntoBlock(moves, b) \subseteq 1 .. Len(moves)
            /\ Len(moves) \in Nat
        BY DEF IntoBlock
      <4> QED BY <2>4, <4>1, LatestIs
    <3>2. m \in MoveRects(c) /\ CoversBlock(m.to, b)
      BY <3>1 DEF IntoBlock
    <3>3. o \in Blocks(c) /\ \A i \in Quarters :
            Corner(o, i) = Origin(Corner(b, i), m.to, m.x, m.y)
      <4> HIDE DEF m
      <4> QED BY <3>2, BlockBrought
    <3>4. ASSUME NEW i \in Quarters
          PROVE  luma[Corner(b, i)] = from[Corner(o, i)]
      <4>1. luma[Corner(b, i)] = from[Brought(moves, Corner(b, i))]
        BY <2>1, <2>4
      <4>2. Brought(moves, Corner(b, i))
              = Origin(Corner(b, i), m.to, m.x, m.y)
        BY <2>1, <2>4 DEF Brought
      <4> HIDE DEF o, m, luma
      <4> QED BY <3>3, <4>1, <4>2
    <3>5. chroma[b] = ChromaOf(from, c)[o]
      BY <2>4
    <3> HIDE DEF o, m, luma, chroma
    <3>6. ChromaOf(from, c)[o] = [i \in Quarters |-> from[Corner(o, i)]]
      BY <3>3 DEF ChromaOf
    <3> QED BY <2>2, <3>4, <3>5, <3>6
  <2> QED BY <2>3, <2>4
<1> HIDE DEF luma
<1>3. chroma = ChromaOf(luma, c)
  <2>1. ChromaOf(luma, c) = [b \in Blocks(c) |-> ChromaOf(luma, c)[b]]
    BY DEF ChromaOf
  <2>2. chroma = [b \in Blocks(c) |-> chroma[b]]
    OBVIOUS
  <2> HIDE DEF chroma
  <2> QED BY <1>2, <2>1, <2>2
<1> QED BY <1>1, <1>3 DEF ImageOf, luma

-----------------------------------------------------------------------------
(* Damage accounts for moves and dirty rectangles of the surface: what it  *)
(* does not name dirty shows, after the moves, what its moves bring there. *)

Accounts(d, moves, dirty, c) ==
  /\ Built(d, c) /\ ~d.overflow
  /\ \A p \in OutputPixels(c) : ~CoveredBy(d.dirty, p) =>
       /\ Brought(d.moves, p) \in OutputPixels(c)
       /\ ShownSurface(c, Brought(d.moves, p))
            = Landed(moves, Len(moves), ShownSurface(c, p))
       /\ \A i \in 1 .. Len(dirty) : ~Covers(dirty[i], ShownSurface(c, p))

IsFull(d, c) == \E overflow \in BOOLEAN : d = FullDamage(c, overflow)

\* build_damage
THEOREM BuildDamageAccounts ==
  ASSUME NEW c, Capturable(c), NEW moves \in Seq(SurfaceMoves),
         NEW dirty \in Seq(RectType), NEW d, d = BuildDamage(moves, dirty, c)
  PROVE  IsFull(d, c) \/ Accounts(d, moves, dirty, c)
<1> DEFINE n == Len(moves)
           first == MovedDamage(moves, c)[n]
           f == DirtiedDamage(first, dirty, c)
           last == f[Len(dirty)]
<1>1. d = IF DriverScales(c) THEN FullDamage(c, FALSE)
          ELSE IF last.overflow THEN FullDamage(c, TRUE)
          ELSE last
  BY DEF BuildDamage, WholeOrMapped
<1>2. CASE DriverScales(c) \/ last.overflow
  BY <1>1, <1>2 DEF IsFull
<1>3. CASE ~DriverScales(c) /\ ~last.overflow
  <2>1. d = last
    BY <1>1, <1>3
  <2>2. MovesFollowed(first, moves, n, c)
    BY <1>3, MovesFollow
  <2> HIDE DEF first, n
  <2>3. DirtFollowed(f, first, Len(dirty), dirty, c)
    BY <1>3, <2>2, DirtFollows DEF MovesFollowed
  <2> HIDE DEF f
  <2>4. /\ Grows(first, last, c) /\ ~first.overflow
        /\ \A p \in OutputPixels(c), i \in 1 .. Len(dirty) :
             Covers(dirty[i], ShownSurface(c, p)) => CoveredBy(last.dirty, p)
    BY <1>3, <2>3 DEF DirtFollowed, Grows
  <2> HIDE DEF last
  <2>5. ASSUME NEW p \in OutputPixels(c), ~CoveredBy(last.dirty, p)
        PROVE  /\ Brought(last.moves, p) \in OutputPixels(c)
               /\ ShownSurface(c, Brought(last.moves, p))
                    = Landed(moves, n, ShownSurface(c, p))
               /\ \A i \in 1 .. Len(dirty) : ~Covers(dirty[i], ShownSurface(c, p))
    <3>1. ~CoveredBy(first.dirty, p) /\ last.moves = first.moves
      BY <2>4, <2>5 DEF Grows
    <3> QED BY <2>2, <2>4, <2>5, <3>1 DEF MovesFollowed
  <2>6. Accounts(last, moves, dirty, c)
    BY <1>3, <2>4, <2>5 DEF Accounts, Grows, n
  <2> QED BY <2>1, <2>6
<1> QED BY <1>2, <1>3

\* current_damage, of captures that are not rotated.
CurrentCovers(d, pending, c) ==
  /\ Built(d, c) /\ ~d.overflow /\ d.moves = <<>>
  /\ \A p \in OutputPixels(c), i \in 1 .. Len(pending) :
       Covers(pending[i], ShownSurface(c, p)) => CoveredBy(d.dirty, p)

\* current_damage covers everything reported dirty, or is whole.
LEMMA CurrentDamageCovers ==
  ASSUME NEW c, Capturable(c), c.rotation = 0, NEW pending \in Seq(RectType),
         NEW d, d = CurrentDamage(pending, c)
  PROVE  IsFull(d, c) \/ CurrentCovers(d, pending, c)
<1> DEFINE f == PendingDamage(pending, c)
           last == f[Len(pending)]
<1>1. d = IF DriverScales(c) THEN FullDamage(c, FALSE)
          ELSE IF last.overflow THEN FullDamage(c, TRUE)
          ELSE last
  BY DEF CurrentDamage, WholeOrMapped
<1>2. CASE DriverScales(c) \/ last.overflow
  BY <1>1, <1>2 DEF IsFull
<1>3. CASE ~DriverScales(c) /\ ~last.overflow
  <2>1. d = last
    BY <1>1, <1>3
  <2>2. PendingCovered(f, Len(pending), pending, c)
    BY <1>3, PendingCovers
  <2> HIDE DEF f
  <2>3. \A p \in OutputPixels(c) : ShownSurface(c, p) = Shown(c, p)
    BY ShownSurfaceIs DEF OnSurface
  <2>4. /\ Grows(NoDamage, last, c)
        /\ \A p \in OutputPixels(c), i \in 1 .. Len(pending) :
             Covers(pending[i], Shown(c, p)) => CoveredBy(last.dirty, p)
    BY <1>3, <2>2 DEF PendingCovered
  <2> HIDE DEF last
  <2>5. CurrentCovers(last, pending, c)
    BY <1>3, <2>3, <2>4, NothingBuilt DEF CurrentCovers, Grows
  <2> QED BY <2>1, <2>5
<1> QED BY <1>2, <1>3

\* Nothing moves where there are no moves.
LEMMA NothingBrought ==
  ASSUME NEW moves, NEW p
  PROVE  Brought(<<>>, p) = p /\ Landed(moves, 0, p) = p
<1>1. Into(<<>>, p) = {}
  BY DEF Into
<1> QED BY <1>1, LandedNext DEF Brought

\* So it accounts for a frame that only has dirty rectangles,
LEMMA CapturedAccounts ==
  ASSUME NEW c, Capturable(c), c.rotation = 0, NEW pending \in Seq(RectType),
         NEW d, d = CurrentDamage(pending, c)
  PROVE  IsFull(d, c) \/ Accounts(d, <<>>, pending, c)
<1>1. SUFFICES ASSUME CurrentCovers(d, pending, c)
               PROVE  Accounts(d, <<>>, pending, c)
  BY CurrentDamageCovers
<1>2. ASSUME NEW p \in OutputPixels(c), ~CoveredBy(d.dirty, p)
      PROVE  /\ Brought(d.moves, p) \in OutputPixels(c)
             /\ ShownSurface(c, Brought(d.moves, p))
                  = Landed(<<>>, Len(<<>>), ShownSurface(c, p))
             /\ \A i \in 1 .. Len(pending) :
                  ~Covers(pending[i], ShownSurface(c, p))
  <2>1. Brought(d.moves, p) = p
    BY <1>1, NothingBrought DEF CurrentCovers
  <2>2. Len(<<>>) = 0
    OBVIOUS
  <2>3. Landed(<<>>, Len(<<>>), ShownSurface(c, p)) = ShownSurface(c, p)
    BY <2>2, NothingBrought
  <2> QED BY <1>1, <1>2, <2>1, <2>3 DEF CurrentCovers
<1> QED BY <1>1, <1>2 DEF Accounts, CurrentCovers

\* What a scroll filled is reported dirty.
LEMMA ScrolledAccounts ==
  ASSUME NEW c, Capturable(c), c.rotation = 0,
         NEW moves \in Seq(SurfaceMoves), Len(moves) = 1,
         NEW d, d = CurrentDamage(<<moves[1].to>>, c)
  PROVE  IsFull(d, c) \/ Accounts(d, moves, <<>>, c)
<1> DEFINE m == moves[1]
           pending == <<m.to>>
<1>1. pending \in Seq(RectType) /\ Len(pending) = 1 /\ pending[1] = m.to
  <2>1. m \in SurfaceMoves
    OBVIOUS
  <2> QED BY <2>1 DEF SurfaceMoves
<1> HIDE DEF pending
<1>2. SUFFICES ASSUME CurrentCovers(d, pending, c)
               PROVE  Accounts(d, moves, <<>>, c)
  BY <1>1, CurrentDamageCovers DEF pending
<1>3. ASSUME NEW p \in OutputPixels(c), ~CoveredBy(d.dirty, p)
      PROVE  /\ Brought(d.moves, p) \in OutputPixels(c)
             /\ ShownSurface(c, Brought(d.moves, p))
                  = Landed(moves, 1, ShownSurface(c, p))
  <2>1. Brought(d.moves, p) = p
    BY <1>2, NothingBrought DEF CurrentCovers
  <2>2. ~Covers(m.to, ShownSurface(c, p))
    <3>1. 1 \in 1 .. Len(pending)
      BY <1>1
    <3> QED BY <1>1, <1>2, <1>3, <3>1 DEF CurrentCovers
  <2>3. Landed(moves, 0 + 1, ShownSurface(c, p))
          = Landed(moves, 0, ShownSurface(c, p))
    <3>1. 0 \in Nat /\ 0 + 1 = 1
      OBVIOUS
    <3> QED BY <2>2, <3>1, LandedNext
  <2>4. 0 + 1 = 1
    OBVIOUS
  <2> QED BY <2>1, <2>3, <2>4, NothingBrought
<1>4. Len(<<>>) = 0 /\ 1 .. 0 = {}
  OBVIOUS
<1>5. /\ Built(d, c) /\ ~d.overflow
  BY <1>2 DEF CurrentCovers
<1> QED BY <1>3, <1>4, <1>5 DEF Accounts

-----------------------------------------------------------------------------
(* The screen.                                                             *)

\* The screen after a frame's moves.
LEMMA AfterMovesLanded ==
  ASSUME NEW S, NEW moves \in Seq(S), NEW image, NEW q \in DOMAIN image
  PROVE  AfterMoves(moves, image)[q] = image[Landed(moves, Len(moves), q)]
<1>1. Into(moves, q) = InFirst(moves, Len(moves), q)
  BY DEF Into, InFirst
<1> DEFINE i == Latest(Into(moves, q))
<1>2. AfterMoves(moves, image)[q] =
        IF Into(moves, q) = {} THEN image[q]
        ELSE image[Origin(q, moves[i].to, moves[i].from.x, moves[i].from.y)]
  BY DEF AfterMoves, Origin
<1> QED BY <1>1, <1>2 DEF Landed

\* An output pixel shows a pixel of the surface.
LEMMA ShownInside ==
  ASSUME NEW c, Capturable(c), NEW p \in OutputPixels(c)
  PROVE  ShownSurface(c, p) \in Surface(c)
<1> DEFINE g == GeometryOf(c)
           w == c.surface.w
           h == c.surface.h
           q == Shown(c, p)
           lw == LogicalWidth(c.rotation, w, h)
           lh == LogicalHeight(c.rotation, w, h)
<1>1. /\ Extents(g) /\ g.sw = c.region.w /\ g.sh = c.region.h
      /\ g.ow = c.out.w /\ g.oh = c.out.h /\ OutputPixels(c) = Outputs(g)
      /\ c.region.x \in Int /\ c.region.y \in Int
      /\ c.region.w \in Int /\ c.region.h \in Int
      /\ c.rotation \in {0, 90, 180, 270}
      /\ w \in Nat \ {0} /\ h \in Nat \ {0}
  BY CaptureExtents, CaptureSurface
<1>2. InBounds(c.region, lw, lh)
  BY CapturesAssumption DEF Capturable
<1>3. /\ c.region.x >= 0 /\ c.region.y >= 0
      /\ c.region.x + c.region.w <= lw /\ c.region.y + c.region.h <= lh
  BY <1>2 DEF InBounds, Right, Bottom
<1>4. /\ PointTap(p[1], c.region.w, c.out.w) \in 0 .. (c.region.w - 1)
      /\ PointTap(p[2], c.region.h, c.out.h) \in 0 .. (c.region.h - 1)
  <2> HIDE DEF g
  <2> QED BY <1>1, TapsInside
<1>5. /\ q[1] = c.region.x + PointTap(p[1], c.region.w, c.out.w)
      /\ q[2] = c.region.y + PointTap(p[2], c.region.h, c.out.h)
      /\ q = <<q[1], q[2]>>
  BY DEF Shown
<1>6. /\ c.rotation \in {0, 180} => lw = w /\ lh = h
      /\ c.rotation \in {90, 270} => lw = h /\ lh = w
  BY DEF LogicalWidth, LogicalHeight
<1> HIDE DEF q, lw, lh, w, h
<1>7. /\ lw \in Nat /\ lh \in Nat
  BY <1>1, <1>6
<1>8. q[1] \in 0 .. (lw - 1) /\ q[2] \in 0 .. (lh - 1)
  <2> DEFINE i == PointTap(p[1], c.region.w, c.out.w)
             j == PointTap(p[2], c.region.h, c.out.h)
  <2>1. i \in 0 .. (c.region.w - 1) /\ j \in 0 .. (c.region.h - 1)
        /\ q[1] = c.region.x + i /\ q[2] = c.region.y + j
    BY <1>4, <1>5
  <2> HIDE DEF i, j
  <2> QED BY <1>1, <1>3, <1>7, <2>1
<1>9. OnSurface(c, q) \in PixelsOf(w, h)
  <2>1. OnSurface(c, q) =
          CASE c.rotation = 0 -> q
            [] c.rotation = 90 -> <<q[2], h - 1 - q[1]>>
            [] c.rotation = 180 -> <<w - 1 - q[1], h - 1 - q[2]>>
            [] c.rotation = 270 -> <<w - 1 - q[2], q[1]>>
    BY DEF OnSurface, w, h
  <2>2. CASE c.rotation = 0
    <3>1. OnSurface(c, q) = <<q[1], q[2]>>
      BY <1>5, <2>1, <2>2
    <3>2. q[1] \in 0 .. (w - 1) /\ q[2] \in 0 .. (h - 1)
      BY <1>6, <1>8, <2>2
    <3> QED BY <3>1, <3>2 DEF PixelsOf
  <2>3. CASE c.rotation = 90
    <3>1. OnSurface(c, q) = <<q[2], h - 1 - q[1]>>
      BY <2>1, <2>3
    <3>2. q[2] \in 0 .. (w - 1) /\ h - 1 - q[1] \in 0 .. (h - 1)
      BY <1>1, <1>6, <1>8, <2>3
    <3> QED BY <3>1, <3>2 DEF PixelsOf
  <2>4. CASE c.rotation = 180
    <3>1. OnSurface(c, q) = <<w - 1 - q[1], h - 1 - q[2]>>
      BY <2>1, <2>4
    <3>2. w - 1 - q[1] \in 0 .. (w - 1) /\ h - 1 - q[2] \in 0 .. (h - 1)
      BY <1>1, <1>6, <1>8, <2>4
    <3> QED BY <3>1, <3>2 DEF PixelsOf
  <2>5. CASE c.rotation = 270
    <3>1. OnSurface(c, q) = <<w - 1 - q[2], q[1]>>
      BY <2>1, <2>5
    <3>2. w - 1 - q[2] \in 0 .. (w - 1) /\ q[1] \in 0 .. (h - 1)
      BY <1>1, <1>6, <1>8, <2>5
    <3> QED BY <3>1, <3>2 DEF PixelsOf
  <2> QED BY <1>1, <2>2, <2>3, <2>4, <2>5
<1> QED BY <1>9, ShownSurfaceIs DEF Surface, q, w, h

\* Replaying damage d turns what shows `old` into what shows `new`.
Follows(d, new, old, c) ==
  /\ d.dirty \in Seq(DirtyRects(c)) /\ d.moves \in Seq(MoveRects(c))
  /\ \A p \in OutputPixels(c) : ~CoveredBy(d.dirty, p) =>
       /\ Brought(d.moves, p) \in OutputPixels(c)
       /\ new[ShownSurface(c, p)] = old[ShownSurface(c, Brought(d.moves, p))]

\* A consumer that replays such damage has the image of the frame.
LEMMA FollowsRenders ==
  ASSUME NEW c, Capturable(c), NEW d, NEW new, NEW old, Follows(d, new, old, c)
  PROVE  Replay(d, Render(c, new), Render(c, old), c) = Render(c, new)
<1> DEFINE before == LumaOf(c, old)
           after == LumaOf(c, new)
           replayed == [p \in OutputPixels(c) |->
                          IF Into(d.moves, p) = {} THEN before[p]
                          ELSE before[Brought(d.moves, p)]]
           copied == [p \in OutputPixels(c) |->
                        IF CoveredBy(d.dirty, p) THEN after[p] ELSE replayed[p]]
<1>2. d.dirty \in Seq(DirtyRects(c)) /\ d.moves \in Seq(MoveRects(c))
  BY DEF Follows
<1>3. /\ Render(c, old) = ImageOf(before, c)
      /\ Render(c, new) = ImageOf(after, c)
  BY RenderIs
<1>4. ASSUME NEW p \in OutputPixels(c)
      PROVE  copied[p] = after[p]
  <2>1. CASE CoveredBy(d.dirty, p)
    BY <2>1
  <2>2. CASE ~CoveredBy(d.dirty, p)
    <3> DEFINE o == Brought(d.moves, p)
    <3>1. /\ o \in OutputPixels(c)
          /\ new[ShownSurface(c, p)] = old[ShownSurface(c, o)]
      BY <2>2 DEF Follows
    <3>4. copied[p] = replayed[p]
      BY <2>2
    <3>5. replayed[p] = before[o]
      <4>1. Into(d.moves, p) = {} => o = p
        BY DEF Brought
      <4> HIDE DEF before, o
      <4> QED BY <4>1 DEF o
    <3>6. before[o] = old[ShownSurface(c, o)] /\ after[p] = new[ShownSurface(c, p)]
      BY <3>1 DEF LumaOf
    <3> QED BY <3>1, <3>4, <3>5, <3>6
  <2> QED BY <2>1, <2>2
<1>5. copied = after
  <2>1. after = [p \in OutputPixels(c) |-> after[p]]
    BY DEF LumaOf
  <2>2. copied = [p \in OutputPixels(c) |-> copied[p]]
    OBVIOUS
  <2> HIDE DEF copied, after
  <2> QED BY <1>4, <2>1, <2>2
<1> HIDE DEF before, after
<1>6. ReplayMoves(d.moves, ImageOf(before, c), ImageOf(before, c), c)
        = ImageOf(replayed, c)
  BY <1>2, ReplayMovesWhole
<1> HIDE DEF replayed
<1>7. CopyDirty(d.dirty, ImageOf(after, c), ImageOf(replayed, c), c)
        = ImageOf(copied, c)
  BY <1>2, CopyDirtyWhole
<1> HIDE DEF copied
<1> QED BY <1>3, <1>5, <1>6, <1>7 DEF Replay

-----------------------------------------------------------------------------
(* A move inferred later: it amends the damage of a frame whose image the  *)
(* consumer already has, and brings there what is there.                   *)

\* The move inferred from one of the surface, relative to the region.
InferredTo(m, c) ==
  Rect(m.to.x - c.region.x, m.to.y - c.region.y, m.to.w, m.to.h)
Inferred(m, c) ==
  Move(m.from.x - c.region.x, m.from.y - c.region.y, InferredTo(m, c))

\* A late move is dropped, or amends the damage as it is.
LEMMA AmendedIs ==
  ASSUME NEW c, Capturable(c), NEW x \in Int, NEW y \in Int, NEW to \in RectType,
         NEW moves, moves = AmendedMoves(<<Move(x, y, to)>>, c)
  PROVE  \/ moves = <<>>
         \/ /\ moves = <<Move(x, y, to)>>
            /\ Carries(Move(x, y, to), <<>>, Rect(x, y, to.w, to.h), to, c)
<1> DEFINE m == Move(x, y, to)
           mapped == MoveExact(m, GeometryOf(c))
           e == CHOOSE k \in mapped : TRUE
<1>1. \/ moves = <<>>
      \/ ~Scaled(GeometryOf(c)) /\ mapped # {} /\ moves = <<e>>
  BY DEF AmendedMoves
<1>2. SUFFICES ASSUME ~Scaled(GeometryOf(c)), e \in mapped, moves = <<e>>
               PROVE  /\ moves = <<m>>
                      /\ Carries(m, <<>>, Rect(x, y, to.w, to.h), to, c)
  BY <1>1
<1> HIDE DEF e
<1>3. /\ e = m
      /\ InBounds(Rect(x, y, to.w, to.h), c.region.w, c.region.h)
      /\ InBounds(to, c.region.w, c.region.h)
      /\ c.planar => PlanarMoveAligned(m)
  BY <1>2, MoveExactUnscaled
<1> DEFINE from == Rect(x, y, to.w, to.h)
<1>4. /\ from \in RectType /\ from.w = to.w /\ from.h = to.h
      /\ from.x = x /\ from.y = y
  <2>1. to.w \in Nat /\ to.h \in Nat
    BY DEF RectType
  <2> QED BY <2>1 DEF Rect, RectType
<1> HIDE DEF from, mapped
<1>5. Carries(Move(from.x, from.y, to), <<>>, from, to, c)
  BY <1>2, <1>3, <1>4, WholeMoveCarries DEF from
<1> QED BY <1>2, <1>3, <1>4, <1>5 DEF from

\* The one move into a pixel.
LEMMA OneMove ==
  ASSUME NEW m, NEW p
  PROVE  /\ Into(<<m>>, p) = {} <=> ~Covers(m.to, p)
         /\ Covers(m.to, p) =>
              /\ Brought(<<m>>, p) = Origin(p, m.to, m.x, m.y)
              /\ Landed(<<m>>, 1, p) = Origin(p, m.to, m.from.x, m.from.y)
<1>1. /\ DOMAIN <<m>> = 1 .. 1 /\ <<m>>[1] = m
      /\ \A i \in 1 .. 1 : i = 1
  OBVIOUS
<1>2. /\ Into(<<m>>, p) = IF Covers(m.to, p) THEN {1} ELSE {}
      /\ InFirst(<<m>>, 1, p) = IF Covers(m.to, p) THEN {1} ELSE {}
  BY <1>1 DEF Into, InFirst
<1>3. Latest({1}) = 1
  BY DEF Latest
<1>4. ASSUME Covers(m.to, p)
      PROVE  /\ Brought(<<m>>, p) = Origin(p, m.to, m.x, m.y)
             /\ Landed(<<m>>, 1, p) = Origin(p, m.to, m.from.x, m.from.y)
  BY <1>1, <1>2, <1>3, <1>4 DEF Brought, Landed
<1> QED BY <1>2, <1>4

\* What the inferred move brings is what the source moved.
LEMMA InferredShown ==
  ASSUME NEW c, Capturable(c), c.rotation = 0, NEW m \in SurfaceMoves,
         NEW to, to = InferredTo(m, c), to \in RectType,
         NEW from, from = Rect(m.from.x - c.region.x, m.from.y - c.region.y,
                               to.w, to.h),
         NEW p \in OutputPixels(c), Covers(to, Taps(GeometryOf(c), p)),
         NEW o \in OutputPixels(c),
         Taps(GeometryOf(c), o)
           = Origin(Taps(GeometryOf(c), p), to, from.x, from.y)
  PROVE  /\ Covers(m.to, ShownSurface(c, p))
         /\ ShownSurface(c, o)
              = Origin(ShownSurface(c, p), m.to, m.from.x, m.from.y)
<1> DEFINE t == Taps(GeometryOf(c), p)
<1>1. /\ c.region.x \in Int /\ c.region.y \in Int
  BY CaptureSurface
<1>2. /\ m.from.x \in Int /\ m.from.y \in Int /\ m.to.x \in Int /\ m.to.y \in Int
      /\ m.to.w \in Nat /\ m.to.h \in Nat
  BY DEF SurfaceMoves, RectType
<1>3. t[1] \in Int /\ t[2] \in Int
  <2>1. Extents(GeometryOf(c)) /\ OutputPixels(c) = Outputs(GeometryOf(c))
    BY CaptureExtents
  <2> HIDE DEF t
  <2>2. \A q \in Outputs(GeometryOf(c)) :
          Taps(GeometryOf(c), q)[1] \in Int /\ Taps(GeometryOf(c), q)[2] \in Int
    <3> DEFINE g == GeometryOf(c)
    <3>1. Extents(g)
      BY <2>1
    <3> HIDE DEF g
    <3>2. \A q \in Outputs(g) :
            /\ PointTap(q[1], g.sw, g.ow) \in 0 .. (g.sw - 1)
            /\ PointTap(q[2], g.sh, g.oh) \in 0 .. (g.sh - 1)
      BY <3>1, TapsInside
    <3>3. g.sw \in Int /\ g.sh \in Int
      BY <3>1 DEF Extents
    <3> QED BY <3>2, <3>3 DEF Taps, g
  <2> QED BY <2>1, <2>2 DEF t
<1>4. /\ GeometryOf(c).sw = c.region.w /\ GeometryOf(c).sh = c.region.h
      /\ GeometryOf(c).ow = c.out.w /\ GeometryOf(c).oh = c.out.h
  BY CaptureExtents
<1>5. ShownSurface(c, p) = <<c.region.x + t[1], c.region.y + t[2]>>
  <2>1. ShownSurface(c, p) = Shown(c, p)
    BY ShownSurfaceIs DEF OnSurface
  <2> QED BY <1>4, <2>1 DEF Shown, Taps
<1>6. /\ to.x = m.to.x - c.region.x /\ to.y = m.to.y - c.region.y
      /\ to.w = m.to.w /\ to.h = m.to.h
  BY DEF InferredTo, Rect
<1> DEFINE q == ShownSurface(c, p)
<1>7. Covers(m.to, q)
  <2>1. /\ q[1] = c.region.x + t[1] /\ q[2] = c.region.y + t[2]
    BY <1>5
  <2>2. /\ to.x <= t[1] /\ t[1] < to.x + to.w
        /\ to.y <= t[2] /\ t[2] < to.y + to.h
    BY DEF Covers, Right, Bottom
  <2> HIDE DEF t, q
  <2>3. /\ m.to.x <= q[1] /\ q[1] < m.to.x + m.to.w
        /\ m.to.y <= q[2] /\ q[2] < m.to.y + m.to.h
    BY <1>1, <1>2, <1>3, <1>6, <2>1, <2>2
  <2> QED BY <2>3 DEF Covers, Right, Bottom
<1>8. from = ClippedSource(Logical(m.from, c), Logical(m.to, c), to, c.region)
  <2>1. Logical(m.from, c) = m.from /\ Logical(m.to, c) = m.to
    BY DEF Logical, ToLogical
  <2>2. /\ m.from.x + to.x - m.to.x = m.from.x - c.region.x
        /\ m.from.y + to.y - m.to.y = m.from.y - c.region.y
    BY <1>1, <1>2, <1>6
  <2> QED BY <2>1, <2>2 DEF ClippedSource
<1> HIDE DEF t, q
<1>9. ShownSurface(c, o) = Origin(ShownSurface(c, p), m.to, m.from.x, m.from.y)
  BY <1>8, MoveShown
<1> QED BY <1>7, <1>9 DEF q

\* drain_move_results_locked
LEMMA InferredRenders ==
  ASSUME NEW c, Capturable(c), c.rotation = 0, NEW m \in SurfaceMoves,
         NEW prev, DOMAIN prev = Surface(c),
         NEW screen0, screen0 = AfterMoves(<<m>>, prev),
         InferredTo(m, c) \in RectType,
         NEW moves, moves = AmendedMoves(<<Inferred(m, c)>>, c)
  PROVE  /\ moves \in Seq(MoveRects(c)) /\ Len(moves) <= 1
         /\ ReplayMoves(moves, Render(c, prev), Render(c, screen0), c)
              = Render(c, screen0)
<1> DEFINE to == InferredTo(m, c)
           x == m.from.x - c.region.x
           y == m.from.y - c.region.y
           i == Inferred(m, c)
           from == Rect(x, y, to.w, to.h)
<1>1. x \in Int /\ y \in Int /\ i = Move(x, y, to)
  <2>1. c.region.x \in Int /\ c.region.y \in Int
    BY CaptureSurface
  <2> QED BY <2>1 DEF SurfaceMoves, RectType, Inferred
<1>2. i.to = to /\ i.x = x /\ i.y = y
  BY <1>1 DEF Move
<1> HIDE DEF to, x, y, i
<1>3. moves = <<>> \/ (moves = <<i>> /\ Carries(i, <<>>, from, to, c))
  BY <1>1, AmendedIs DEF to, i
<1>4. moves \in Seq(MoveRects(c)) /\ Len(moves) <= 1
  <2>1. Carries(i, <<>>, from, to, c) => i \in MoveRects(c)
    BY DEF Carries
  <2>2. i \in MoveRects(c) => <<i>> \in Seq(MoveRects(c)) /\ Len(<<i>>) = 1
    OBVIOUS
  <2>3. <<>> \in Seq(MoveRects(c)) /\ Len(<<>>) = 0
    OBVIOUS
  <2> DEFINE carries == Carries(i, <<>>, from, to, c)
  <2>4. carries => i \in MoveRects(c)
    BY <2>1
  <2>5. moves = <<>> \/ (moves = <<i>> /\ carries)
    BY <1>3
  <2> HIDE DEF from, carries
  <2>6. CASE moves = <<>>
    BY <2>3, <2>6
  <2>7. CASE moves = <<i>> /\ carries
    BY <2>2, <2>4, <2>7
  <2> QED BY <2>5, <2>6, <2>7
<1> DEFINE before == LumaOf(c, prev)
           after == LumaOf(c, screen0)
           replayed == [p \in OutputPixels(c) |->
                          IF Into(moves, p) = {} THEN after[p]
                          ELSE before[Brought(moves, p)]]
<1>5. ASSUME NEW p \in OutputPixels(c), Into(moves, p) # {}
      PROVE  after[p] = before[Brought(moves, p)]
  <2>1. moves = <<i>> /\ Carries(i, <<>>, from, to, c)
    <3>1. Into(<<>>, p) = {}
      BY DEF Into
    <3> QED BY <1>3, <1>5, <3>1
  <2> DEFINE o == Brought(moves, p)
             q == ShownSurface(c, p)
  <2>2. Covers(to, p) /\ o = Origin(p, to, x, y)
    BY <1>2, <1>5, <2>1, OneMove
  <2>3. /\ Covers(to, Taps(GeometryOf(c), p))
        /\ o \in OutputPixels(c)
        /\ Taps(GeometryOf(c), o) = Origin(Taps(GeometryOf(c), p), to, from.x, from.y)
    <3> HIDE DEF o, from
    <3> QED BY <1>2, <2>1, <2>2 DEF Carries
  <2>4. /\ Covers(m.to, q)
        /\ ShownSurface(c, o) = Origin(q, m.to, m.from.x, m.from.y)
    <3> HIDE DEF o
    <3> QED BY <2>3, InferredShown DEF to, x, y
  <2>5. q \in DOMAIN prev
    BY ShownInside
  <2>6. screen0[q] = prev[ShownSurface(c, o)]
    <3> DEFINE s == <<m>>
    <3>1. s \in Seq(SurfaceMoves) /\ Len(s) = 1
      OBVIOUS
    <3>2. Landed(s, 1, q) = Origin(q, m.to, m.from.x, m.from.y)
      <4> HIDE DEF q
      <4> QED BY <2>4, OneMove
    <3> HIDE DEF s, q
    <3>3. AfterMoves(s, prev)[q] = prev[Landed(s, Len(s), q)]
      BY <2>5, <3>1, AfterMovesLanded
    <3>4. screen0 = AfterMoves(s, prev)
      BY DEF s
    <3> QED BY <2>4, <3>1, <3>2, <3>3, <3>4
  <2> QED BY <2>3, <2>6 DEF LumaOf
<1>6. replayed = after
  <2>1. after = [p \in OutputPixels(c) |-> after[p]]
    BY DEF LumaOf
  <2>2. \A p \in OutputPixels(c) : replayed[p] = after[p]
    BY <1>5
  <2>3. replayed = [p \in OutputPixels(c) |-> replayed[p]]
    OBVIOUS
  <2> HIDE DEF replayed, after
  <2> QED BY <2>1, <2>2, <2>3
<1>7. /\ Render(c, prev) = ImageOf(before, c)
      /\ Render(c, screen0) = ImageOf(after, c)
  BY RenderIs
<1> HIDE DEF before, after
<1>8. ReplayMoves(moves, ImageOf(before, c), ImageOf(after, c), c)
        = ImageOf(replayed, c)
  BY <1>4, ReplayMovesWhole
<1> HIDE DEF replayed
<1> QED BY <1>4, <1>6, <1>7, <1>8

-----------------------------------------------------------------------------
(* The rectangles of a CPU frame.  Scanning the tiles of the rows, every   *)
(* tile passed that has changed is in a rectangle; that of a run of the    *)
(* row above ends where the row begins, so extending it covers the run.    *)

Edge(n) == n * TileSize

TileRects(w, h) == {r \in RectType : InBounds(r, w, h)}

\* A rectangle of the tiles [run[1], run[2]) of rows that end at `bottom`.
OfRun(r, run, bottom, w) ==
  /\ r.x = Edge(run[1]) /\ Right(r) = AtMost(w, Edge(run[2]))
  /\ Bottom(r) = bottom

CoversTile(r, tile, w, h) ==
  /\ r.x <= Edge(tile[1]) /\ AtMost(w, Edge(tile[1] + 1)) <= Right(r)
  /\ r.y <= Edge(tile[2]) /\ AtMost(h, Edge(tile[2] + 1)) <= Bottom(r)

\* The edges of tiles.
LEMMA Edges ==
  ASSUME NEW m \in Nat, NEW n \in Nat
  PROVE  /\ Edge(n) \in Nat /\ Edge(n + 1) = Edge(n) + TileSize
         /\ TileSize \in Nat \ {0}
         /\ m < n => Edge(m) + TileSize <= Edge(n)
         /\ m <= n => Edge(m) <= Edge(n)
<1>1. TileSize \in Nat \ {0}
  BY TileAssumption
<1>2. ASSUME NEW t \in Nat \ {0}
      PROVE  /\ n * t \in Nat /\ (n + 1) * t = n * t + t
             /\ m < n => m * t + t <= n * t
             /\ m <= n => m * t <= n * t
  OBVIOUS
<1> QED BY <1>1, <1>2 DEF Edge

\* The tiles of an extent.
LEMMA Counted ==
  ASSUME NEW n \in Nat, NEW extent \in Nat \ {0}
  PROVE  /\ TileCount(extent) \in Nat \ {0}
         /\ n < TileCount(extent) <=> Edge(n) < extent
<1>1. TileSize \in Nat \ {0}
  BY TileAssumption
<1>2. ASSUME NEW t \in Nat \ {0}
      PROVE  /\ (extent + t - 1) \div t \in Nat \ {0}
             /\ n < (extent + t - 1) \div t <=> n * t < extent
  OBVIOUS
<1> QED BY <1>1, <1>2 DEF Edge, TileCount

\* The lesser of two numbers.
LEMMA AtMostIs ==
  ASSUME NEW a \in Int, NEW b \in Int
  PROVE  /\ AtMost(a, b) \in Int /\ AtMost(a, b) <= a /\ AtMost(a, b) <= b
         /\ AtMost(a, b) = a \/ AtMost(a, b) = b
  BY DEF AtMost

\* The sides of a rectangle of the image.
LEMMA RectSides ==
  ASSUME NEW w, NEW h, NEW r \in TileRects(w, h)
  PROVE  /\ r.x \in Int /\ r.y \in Int /\ r.w \in Nat /\ r.h \in Nat
         /\ Right(r) \in Int /\ Bottom(r) \in Int
  BY DEF TileRects, RectType, Right, Bottom

\* A rectangle extended by one row, or a new one.
RectsAdded(old, new, index, run, top, bottom, w, h) ==
  /\ new \in Seq(TileRects(w, h)) /\ index \in DOMAIN new
  /\ DOMAIN old \subseteq DOMAIN new
  /\ OfRun(new[index], run, bottom, w) /\ new[index].y <= top
  /\ \A i \in DOMAIN old : i # index => new[i] = old[i]
  /\ \A i \in DOMAIN old : /\ new[i].x <= old[i].x /\ Right(old[i]) <= Right(new[i])
                           /\ new[i].y <= old[i].y /\ Bottom(old[i]) <= Bottom(new[i])

\* Extending the rectangle of the same run of the row above.
LEMMA RectExtended ==
  ASSUME NEW w \in Nat, NEW h \in Nat, NEW old \in Seq(TileRects(w, h)),
         NEW index \in DOMAIN old, NEW run, NEW top \in Nat, NEW bottom \in Nat,
         top < bottom, bottom <= h, OfRun(old[index], run, top, w),
         NEW new, new = [old EXCEPT ![index].h = @ + bottom - top]
  PROVE  RectsAdded(old, new, index, run, top, bottom, w, h)
<1> DEFINE r == old[index]
           e == [r EXCEPT !.h = @ + bottom - top]
<1>1. r \in RectType /\ InBounds(r, w, h)
  BY DEF TileRects
<1>2. /\ r.x \in Int /\ r.y \in Int /\ r.w \in Nat /\ r.h \in Nat
  BY <1>1 DEF RectType
<1>3. r.y + r.h = top /\ r.h > 0
  BY <1>1 DEF OfRun, Bottom, InBounds
<1>15. OfRun(r, run, top, w)
  OBVIOUS
<1>16. new = [old EXCEPT ![index] = e]
  OBVIOUS
<1> HIDE DEF r
<1> DEFINE height == r.h + bottom - top
<1>4. /\ e.x = r.x /\ e.y = r.y /\ e.w = r.w /\ e.h = height
      /\ e = [x |-> r.x, y |-> r.y, w |-> r.w, h |-> height]
  <2>1. r = [x |-> r.x, y |-> r.y, w |-> r.w, h |-> r.h]
    BY <1>1 DEF RectType
  <2>2. e = [r EXCEPT !.h = height]
    OBVIOUS
  <2> HIDE DEF e, height
  <2> QED BY <2>1, <2>2
<1>5. height \in Nat /\ height > 0 /\ r.y + height = bottom /\ r.h <= height
  <2> DEFINE y == r.y
             a == r.h
  <2>1. y \in Int /\ a \in Nat /\ y + a = top /\ a > 0 /\ height = a + bottom - top
    BY <1>2, <1>3
  <2> HIDE DEF y, a, height
  <2>2. height \in Int
    BY <2>1
  <2>3. height \in Nat /\ height > 0 /\ y + height = bottom /\ a <= height
    BY <2>1, <2>2
  <2> QED BY <2>3 DEF y, a
<1> HIDE DEF height
<1>6. e \in RectType
  BY <1>2, <1>4, <1>5 DEF RectType
<1>7. Right(e) = Right(r) /\ Bottom(e) = bottom
  BY <1>4, <1>5 DEF Right, Bottom
<1>8. InBounds(e, w, h)
  BY <1>1, <1>4, <1>5, <1>7 DEF InBounds
<1> HIDE DEF e
<1>10. /\ new \in Seq(TileRects(w, h)) /\ DOMAIN new = DOMAIN old
       /\ new[index] = e
       /\ \A i \in DOMAIN old : i # index => new[i] = old[i]
  <2>1. e \in TileRects(w, h)
    BY <1>6, <1>8 DEF TileRects
  <2> QED BY <1>16, <2>1
<1>11. \A i \in DOMAIN old : /\ old[i].x \in Int /\ old[i].y \in Int
                             /\ Right(old[i]) \in Int /\ Bottom(old[i]) \in Int
  BY RectSides
<1>12. OfRun(e, run, bottom, w) /\ e.y <= top
  BY <1>2, <1>3, <1>4, <1>7, <1>15 DEF OfRun
<1>13. /\ e.x <= r.x /\ Right(r) <= Right(e) /\ e.y <= r.y /\ Bottom(r) <= Bottom(e)
  <2>1. Bottom(r) = top
    BY <1>3 DEF Bottom
  <2>2. Right(r) \in Int
    BY <1>11 DEF r
  <2> QED BY <1>2, <1>4, <1>7, <2>1, <2>2
<1>14. ASSUME NEW i \in DOMAIN old
       PROVE  /\ new[i].x <= old[i].x /\ Right(old[i]) <= Right(new[i])
              /\ new[i].y <= old[i].y /\ Bottom(old[i]) <= Bottom(new[i])
  <2>1. CASE i = index
    BY <1>10, <1>13, <2>1 DEF r
  <2>2. CASE i # index
    BY <1>10, <1>11, <2>2
  <2> QED BY <2>1, <2>2
<1> QED BY <1>10, <1>12, <1>14 DEF RectsAdded

\* Appending the rectangle of a run.
LEMMA RectAppended ==
  ASSUME NEW w \in Nat, NEW h \in Nat, NEW old \in Seq(TileRects(w, h)),
         NEW run, NEW top \in Nat, NEW bottom \in Nat,
         top < bottom, bottom <= h,
         Edge(run[1]) \in Nat, AtMost(w, Edge(run[2])) \in Nat,
         Edge(run[1]) < AtMost(w, Edge(run[2])), AtMost(w, Edge(run[2])) <= w,
         NEW added, added = Within(Edge(run[1]), top, AtMost(w, Edge(run[2])), bottom),
         NEW new, new = Append(old, added)
  PROVE  RectsAdded(old, new, Len(old) + 1, run, top, bottom, w, h)
<1> DEFINE left == Edge(run[1])
           right == AtMost(w, Edge(run[2]))
<1>1. added = [x |-> left, y |-> top, w |-> right - left, h |-> bottom - top]
  BY DEF Within, Rect
<1> HIDE DEF left, right
<1>2. left \in Nat /\ right \in Nat /\ left < right /\ right <= w
  BY DEF left, right
<1>3. right - left \in Nat /\ right - left > 0 /\ left + (right - left) = right
      /\ bottom - top \in Nat /\ bottom - top > 0 /\ top + (bottom - top) = bottom
  BY <1>2
<1>4. /\ added.x = left /\ added.y = top
      /\ Right(added) = right /\ Bottom(added) = bottom
      /\ added.w > 0 /\ added.h > 0 /\ added \in RectType
  BY <1>1, <1>2, <1>3 DEF RectType, Right, Bottom
<1>5. added \in TileRects(w, h)
  BY <1>2, <1>4 DEF TileRects, InBounds
<1>6. /\ new \in Seq(TileRects(w, h)) /\ DOMAIN new = 1 .. (Len(old) + 1)
      /\ DOMAIN old = 1 .. Len(old) /\ Len(old) \in Nat
      /\ new[Len(old) + 1] = added
      /\ \A i \in DOMAIN old : new[i] = old[i]
  <2>1. Len(new) = Len(old) + 1
    BY <1>5
  <2> QED BY <1>5, <2>1
<1>7. Len(old) + 1 \in DOMAIN new /\ DOMAIN old \subseteq DOMAIN new
  BY <1>6
<1>8. OfRun(added, run, bottom, w) /\ added.y <= top
  BY <1>2, <1>4 DEF OfRun, left, right
<1>9. \A i \in DOMAIN old : /\ old[i].x \in Int /\ old[i].y \in Int
                            /\ Right(old[i]) \in Int /\ Bottom(old[i]) \in Int
  BY RectSides
<1>10. \A i \in DOMAIN old : /\ new[i].x <= old[i].x /\ Right(old[i]) <= Right(new[i])
                             /\ new[i].y <= old[i].y /\ Bottom(old[i]) <= Bottom(new[i])
  BY <1>6, <1>9
<1> QED BY <1>6, <1>7, <1>8, <1>10 DEF RectsAdded

Tiles(w, h) == (0 .. (TileCount(w) - 1)) \X (0 .. (TileCount(h) - 1))

IsScan(s) == s = [rects |-> s.rects, previous |-> s.previous,
                  current |-> s.current, first |-> s.first]

\* Runs of tiles, each with a rectangle of its own.
RunsOf(runs, rects) ==
  /\ DOMAIN runs \subseteq Nat \X Nat
  /\ \A r \in DOMAIN runs : runs[r] \in DOMAIN rects
  /\ \A r1, r2 \in DOMAIN runs : runs[r1] = runs[r2] => r1 = r2

\* The runs above, from the column `first` on, and those of the row.
RowRuns(s, first, row, w, h) ==
  /\ RunsOf(s.previous, s.rects) /\ RunsOf(s.current, s.rects)
  /\ \A r \in DOMAIN s.previous : r[1] >= first =>
       OfRun(s.rects[s.previous[r]], r, Edge(row), w)
  /\ \A r \in DOMAIN s.current :
       /\ r[1] < first
       /\ OfRun(s.rects[s.current[r]], r, AtMost(h, Edge(row + 1)), w)
  /\ \A r1 \in DOMAIN s.previous, r2 \in DOMAIN s.current :
       s.previous[r1] = s.current[r2] => r1 = r2

\* After the first k tiles of a row.
Scanned(s, changed, row, k, w, h) ==
  /\ IsScan(s)
  /\ s.rects \in Seq(TileRects(w, h))
  /\ s.first \in 0 .. k
  /\ \A column \in s.first .. (k - 1) : <<column, row>> \in changed
  /\ s.first < k => <<k, row>> \in changed
  /\ RowRuns(s, s.first, row, w, h)
  /\ \A tile \in changed :
       tile[2] < row \/ (tile[2] = row /\ tile[1] < s.first) =>
         \E i \in DOMAIN s.rects : CoversTile(s.rects[i], tile, w, h)

\* After the first rows.
RowsScanned(s, changed, row, w, h) ==
  /\ IsScan(s)
  /\ s.rects \in Seq(TileRects(w, h))
  /\ RunsOf(s.current, s.rects)
  /\ \A r \in DOMAIN s.current :
       OfRun(s.rects[s.current[r]], r, AtMost(h, Edge(row)), w)
  /\ \A tile \in changed : tile[2] < row =>
       \E i \in DOMAIN s.rects : CoversTile(s.rects[i], tile, w, h)

\* The effect of a run on s.
RunAdded(s, e, index, run) ==
  /\ IsScan(e) /\ e.previous = s.previous /\ e.first = s.first
  /\ e.current = [r \in DOMAIN s.current \cup {run} |->
                    IF r = run THEN index ELSE s.current[r]]

RunPlaced(s, e, index, run, row, w, h) ==
  /\ RunAdded(s, e, index, run)
  /\ RectsAdded(s.rects, e.rects, index, run, Edge(row),
                AtMost(h, Edge(row + 1)), w, h)
  /\ index \in DOMAIN s.rects =>
       run \in DOMAIN s.previous /\ index = s.previous[run]

\* Moving on to the next run changes nothing else.
LEMMA FirstSet ==
  ASSUME NEW a, IsScan(a), NEW n, NEW e, e = [a EXCEPT !.first = n]
  PROVE  /\ e.rects = a.rects /\ e.previous = a.previous
         /\ e.current = a.current /\ e.first = n /\ IsScan(e)
<1>1. a = [rects |-> a.rects, previous |-> a.previous,
           current |-> a.current, first |-> a.first]
  BY DEF IsScan
<1>2. e = [rects |-> a.rects, previous |-> a.previous,
           current |-> a.current, first |-> n]
  BY <1>1
<1> QED BY <1>2 DEF IsScan

\* A tile by its column and row.
LEMMA TileExtents ==
  ASSUME NEW w \in Nat \ {0}, NEW h \in Nat \ {0}, NEW tile \in Tiles(w, h)
  PROVE  /\ tile[1] \in Nat /\ tile[2] \in Nat
         /\ tile[1] < TileCount(w) /\ tile[2] < TileCount(h)
         /\ tile = <<tile[1], tile[2]>>
<1>1. TileCount(w) \in Nat \ {0} /\ TileCount(h) \in Nat \ {0}
  BY Counted
<1> QED BY <1>1 DEF Tiles

\* A run extends the rectangle above it or gets one of its own.
LEMMA AddRunAdds ==
  ASSUME NEW w \in Nat \ {0}, NEW h \in Nat \ {0},
         NEW row \in Nat, row < TileCount(h), NEW k \in Nat, k < TileCount(w),
         NEW s, IsScan(s), s.rects \in Seq(TileRects(w, h)),
         s.first \in 0 .. k, RunsOf(s.previous, s.rects),
         NEW run, run = <<s.first, k + 1>>,
         run \in DOMAIN s.previous =>
           OfRun(s.rects[s.previous[run]], run, Edge(row), w),
         NEW e, e = AddRun(s, run, row, w, h)
  PROVE  \E index : RunPlaced(s, e, index, run, row, w, h)
<1> DEFINE top == Edge(row)
           bottom == AtMost(h, top + TileSize)
           same == run \in DOMAIN s.previous
           index == IF same THEN s.previous[run] ELSE Len(s.rects) + 1
           added == Within(Edge(run[1]), top, AtMost(w, Edge(run[2])), bottom)
           rects == IF same
                    THEN [s.rects EXCEPT ![index].h = @ + bottom - top]
                    ELSE Append(s.rects, added)
           current == [r \in DOMAIN s.current \cup {run} |->
                         IF r = run THEN index ELSE s.current[r]]
<1>1. e = [s EXCEPT !.rects = rects, !.current = current]
  BY DEF AddRun, Edge
<1>2. /\ run[1] = s.first /\ run[2] = k + 1
      /\ s.first \in Nat /\ s.first <= k
  OBVIOUS
<1>3. /\ top \in Nat /\ top + TileSize = Edge(row + 1) /\ top < h
      /\ TileSize \in Nat \ {0}
  BY Edges, Counted
<1>4. bottom \in Nat /\ top < bottom /\ bottom <= h
  <2> HIDE DEF top
  <2> QED BY <1>3 DEF AtMost
<1>5. /\ Edge(s.first) \in Nat /\ Edge(s.first) < Edge(k + 1)
      /\ Edge(k + 1) \in Nat /\ Edge(s.first) < w
  <2>1. /\ Edge(s.first) \in Nat /\ Edge(s.first) <= Edge(k) /\ Edge(k) \in Nat
        /\ Edge(k + 1) = Edge(k) + TileSize
    BY <1>2, Edges
  <2>2. Edge(k) < w
    BY Counted
  <2> QED BY <1>3, <2>1, <2>2
<1>6. /\ AtMost(w, Edge(run[2])) \in Nat /\ Edge(run[1]) \in Nat
      /\ Edge(run[1]) < AtMost(w, Edge(run[2]))
      /\ AtMost(w, Edge(run[2])) <= w
  BY <1>2, <1>5 DEF AtMost
<1> HIDE DEF top, bottom
<1>7. RectsAdded(s.rects, rects, index, run, top, bottom, w, h)
  <2>1. CASE same
    <3>1. index \in DOMAIN s.rects
      BY <2>1 DEF RunsOf
    <3>2. OfRun(s.rects[index], run, top, w)
      BY <2>1 DEF top
    <3>3. rects = [s.rects EXCEPT ![index].h = @ + bottom - top]
      BY <2>1
    <3> DEFINE old == s.rects
    <3>4. old \in Seq(TileRects(w, h)) /\ w \in Nat /\ h \in Nat
      OBVIOUS
    <3> HIDE DEF old, rects, index
    <3>5. /\ rects = [old EXCEPT ![index].h = @ + bottom - top]
          /\ index \in DOMAIN old /\ OfRun(old[index], run, top, w)
      BY <3>1, <3>2, <3>3 DEF old
    <3>6. RectsAdded(old, rects, index, run, top, bottom, w, h)
      BY <1>3, <1>4, <3>4, <3>5, RectExtended
    <3> QED BY <3>6 DEF old
  <2>2. CASE ~same
    <3> DEFINE old == s.rects
    <3>1. rects = Append(old, added) /\ index = Len(old) + 1
      BY <2>2
    <3>2. old \in Seq(TileRects(w, h)) /\ w \in Nat /\ h \in Nat
      OBVIOUS
    <3> HIDE DEF old, rects, index, added
    <3>3. RectsAdded(old, rects, Len(old) + 1, run, top, bottom, w, h)
      BY <1>3, <1>4, <1>6, <3>1, <3>2, RectAppended DEF added
    <3> QED BY <3>1, <3>3 DEF old
  <2> QED BY <2>1, <2>2
<1>8. /\ IsScan(e) /\ e.rects = rects /\ e.current = current
      /\ e.previous = s.previous /\ e.first = s.first
  <2>1. s = [rects |-> s.rects, previous |-> s.previous,
             current |-> s.current, first |-> s.first]
    BY DEF IsScan
  <2> HIDE DEF rects, current
  <2>2. e = [rects |-> rects, previous |-> s.previous,
             current |-> current, first |-> s.first]
    BY <1>1, <2>1
  <2> QED BY <2>2 DEF IsScan
<1>9. index \in DOMAIN s.rects => same /\ index = s.previous[run]
  <2>1. Len(s.rects) + 1 \notin DOMAIN s.rects
    OBVIOUS
  <2> QED BY <2>1
<1>10. RunAdded(s, e, index, run)
  BY <1>8 DEF RunAdded
<1>11. bottom = AtMost(h, Edge(row + 1))
  BY <1>3 DEF bottom
<1> HIDE DEF index, rects
<1>12. RectsAdded(s.rects, e.rects, index, run, Edge(row),
                  AtMost(h, Edge(row + 1)), w, h)
  BY <1>7, <1>8, <1>11 DEF top
<1>13. RunPlaced(s, e, index, run, row, w, h)
  BY <1>9, <1>10, <1>12 DEF RunPlaced, index
<1> QED BY <1>13

\* Edges are natural.
LEMMA EdgeTyped ==
  ASSUME NEW n \in Nat
  PROVE  Edge(n) \in Nat
  BY Edges

\* A tile that was covered stays covered.
LEMMA RectsCover ==
  ASSUME NEW w \in Nat \ {0}, NEW h \in Nat \ {0},
         NEW old \in Seq(TileRects(w, h)), NEW new, NEW index, NEW run,
         NEW top, NEW bottom,
         RectsAdded(old, new, index, run, top, bottom, w, h),
         NEW tile \in Tiles(w, h), NEW i \in DOMAIN old,
         CoversTile(old[i], tile, w, h)
  PROVE  i \in DOMAIN new /\ CoversTile(new[i], tile, w, h)
<1>1. /\ new \in Seq(TileRects(w, h)) /\ i \in DOMAIN new
      /\ new[i].x <= old[i].x /\ Right(old[i]) <= Right(new[i])
      /\ new[i].y <= old[i].y /\ Bottom(old[i]) <= Bottom(new[i])
  BY DEF RectsAdded
<1> DEFINE a == old[i]
           b == new[i]
<1>2. a \in TileRects(w, h) /\ b \in TileRects(w, h)
  BY <1>1
<1>3. /\ a.x \in Int /\ a.y \in Int /\ Right(a) \in Int /\ Bottom(a) \in Int
      /\ b.x \in Int /\ b.y \in Int /\ Right(b) \in Int /\ Bottom(b) \in Int
  <2> HIDE DEF a, b
  <2> QED BY <1>2, RectSides
<1>4. /\ Edge(tile[1]) \in Int /\ Edge(tile[2]) \in Int
      /\ AtMost(w, Edge(tile[1] + 1)) \in Int
      /\ AtMost(h, Edge(tile[2] + 1)) \in Int
  <2>1. tile[1] \in Nat /\ tile[2] \in Nat
    BY TileExtents
  <2>3. tile[1] + 1 \in Nat /\ tile[2] + 1 \in Nat
    BY <2>1
  <2>2. /\ Edge(tile[1]) \in Nat /\ Edge(tile[2]) \in Nat
        /\ Edge(tile[1] + 1) \in Nat /\ Edge(tile[2] + 1) \in Nat
    BY <2>1, <2>3, EdgeTyped
  <2> QED BY <2>2, AtMostIs
<1>5. /\ a.x <= Edge(tile[1]) /\ AtMost(w, Edge(tile[1] + 1)) <= Right(a)
      /\ a.y <= Edge(tile[2]) /\ AtMost(h, Edge(tile[2] + 1)) <= Bottom(a)
  BY DEF CoversTile
<1>6. /\ b.x <= a.x /\ Right(a) <= Right(b) /\ b.y <= a.y /\ Bottom(a) <= Bottom(b)
  BY <1>1
<1> HIDE DEF a, b
<1> DEFINE x0 == Edge(tile[1])
           y0 == Edge(tile[2])
           x1 == AtMost(w, Edge(tile[1] + 1))
           y1 == AtMost(h, Edge(tile[2] + 1))
<1>8. /\ x0 \in Int /\ y0 \in Int /\ x1 \in Int /\ y1 \in Int
      /\ a.x <= x0 /\ x1 <= Right(a) /\ a.y <= y0 /\ y1 <= Bottom(a)
  BY <1>4, <1>5
<1>7. CoversTile(b, tile, w, h)
  <2> HIDE DEF x0, y0, x1, y1
  <2>1. b.x <= x0
    BY <1>3, <1>6, <1>8
  <2>2. x1 <= Right(b)
    BY <1>3, <1>6, <1>8
  <2>3. b.y <= y0
    BY <1>3, <1>6, <1>8
  <2>4. y1 <= Bottom(b)
    BY <1>3, <1>6, <1>8
  <2> QED BY <2>1, <2>2, <2>3, <2>4 DEF CoversTile, x0, y0, x1, y1
<1> QED BY <1>1, <1>7 DEF b

\* A run ends: its rectangle covers the tiles of the run.
LEMMA RunCovers ==
  ASSUME NEW w \in Nat \ {0}, NEW h \in Nat \ {0}, NEW first \in Nat,
         NEW k \in Nat, NEW row \in Nat, NEW r \in TileRects(w, h),
         OfRun(r, <<first, k + 1>>, AtMost(h, Edge(row + 1)), w),
         r.y <= Edge(row), NEW column \in first .. k
  PROVE  CoversTile(r, <<column, row>>, w, h)
<1>1. /\ r.x = Edge(first) /\ Right(r) = AtMost(w, Edge(k + 1))
      /\ Bottom(r) = AtMost(h, Edge(row + 1))
  BY DEF OfRun
<1>2. column \in Nat /\ first <= column /\ column + 1 <= k + 1
  OBVIOUS
<1>3. Edge(first) <= Edge(column)
  BY <1>2, Edges
<1>4. /\ Edge(column + 1) <= Edge(k + 1) /\ Edge(column + 1) \in Nat
      /\ Edge(k + 1) \in Nat
  <2>1. column + 1 \in Nat /\ k + 1 \in Nat
    BY <1>2
  <2> QED BY <1>2, <2>1, Edges
<1>5. AtMost(w, Edge(column + 1)) <= AtMost(w, Edge(k + 1))
  BY <1>4 DEF AtMost
<1>6. AtMost(h, Edge(row + 1)) <= AtMost(h, Edge(row + 1))
  <2>1. Edge(row + 1) \in Nat
    BY Edges
  <2> QED BY <2>1 DEF AtMost
<1> QED BY <1>1, <1>3, <1>5, <1>6 DEF CoversTile

\* A tile that goes on with a run, or that has not changed.
LEMMA TilePassed ==
  ASSUME NEW w \in Nat \ {0}, NEW h \in Nat \ {0},
         NEW changed \in SUBSET Tiles(w, h),
         NEW row \in Nat, row < TileCount(h), NEW k \in Nat, k < TileCount(w),
         NEW s, Scanned(s, changed, row, k, w, h),
         NEW e,
         \/ /\ <<k, row>> \in changed /\ <<k + 1, row>> \in changed
            /\ e = s
         \/ <<k, row>> \notin changed /\ e = [s EXCEPT !.first = k + 1]
  PROVE  Scanned(e, changed, row, k + 1, w, h)
<1>1. /\ IsScan(s) /\ s.first \in 0 .. k
      /\ s.first < k => <<k, row>> \in changed
  BY DEF Scanned
<1>2. CASE <<k, row>> \in changed /\ <<k + 1, row>> \in changed /\ e = s
  <2>1. /\ s.first \in 0 .. (k + 1)
        /\ \A column \in s.first .. ((k + 1) - 1) : <<column, row>> \in changed
    <3>1. ASSUME NEW column \in s.first .. ((k + 1) - 1)
          PROVE  column \in s.first .. (k - 1) \/ column = k
      BY <1>1
    <3>2. \A column \in s.first .. (k - 1) : <<column, row>> \in changed
      BY DEF Scanned
    <3>3. s.first \in 0 .. (k + 1)
      BY <1>1
    <3> QED BY <1>2, <3>1, <3>2, <3>3
  <2>2. /\ s.rects \in Seq(TileRects(w, h))
        /\ RowRuns(s, s.first, row, w, h)
        /\ \A tile \in changed :
             tile[2] < row \/ (tile[2] = row /\ tile[1] < s.first) =>
               \E i \in DOMAIN s.rects : CoversTile(s.rects[i], tile, w, h)
    BY DEF Scanned
  <2>3. s.first < k + 1 => <<k + 1, row>> \in changed
    BY <1>2
  <2>4. Scanned(s, changed, row, k + 1, w, h)
    BY <1>1, <2>1, <2>2, <2>3 DEF Scanned
  <2> QED BY <1>2, <2>4
<1>3. CASE <<k, row>> \notin changed /\ e = [s EXCEPT !.first = k + 1]
  <2>1. s.first = k
    BY <1>1, <1>3
  <2>2. /\ e.rects = s.rects /\ e.previous = s.previous
        /\ e.current = s.current /\ e.first = k + 1
        /\ IsScan(e)
    BY <1>1, <1>3, FirstSet
  <2>3. /\ e.first \in 0 .. (k + 1)
        /\ \A column \in e.first .. ((k + 1) - 1) : <<column, row>> \in changed
        /\ ~(e.first < k + 1)
    BY <2>2
  <2>4. RowRuns(e, e.first, row, w, h)
    <3>1. RowRuns(s, s.first, row, w, h)
      BY DEF Scanned
    <3>2. /\ \A r \in DOMAIN s.previous : r[1] \in Nat
          /\ \A r \in DOMAIN s.current : r[1] \in Nat
      BY <3>1 DEF RowRuns, RunsOf
    <3>3. \A r \in DOMAIN e.previous : r[1] >= e.first => r[1] >= s.first
      BY <2>1, <2>2, <3>2
    <3>4. \A r \in DOMAIN e.current : r[1] < s.first => r[1] < e.first
      BY <2>1, <2>2, <3>2
    <3> QED BY <2>2, <3>1, <3>3, <3>4 DEF RowRuns
  <2>6. \A tile \in changed :
          tile[2] < row \/ (tile[2] = row /\ tile[1] < e.first) =>
            \E i \in DOMAIN e.rects : CoversTile(e.rects[i], tile, w, h)
    <3> SUFFICES ASSUME NEW tile \in changed,
                        tile[2] < row \/ (tile[2] = row /\ tile[1] < k + 1)
                 PROVE  \E i \in DOMAIN s.rects : CoversTile(s.rects[i], tile, w, h)
      BY <2>2
    <3>1. tile[1] \in Nat /\ tile = <<tile[1], tile[2]>>
      BY TileExtents
    <3>2. ~(tile[2] = row /\ tile[1] = k)
      BY <1>3, <3>1
    <3>3. tile[2] < row \/ (tile[2] = row /\ tile[1] < s.first)
      BY <2>1, <3>1, <3>2
    <3> QED BY <3>3 DEF Scanned
  <2>7. e.rects \in Seq(TileRects(w, h))
    BY <2>2 DEF Scanned
  <2> QED BY <2>2, <2>3, <2>4, <2>6, <2>7 DEF Scanned
<1> QED BY <1>2, <1>3

\* The runs of the row above that may still go on keep their rectangles, and
\* so do the runs of this row.
LEMMA RunsKept ==
  ASSUME NEW w \in Nat \ {0}, NEW h \in Nat \ {0}, NEW changed,
         NEW row \in Nat, NEW k \in Nat,
         NEW s, Scanned(s, changed, row, k, w, h),
         NEW run, run = <<s.first, k + 1>>, NEW e, NEW index,
         RunPlaced(s, e, index, run, row, w, h)
  PROVE  RowRuns(e, k + 1, row, w, h)
<1> DEFINE old == s.rects
           new == e.rects
           above == s.previous
           here == s.current
           now == e.current
<1>1. /\ s.first \in 0 .. k
      /\ RunsOf(above, old) /\ RunsOf(here, old)
      /\ \A r \in DOMAIN above : r[1] >= s.first =>
           OfRun(old[above[r]], r, Edge(row), w)
      /\ \A r \in DOMAIN here :
           /\ r[1] < s.first
           /\ OfRun(old[here[r]], r, AtMost(h, Edge(row + 1)), w)
      /\ \A r1 \in DOMAIN above, r2 \in DOMAIN here :
           above[r1] = here[r2] => r1 = r2
  BY DEF Scanned, RowRuns
<1>2. /\ index \in DOMAIN new /\ DOMAIN old \subseteq DOMAIN new
      /\ OfRun(new[index], run, AtMost(h, Edge(row + 1)), w)
      /\ \A i \in DOMAIN old : i # index => new[i] = old[i]
  BY DEF RunPlaced, RectsAdded
<1>3. /\ e.previous = above
      /\ now = [r \in DOMAIN here \cup {run} |->
                  IF r = run THEN index ELSE here[r]]
  BY DEF RunPlaced, RunAdded
<1>4. index \in DOMAIN old => run \in DOMAIN above /\ index = above[run]
  BY DEF RunPlaced
<1>5. run[1] = s.first /\ run \in Nat \X Nat /\ s.first \in Nat /\ s.first <= k
  BY <1>1
<1> HIDE DEF old, new, above, here, now
<1>6. /\ DOMAIN above \subseteq Nat \X Nat /\ DOMAIN here \subseteq Nat \X Nat
      /\ \A r \in DOMAIN above : above[r] \in DOMAIN old
      /\ \A r \in DOMAIN here : here[r] \in DOMAIN old
      /\ \A r1, r2 \in DOMAIN above : above[r1] = above[r2] => r1 = r2
      /\ \A r1, r2 \in DOMAIN here : here[r1] = here[r2] => r1 = r2
  BY <1>1 DEF RunsOf
<1>7. \A r \in DOMAIN here : r # run
  BY <1>1, <1>5, <1>6
<1>8. \A r \in DOMAIN above : above[r] = index => r = run
  BY <1>4, <1>6
<1>9. \A r \in DOMAIN here : here[r] # index
  BY <1>1, <1>4, <1>6, <1>7
<1>10. /\ DOMAIN now = DOMAIN here \cup {run}
       /\ now[run] = index
       /\ \A r \in DOMAIN here : now[r] = here[r]
  BY <1>3, <1>7
<1>11. RunsOf(above, new)
  BY <1>2, <1>6 DEF RunsOf
<1>12. RunsOf(now, new)
  <2>1. DOMAIN now \subseteq Nat \X Nat
    BY <1>5, <1>6, <1>10
  <2>2. \A r \in DOMAIN now : now[r] \in DOMAIN new
    BY <1>2, <1>6, <1>10
  <2>3. ASSUME NEW r1 \in DOMAIN now, NEW r2 \in DOMAIN now, now[r1] = now[r2]
        PROVE  r1 = r2
    BY <1>6, <1>9, <1>10, <2>3
  <2> QED BY <2>1, <2>2, <2>3 DEF RunsOf
<1>13. ASSUME NEW r \in DOMAIN above, r[1] >= k + 1
       PROVE  OfRun(new[above[r]], r, Edge(row), w)
  <2>1. r[1] \in Nat /\ r[1] >= s.first /\ r # run
    BY <1>5, <1>6, <1>13
  <2>2. new[above[r]] = old[above[r]]
    BY <1>2, <1>6, <1>8, <2>1
  <2> QED BY <1>1, <2>1, <2>2
<1>14. ASSUME NEW r \in DOMAIN now
       PROVE  /\ r[1] < k + 1
              /\ OfRun(new[now[r]], r, AtMost(h, Edge(row + 1)), w)
  <2>1. CASE r = run
    BY <1>2, <1>5, <1>10, <2>1
  <2>2. CASE r \in DOMAIN here
    <3>1. r[1] < s.first /\ OfRun(old[here[r]], r, AtMost(h, Edge(row + 1)), w)
      BY <1>1, <2>2
    <3>2. r[1] \in Nat
      BY <1>6, <2>2
    <3>3. r[1] < k + 1
      BY <1>5, <3>1, <3>2
    <3>4. new[now[r]] = old[here[r]]
      BY <1>2, <1>6, <1>9, <1>10, <2>2
    <3> QED BY <3>1, <3>3, <3>4
  <2> QED BY <1>10, <2>1, <2>2
<1>15. ASSUME NEW r1 \in DOMAIN above, NEW r2 \in DOMAIN now,
              above[r1] = now[r2]
       PROVE  r1 = r2
  BY <1>1, <1>8, <1>10, <1>15
<1>16. /\ new = e.rects /\ now = e.current /\ above = e.previous
  BY <1>3 DEF new, now
<1> QED BY <1>11, <1>12, <1>13, <1>14, <1>15, <1>16 DEF RowRuns

RowStart(s) == [s EXCEPT !.previous = s.current, !.current = <<>>, !.first = 0]

\* The recursive definition of a row.
LEMMA RowUnfolds ==
  ASSUME NEW s, NEW row, NEW changed, NEW w, NEW h,
         TileCount(w) \in Nat
  PROVE  LET f == AddRow(s, row, changed, w, h)
         IN  /\ f[0] = RowStart(s)
             /\ \A i \in 1 .. TileCount(w) :
                  f[i] = AddTile(f[i - 1], i - 1, row, changed, w, h)
<1> DEFINE Solves(f, n) ==
             f = [i \in 0 .. n |->
                    IF i = 0 THEN RowStart(s)
                    ELSE AddTile(f[i - 1], i - 1, row, changed, w, h)]
           T == {n \in Nat : \E f : Solves(f, n)}
<1>1. 0 \in T
  <2>1. Solves([i \in 0 .. 0 |-> RowStart(s)], 0)
    OBVIOUS
  <2> QED BY <2>1
<1>2. ASSUME NEW n \in Nat, n \in T
      PROVE  n + 1 \in T
  <2>1. PICK f : Solves(f, n)
    BY <1>2
  <2> DEFINE up == [i \in 0 .. (n + 1) |->
                     IF i <= n THEN f[i]
                     ELSE AddTile(f[n], n, row, changed, w, h)]
             Step(i) == IF i = 0 THEN RowStart(s)
                        ELSE AddTile(up[i - 1], i - 1, row, changed, w, h)
  <2>2. ASSUME NEW i \in 0 .. (n + 1)
        PROVE  up[i] = Step(i)
    <3>1. CASE i = 0
      BY <2>1, <3>1
    <3>2. CASE i \in 1 .. n
      <4>1. up[i] = f[i] /\ up[i - 1] = f[i - 1]
        BY <3>2
      <4>2. f[i] = AddTile(f[i - 1], i - 1, row, changed, w, h)
        BY <2>1, <3>2
      <4> QED BY <3>2, <4>1, <4>2
    <3>3. CASE i = n + 1
      <4>1. up[i] = AddTile(f[n], n, row, changed, w, h) /\ up[n] = f[n]
        BY <3>3
      <4>2. i - 1 = n
        BY <3>3
      <4> QED BY <3>3, <4>1, <4>2
    <3> QED BY <3>1, <3>2, <3>3
  <2>3. up = [i \in 0 .. (n + 1) |-> Step(i)]
    BY <2>2
  <2>4. Solves(up, n + 1)
    BY <2>3
  <2>5. \E k : Solves(k, n + 1)
    <3> HIDE DEF up, Solves
    <3> QED BY <2>4
  <2>6. n + 1 \in Nat
    OBVIOUS
  <2> HIDE DEF Solves
  <2> QED BY <2>5, <2>6
<1>3. TileCount(w) \in T
  <2> HIDE DEF T
  <2> QED BY <1>1, <1>2, SetInduction
<1> DEFINE f == CHOOSE k : Solves(k, TileCount(w))
<1>4. Solves(f, TileCount(w))
  BY <1>3
<1>5. AddRow(s, row, changed, w, h) = f
  BY DEF AddRow, RowStart
<1> HIDE DEF f
<1>6. /\ f[0] = RowStart(s)
      /\ \A i \in 1 .. TileCount(w) :
           f[i] = AddTile(f[i - 1], i - 1, row, changed, w, h)
  BY <1>4
<1> QED BY <1>5, <1>6

NoRects == [rects |-> <<>>, previous |-> <<>>, current |-> <<>>, first |-> 0]

\* The recursive definition of all rows.
LEMMA RowsUnfold ==
  ASSUME NEW changed, NEW w, NEW h, TileCount(h) \in Nat
  PROVE  LET f == AddRows(changed, w, h)
         IN  /\ f[0] = NoRects
             /\ \A i \in 1 .. TileCount(h) :
                  f[i] = AddRow(f[i - 1], i - 1, changed, w, h)[TileCount(w)]
<1> DEFINE Solves(f, n) ==
             f = [i \in 0 .. n |->
                    IF i = 0 THEN NoRects
                    ELSE AddRow(f[i - 1], i - 1, changed, w, h)[TileCount(w)]]
           T == {n \in Nat : \E f : Solves(f, n)}
<1>1. 0 \in T
  <2>1. Solves([i \in 0 .. 0 |-> NoRects], 0)
    OBVIOUS
  <2> QED BY <2>1
<1>2. ASSUME NEW n \in Nat, n \in T
      PROVE  n + 1 \in T
  <2>1. PICK f : Solves(f, n)
    BY <1>2
  <2> DEFINE up == [i \in 0 .. (n + 1) |->
                     IF i <= n THEN f[i]
                     ELSE AddRow(f[n], n, changed, w, h)[TileCount(w)]]
             Step(i) == IF i = 0 THEN NoRects
                        ELSE AddRow(up[i - 1], i - 1, changed, w, h)[TileCount(w)]
  <2>2. ASSUME NEW i \in 0 .. (n + 1)
        PROVE  up[i] = Step(i)
    <3>1. CASE i = 0
      BY <2>1, <3>1
    <3>2. CASE i \in 1 .. n
      <4>1. up[i] = f[i] /\ up[i - 1] = f[i - 1]
        BY <3>2
      <4>2. f[i] = AddRow(f[i - 1], i - 1, changed, w, h)[TileCount(w)]
        BY <2>1, <3>2
      <4> QED BY <3>2, <4>1, <4>2
    <3>3. CASE i = n + 1
      <4>1. up[i] = AddRow(f[n], n, changed, w, h)[TileCount(w)] /\ up[n] = f[n]
        BY <3>3
      <4>2. i - 1 = n
        BY <3>3
      <4> QED BY <3>3, <4>1, <4>2
    <3> QED BY <3>1, <3>2, <3>3
  <2>3. up = [i \in 0 .. (n + 1) |-> Step(i)]
    BY <2>2
  <2>4. Solves(up, n + 1)
    BY <2>3
  <2>5. \E k : Solves(k, n + 1)
    <3> HIDE DEF up, Solves
    <3> QED BY <2>4
  <2>6. n + 1 \in Nat
    OBVIOUS
  <2> HIDE DEF Solves
  <2> QED BY <2>5, <2>6
<1>3. TileCount(h) \in T
  <2> HIDE DEF T
  <2> QED BY <1>1, <1>2, SetInduction
<1> DEFINE f == CHOOSE k : Solves(k, TileCount(h))
<1>4. Solves(f, TileCount(h))
  BY <1>3
<1>5. AddRows(changed, w, h) = f
  BY DEF AddRows, NoRects
<1> HIDE DEF f
<1>6. /\ f[0] = NoRects
      /\ \A i \in 1 .. TileCount(h) :
           f[i] = AddRow(f[i - 1], i - 1, changed, w, h)[TileCount(w)]
  BY <1>4
<1> QED BY <1>5, <1>6

\* The run of changed tiles that ends here is covered.
LEMMA RunEnded ==
  ASSUME NEW w \in Nat \ {0}, NEW h \in Nat \ {0},
         NEW changed \in SUBSET Tiles(w, h),
         NEW row \in Nat, row < TileCount(h), NEW k \in Nat, k < TileCount(w),
         NEW s, Scanned(s, changed, row, k, w, h),
         <<k, row>> \in changed, <<k + 1, row>> \notin changed,
         NEW e, e = [AddRun(s, <<s.first, k + 1>>, row, w, h)
                       EXCEPT !.first = k + 1]
  PROVE  Scanned(e, changed, row, k + 1, w, h)
<1> DEFINE run == <<s.first, k + 1>>
           a == AddRun(s, run, row, w, h)
           bottom == AtMost(h, Edge(row + 1))
<1>1. /\ IsScan(s) /\ s.rects \in Seq(TileRects(w, h)) /\ s.first \in 0 .. k
      /\ RunsOf(s.previous, s.rects)
  BY DEF Scanned, RowRuns
<1>2. run \in DOMAIN s.previous =>
        OfRun(s.rects[s.previous[run]], run, Edge(row), w)
  <2>1. run[1] = s.first
    OBVIOUS
  <2>2. s.first >= s.first
    BY <1>1
  <2> HIDE DEF run
  <2> QED BY <2>1, <2>2 DEF Scanned, RowRuns
<1>3. PICK index : RunPlaced(s, a, index, run, row, w, h)
  <2>1. a = AddRun(s, run, row, w, h) /\ run = <<s.first, k + 1>>
    OBVIOUS
  <2> HIDE DEF a, run
  <2> QED BY <1>1, <1>2, <2>1, AddRunAdds
<1>12. /\ RunAdded(s, a, index, run)
       /\ RectsAdded(s.rects, a.rects, index, run, Edge(row), bottom, w, h)
  <2> HIDE DEF a, run
  <2> QED BY <1>3 DEF RunPlaced
<1>4. /\ IsScan(a) /\ a.first = s.first
  BY <1>12 DEF RunAdded
<1>5. /\ e.rects = a.rects /\ e.previous = a.previous
      /\ e.current = a.current /\ e.first = k + 1 /\ IsScan(e)
  <2>1. e = [a EXCEPT !.first = k + 1]
    OBVIOUS
  <2> HIDE DEF a
  <2> QED BY <1>4, <2>1, FirstSet
<1>7. RowRuns(a, k + 1, row, w, h)
  <2>1. run = <<s.first, k + 1>>
    OBVIOUS
  <2> HIDE DEF a, run
  <2> QED BY <1>3, <2>1, RunsKept
<1>8. ASSUME NEW tile \in changed,
             tile[2] < row \/ (tile[2] = row /\ tile[1] < k + 1)
      PROVE  \E i \in DOMAIN a.rects : CoversTile(a.rects[i], tile, w, h)
  <2>1. /\ tile \in Tiles(w, h) /\ tile = <<tile[1], tile[2]>>
        /\ tile[1] \in Nat /\ tile[2] \in Nat
    BY TileExtents
  <2>2. CASE tile[2] < row \/ (tile[2] = row /\ tile[1] < s.first)
    <3>1. PICK i \in DOMAIN s.rects : CoversTile(s.rects[i], tile, w, h)
      BY <2>2 DEF Scanned
    <3> DEFINE old == s.rects
               new == a.rects
    <3>2. old \in Seq(TileRects(w, h)) /\ i \in DOMAIN old
          /\ CoversTile(old[i], tile, w, h)
      BY <1>1, <3>1
    <3> HIDE DEF a, run, bottom, old, new
    <3>3. RectsAdded(old, new, index, run, Edge(row), bottom, w, h)
      BY <1>12 DEF old, new
    <3>4. i \in DOMAIN new /\ CoversTile(new[i], tile, w, h)
      BY <2>1, <3>2, <3>3, RectsCover
    <3> QED BY <3>4 DEF new
  <2>3. CASE tile[2] = row /\ s.first <= tile[1]
    <3>1. /\ a.rects \in Seq(TileRects(w, h)) /\ index \in DOMAIN a.rects
          /\ OfRun(a.rects[index], run, bottom, w) /\ a.rects[index].y <= Edge(row)
      BY <1>12 DEF RectsAdded
    <3> DEFINE r == a.rects[index]
    <3>2. r \in TileRects(w, h)
      <4> DEFINE new == a.rects
      <4>1. new \in Seq(TileRects(w, h)) /\ index \in DOMAIN new
        BY <3>1
      <4> HIDE DEF new
      <4>2. new[index] \in TileRects(w, h)
        BY <4>1
      <4> QED BY <4>2 DEF new
    <3>3. OfRun(r, <<s.first, k + 1>>, AtMost(h, Edge(row + 1)), w)
          /\ r.y <= Edge(row)
      BY <3>1
    <3>4. s.first \in Nat /\ tile[1] \in s.first .. k
      BY <1>1, <1>8, <2>1, <2>3
    <3> HIDE DEF r
    <3>5. CoversTile(r, <<tile[1], row>>, w, h)
      BY <3>2, <3>3, <3>4, RunCovers
    <3>6. tile = <<tile[1], row>>
      BY <2>1, <2>3
    <3> QED BY <3>1, <3>5, <3>6 DEF r
  <2>4. s.first \in Nat
    BY <1>1
  <2> QED BY <1>8, <2>1, <2>2, <2>3, <2>4
<1>9. a.rects \in Seq(TileRects(w, h))
  BY <1>12 DEF RectsAdded
<1>10. /\ k + 1 \in 0 .. (k + 1) /\ ~(k + 1 < k + 1)
       /\ \A column \in (k + 1) .. ((k + 1) - 1) : <<column, row>> \in changed
  OBVIOUS
<1> HIDE DEF a, run, bottom
<1>11. RowRuns(e, e.first, row, w, h)
  BY <1>5, <1>7 DEF RowRuns
<1>13. \A tile \in changed :
         tile[2] < row \/ (tile[2] = row /\ tile[1] < e.first) =>
           \E i \in DOMAIN e.rects : CoversTile(e.rects[i], tile, w, h)
  BY <1>5, <1>8
<1>14. /\ e.first \in 0 .. (k + 1) /\ ~(e.first < k + 1)
       /\ \A column \in e.first .. ((k + 1) - 1) : <<column, row>> \in changed
       /\ e.rects \in Seq(TileRects(w, h)) /\ IsScan(e)
  BY <1>5, <1>9, <1>10
<1> QED BY <1>11, <1>13, <1>14 DEF Scanned

\* analyze, one tile of a row
LEMMA TileScanned ==
  ASSUME NEW w \in Nat \ {0}, NEW h \in Nat \ {0},
         NEW changed \in SUBSET Tiles(w, h),
         NEW row \in Nat, row < TileCount(h), NEW k \in Nat, k < TileCount(w),
         NEW s, Scanned(s, changed, row, k, w, h)
  PROVE  Scanned(AddTile(s, k, row, changed, w, h), changed, row, k + 1, w, h)
<1> DEFINE e == AddTile(s, k, row, changed, w, h)
           run == [AddRun(s, <<s.first, k + 1>>, row, w, h)
                     EXCEPT !.first = k + 1]
<1>1. /\ <<k, row>> \in changed /\ <<k + 1, row>> \in changed => e = s
      /\ <<k, row>> \notin changed => e = [s EXCEPT !.first = k + 1]
      /\ <<k, row>> \in changed /\ <<k + 1, row>> \notin changed => e = run
  BY DEF AddTile
<1> HIDE DEF e
<1>2. CASE <<k, row>> \in changed /\ <<k + 1, row>> \notin changed
  BY <1>1, <1>2, RunEnded DEF e
<1>3. CASE ~(<<k, row>> \in changed /\ <<k + 1, row>> \notin changed)
  <2>1. \/ /\ <<k, row>> \in changed /\ <<k + 1, row>> \in changed
           /\ e = s
        \/ <<k, row>> \notin changed /\ e = [s EXCEPT !.first = k + 1]
    BY <1>1, <1>3
  <2>2. Scanned(e, changed, row, k + 1, w, h)
    BY <2>1, TilePassed
  <2> QED BY <2>2 DEF e
<1> QED BY <1>2, <1>3

\* A row begins.
LEMMA RowBegins ==
  ASSUME NEW w \in Nat \ {0}, NEW h \in Nat \ {0},
         NEW changed \in SUBSET Tiles(w, h),
         NEW row \in Nat, row < TileCount(h),
         NEW s, RowsScanned(s, changed, row, w, h)
  PROVE  Scanned(RowStart(s), changed, row, 0, w, h)
<1> DEFINE e == RowStart(s)
<1>1. /\ e.rects = s.rects /\ e.previous = s.current
      /\ e.current = <<>> /\ e.first = 0 /\ IsScan(e)
  <2>1. s = [rects |-> s.rects, previous |-> s.previous,
             current |-> s.current, first |-> s.first]
    BY DEF RowsScanned, IsScan
  <2>2. e = [s EXCEPT !.previous = s.current, !.current = <<>>, !.first = 0]
    BY DEF RowStart
  <2> HIDE DEF e
  <2>3. e = [rects |-> s.rects, previous |-> s.current,
             current |-> <<>>, first |-> 0]
    BY <2>1, <2>2
  <2> QED BY <2>3 DEF IsScan
<1> HIDE DEF e
<1>2. AtMost(h, Edge(row)) = Edge(row)
  <2>1. Edge(row) \in Nat /\ Edge(row) < h
    BY Edges, Counted
  <2> QED BY <2>1 DEF AtMost
<1>3. DOMAIN e.current = {}
  <2>1. DOMAIN <<>> = {}
    OBVIOUS
  <2> QED BY <1>1, <2>1
<1>4. RunsOf(e.current, e.rects)
  BY <1>3 DEF RunsOf
<1>5. /\ \A column \in 0 .. (0 - 1) : <<column, row>> \in changed
      /\ e.first \in 0 .. 0 /\ ~(e.first < 0)
  BY <1>1
<1>6. \A tile \in changed :
        tile[2] < row \/ (tile[2] = row /\ tile[1] < e.first) =>
          \E i \in DOMAIN e.rects : CoversTile(e.rects[i], tile, w, h)
  <2>1. \A tile \in changed : tile[1] \in Nat
    BY TileExtents
  <2> QED BY <1>1, <2>1 DEF RowsScanned
<1>7. /\ e.rects \in Seq(TileRects(w, h)) /\ RunsOf(e.previous, e.rects)
      /\ \A r \in DOMAIN e.previous :
           OfRun(e.rects[e.previous[r]], r, Edge(row), w)
  BY <1>1, <1>2 DEF RowsScanned
<1>9. RowRuns(e, e.first, row, w, h)
  BY <1>1, <1>3, <1>4, <1>7 DEF RowRuns
<1>8. Scanned(e, changed, row, 0, w, h)
  BY <1>1, <1>5, <1>6, <1>7, <1>9 DEF Scanned
<1> QED BY <1>8 DEF e

\* A row ends.
LEMMA RowEnds ==
  ASSUME NEW w \in Nat \ {0}, NEW h \in Nat \ {0},
         NEW changed \in SUBSET Tiles(w, h),
         NEW row \in Nat,
         NEW s, Scanned(s, changed, row, TileCount(w), w, h)
  PROVE  RowsScanned(s, changed, row + 1, w, h)
<1>1. s.first = TileCount(w) /\ TileCount(w) \in Nat
  <2>1. <<TileCount(w), row>> \notin changed
    <3>1. ASSUME <<TileCount(w), row>> \in changed
          PROVE  FALSE
      <4> DEFINE n == TileCount(w)
      <4>1. n \in Nat \ {0} /\ <<n, row>> \in Tiles(w, h)
        BY <3>1, Counted
      <4> HIDE DEF n
      <4>2. <<n, row>>[1] < TileCount(w)
        BY <4>1, TileExtents
      <4> QED BY <4>1, <4>2 DEF n
    <3> QED BY <3>1
  <2>2. TileCount(w) \in Nat
    BY Counted
  <2> QED BY <2>1, <2>2 DEF Scanned
<1>2. ASSUME NEW tile \in changed, tile[2] < row + 1
      PROVE  \E i \in DOMAIN s.rects : CoversTile(s.rects[i], tile, w, h)
  <2>1. tile[1] \in Nat /\ tile[2] \in Nat /\ tile[1] < TileCount(w)
    BY TileExtents
  <2>2. tile[2] < row \/ (tile[2] = row /\ tile[1] < s.first)
    BY <1>1, <1>2, <2>1
  <2> QED BY <2>2 DEF Scanned
<1> QED BY <1>2 DEF Scanned, RowRuns, RowsScanned

\* A row is scanned when all its tiles have been.
LEMMA RowAdded ==
  ASSUME NEW w \in Nat \ {0}, NEW h \in Nat \ {0},
         NEW changed \in SUBSET Tiles(w, h),
         NEW row \in Nat, row < TileCount(h),
         NEW s, RowsScanned(s, changed, row, w, h)
  PROVE  RowsScanned(AddRow(s, row, changed, w, h)[TileCount(w)],
                     changed, row + 1, w, h)
<1> DEFINE f == AddRow(s, row, changed, w, h)
           n == TileCount(w)
           T == {k \in Nat : k <= n => Scanned(f[k], changed, row, k, w, h)}
<1>1. n \in Nat \ {0}
  BY Counted
<1>2. /\ f[0] = RowStart(s)
      /\ \A k \in 1 .. n : f[k] = AddTile(f[k - 1], k - 1, row, changed, w, h)
  BY <1>1, RowUnfolds
<1> HIDE DEF f
<1>3. 0 \in T
  BY <1>2, RowBegins
<1>4. ASSUME NEW k \in Nat, k \in T
      PROVE  k + 1 \in T
  <2> SUFFICES ASSUME k + 1 <= n
               PROVE  Scanned(f[k + 1], changed, row, k + 1, w, h)
    OBVIOUS
  <2>1. k + 1 \in 1 .. n /\ (k + 1) - 1 = k /\ k < n /\ k <= n
    BY <1>1
  <2>2. Scanned(f[k], changed, row, k, w, h)
    BY <1>4, <2>1
  <2>3. f[k + 1] = AddTile(f[k], k, row, changed, w, h)
    BY <1>2, <2>1
  <2>4. Scanned(AddTile(f[k], k, row, changed, w, h), changed, row, k + 1, w, h)
    <3> DEFINE t == f[k]
    <3>1. Scanned(t, changed, row, k, w, h)
      BY <2>2
    <3> HIDE DEF t, T
    <3>2. Scanned(AddTile(t, k, row, changed, w, h), changed, row, k + 1, w, h)
      BY <2>1, <3>1, TileScanned
    <3> QED BY <3>2 DEF t
  <2> QED BY <2>3, <2>4
<1>5. n \in T
  <2> HIDE DEF T, n
  <2> QED BY <1>1, <1>3, <1>4, SetInduction
<1>6. Scanned(f[n], changed, row, n, w, h)
  BY <1>1, <1>5
<1>7. RowsScanned(f[n], changed, row + 1, w, h)
  <2> DEFINE t == f[n]
  <2>1. Scanned(t, changed, row, TileCount(w), w, h)
    BY <1>6
  <2> HIDE DEF t, n, T
  <2>2. RowsScanned(t, changed, row + 1, w, h)
    BY <2>1, RowEnds
  <2> QED BY <2>2 DEF t
<1> QED BY <1>7 DEF f

\* All the rows are.
LEMMA AllScanned ==
  ASSUME NEW w \in Nat \ {0}, NEW h \in Nat \ {0},
         NEW changed \in SUBSET Tiles(w, h)
  PROVE  RowsScanned(AddRows(changed, w, h)[TileCount(h)], changed,
                     TileCount(h), w, h)
<1> DEFINE f == AddRows(changed, w, h)
           n == TileCount(h)
           T == {k \in Nat : k <= n => RowsScanned(f[k], changed, k, w, h)}
<1>1. n \in Nat \ {0}
  BY Counted
<1>2. /\ f[0] = NoRects
      /\ \A k \in 1 .. n : f[k] = AddRow(f[k - 1], k - 1, changed, w, h)[TileCount(w)]
  BY <1>1, RowsUnfold
<1> HIDE DEF f
<1>3. 0 \in T
  <2>1. /\ NoRects.rects = <<>> /\ NoRects.current = <<>> /\ IsScan(NoRects)
    BY DEF NoRects, IsScan
  <2>2. DOMAIN <<>> = {} /\ <<>> \in Seq(TileRects(w, h))
    OBVIOUS
  <2>3. RunsOf(<<>>, <<>>)
    BY <2>2 DEF RunsOf
  <2>4. \A tile \in changed : ~(tile[2] < 0)
    BY TileExtents
  <2>5. RowsScanned(NoRects, changed, 0, w, h)
    BY <2>1, <2>2, <2>3, <2>4 DEF RowsScanned
  <2> QED BY <1>2, <2>5
<1>4. ASSUME NEW k \in Nat, k \in T
      PROVE  k + 1 \in T
  <2> SUFFICES ASSUME k + 1 <= n
               PROVE  RowsScanned(f[k + 1], changed, k + 1, w, h)
    OBVIOUS
  <2>1. k + 1 \in 1 .. n /\ (k + 1) - 1 = k /\ k < n /\ k <= n
    BY <1>1
  <2>2. RowsScanned(f[k], changed, k, w, h)
    BY <1>4, <2>1
  <2>3. f[k + 1] = AddRow(f[k], k, changed, w, h)[TileCount(w)]
    BY <1>2, <2>1
  <2>4. RowsScanned(AddRow(f[k], k, changed, w, h)[TileCount(w)], changed, k + 1, w, h)
    <3> DEFINE t == f[k]
    <3>1. RowsScanned(t, changed, k, w, h)
      BY <2>2
    <3> HIDE DEF t, T
    <3>2. RowsScanned(AddRow(t, k, changed, w, h)[TileCount(w)], changed, k + 1, w, h)
      BY <2>1, <3>1, RowAdded
    <3> QED BY <3>2 DEF t
  <2> QED BY <2>3, <2>4
<1>5. n \in T
  <2> HIDE DEF T, n
  <2> QED BY <1>1, <1>3, <1>4, SetInduction
<1>6. RowsScanned(f[n], changed, n, w, h)
  BY <1>1, <1>5
<1> QED BY <1>6 DEF f

\* The tile of a pixel.
LEMMA TileOf ==
  ASSUME NEW extent \in Nat \ {0}, NEW a \in 0 .. (extent - 1)
  PROVE  /\ a \div TileSize \in 0 .. (TileCount(extent) - 1)
         /\ Edge(a \div TileSize) <= a
         /\ a < AtMost(extent, Edge(a \div TileSize + 1))
<1>1. TileSize \in Nat \ {0} /\ a \in Nat /\ a < extent
  BY TileAssumption
<1>2. ASSUME NEW t \in Nat \ {0}
      PROVE  /\ a \div t \in Nat
             /\ (a \div t) * t <= a /\ a < (a \div t + 1) * t
             /\ (a \div t + 1) * t \in Int
  OBVIOUS
<1> DEFINE i == a \div TileSize
<1>3. /\ i \in Nat /\ Edge(i) <= a /\ a < Edge(i + 1)
      /\ Edge(i) \in Nat /\ Edge(i + 1) \in Nat
  <2>1. i \in Nat /\ Edge(i) <= a /\ a < Edge(i + 1)
    BY <1>1, <1>2 DEF Edge
  <2> HIDE DEF i
  <2>2. i + 1 \in Nat
    BY <2>1
  <2> QED BY <2>1, <2>2, EdgeTyped
<1> HIDE DEF i
<1>4. i < TileCount(extent)
  <2>1. Edge(i) < extent
    BY <1>1, <1>3
  <2> QED BY <1>3, <2>1, Counted
<1>5. TileCount(extent) \in Nat
  BY Counted
<1>6. i \in 0 .. (TileCount(extent) - 1)
  BY <1>3, <1>4, <1>5
<1>7. a < AtMost(extent, Edge(i + 1))
  BY <1>1, <1>3 DEF AtMost
<1> QED BY <1>3, <1>6, <1>7 DEF i

\* analyze: every pixel that changed since the image whose hashes are the
\* baseline is in a rectangle.
THEOREM AnalyzeCovers ==
  ASSUME NEW w \in Nat \ {0}, NEW h \in Nat \ {0}, NEW old, NEW new,
         NEW rects, rects = Analyze(TileHashes(old, w, h), new, w, h)
  PROVE  /\ rects \in Seq(TileRects(w, h))
         /\ \A p \in PixelsOf(w, h) : new[p] # old[p] => CoveredBy(rects, p)
<1> DEFINE before == TileHashes(old, w, h)
           after == TileHashes(new, w, h)
           changed == {tile \in DOMAIN after : after[tile] # before[tile]}
           last == AddRows(changed, w, h)[TileCount(h)]
<1>1. DOMAIN after = Tiles(w, h) /\ DOMAIN before = Tiles(w, h)
  BY DEF TileHashes, Tiles
<1>2. before # NoBaseline
  <2>1. <<0, 0>> \in Tiles(w, h)
    <3>1. TileCount(w) \in Nat \ {0} /\ TileCount(h) \in Nat \ {0}
      BY Counted
    <3> QED BY <3>1 DEF Tiles
  <2>2. DOMAIN NoBaseline = {}
    BY DEF NoBaseline
  <2> HIDE DEF before
  <2> QED BY <1>1, <2>1, <2>2
<1>3. rects = last.rects
  BY <1>2 DEF Analyze
<1>4. changed \in SUBSET Tiles(w, h)
  BY <1>1
<1>5. RowsScanned(last, changed, TileCount(h), w, h)
  <2> HIDE DEF changed
  <2> QED BY <1>4, AllScanned
<1>6. ASSUME NEW p \in PixelsOf(w, h), new[p] # old[p]
      PROVE  CoveredBy(rects, p)
  <2> DEFINE i == p[1] \div TileSize
             j == p[2] \div TileSize
             tile == <<i, j>>
  <2>1. /\ p[1] \in 0 .. (w - 1) /\ p[2] \in 0 .. (h - 1)
        /\ p = <<p[1], p[2]>>
    BY DEF PixelsOf
  <2>2. /\ i \in 0 .. (TileCount(w) - 1) /\ j \in 0 .. (TileCount(h) - 1)
        /\ Edge(i) <= p[1] /\ p[1] < AtMost(w, Edge(i + 1))
        /\ Edge(j) <= p[2] /\ p[2] < AtMost(h, Edge(j + 1))
    BY <2>1, TileOf
  <2>3. tile \in Tiles(w, h)
    BY <2>2 DEF Tiles
  <2>4. p \in TilePixels(tile, w, h)
    <3>1. tile[1] = i /\ tile[2] = j
      OBVIOUS
    <3> QED BY <2>1, <3>1 DEF TilePixels, PixelsOf
  <2> HIDE DEF tile
  <2>5. after[tile] # before[tile]
    <3>1. /\ after[tile] = [q \in TilePixels(tile, w, h) |-> new[q]]
          /\ before[tile] = [q \in TilePixels(tile, w, h) |-> old[q]]
      BY <2>3 DEF TileHashes, Tiles
    <3>2. after[tile][p] = new[p] /\ before[tile][p] = old[p]
      BY <2>4, <3>1
    <3> QED BY <1>6, <3>2
  <2>6. tile \in changed
    BY <1>1, <2>3, <2>5
  <2>7. tile[2] < TileCount(h)
    BY <2>3, TileExtents
  <2> HIDE DEF changed, last, before, after
  <2>8. PICK n \in DOMAIN rects : CoversTile(rects[n], tile, w, h)
    BY <1>3, <1>5, <2>6, <2>7 DEF RowsScanned
  <2> DEFINE r == rects[n]
  <2>9. /\ r.x <= Edge(i) /\ AtMost(w, Edge(i + 1)) <= Right(r)
        /\ r.y <= Edge(j) /\ AtMost(h, Edge(j + 1)) <= Bottom(r)
    BY <2>8 DEF CoversTile, tile
  <2>10. r \in TileRects(w, h)
    <3>1. rects \in Seq(TileRects(w, h))
      BY <1>3, <1>5 DEF RowsScanned
    <3> QED BY <3>1
  <2>11. Covers(r, p)
    <3> HIDE DEF r, i, j
    <3>1. /\ r.x \in Int /\ r.y \in Int /\ Right(r) \in Int /\ Bottom(r) \in Int
      BY <2>10, RectSides
    <3>2. i \in Nat /\ j \in Nat /\ i + 1 \in Nat /\ j + 1 \in Nat
      <4>1. TileCount(w) \in Nat /\ TileCount(h) \in Nat
        BY Counted
      <4> QED BY <2>2, <4>1
    <3>3. /\ Edge(i) \in Nat /\ Edge(j) \in Nat
          /\ Edge(i + 1) \in Nat /\ Edge(j + 1) \in Nat
      BY <3>2, EdgeTyped
    <3>4. AtMost(w, Edge(i + 1)) \in Int /\ AtMost(h, Edge(j + 1)) \in Int
      BY <3>3, AtMostIs
    <3>5. p[1] \in Int /\ p[2] \in Int
      BY <2>1
    <3>6. r.x <= p[1] /\ r.y <= p[2]
      BY <2>2, <2>9, <3>1, <3>3, <3>5
    <3>7. p[1] < Right(r) /\ p[2] < Bottom(r)
      BY <2>2, <2>9, <3>1, <3>4, <3>5
    <3> QED BY <3>6, <3>7 DEF Covers
  <2> QED BY <2>8, <2>11 DEF CoveredBy, r
<1>7. rects \in Seq(TileRects(w, h))
  <2> HIDE DEF last, changed
  <2> QED BY <1>3, <1>5 DEF RowsScanned
<1> QED BY <1>6, <1>7

-----------------------------------------------------------------------------
(* The frames of the three back ends.                                      *)

\* A CPU session captures its surface as it is.
LEMMA WholeCapture ==
  ASSUME NEW c, Capturable(c), c.backend = "cpu"
  PROVE  /\ c.rotation = 0 /\ c.surface.w \in Nat \ {0} /\ c.surface.h \in Nat \ {0}
         /\ OutputPixels(c) = Surface(c)
         /\ \A p \in OutputPixels(c) : ShownSurface(c, p) = p
         /\ TileRects(c.surface.w, c.surface.h) \subseteq DirtyRects(c)
<1> DEFINE g == GeometryOf(c)
<1>1. /\ c.region = Rect(0, 0, c.surface.w, c.surface.h)
      /\ c.out = c.surface /\ ~c.planar /\ c.rotation = 0
      /\ c.surface.w \in Nat \ {0} /\ c.surface.h \in Nat \ {0}
  BY CapturesAssumption DEF Capturable
<1>2. /\ c.region.x = 0 /\ c.region.y = 0
      /\ c.region.w = c.surface.w /\ c.region.h = c.surface.h
  BY <1>1 DEF Rect
<1>3. /\ Extents(g) /\ g.sw = c.surface.w /\ g.sh = c.surface.h
      /\ g.ow = c.surface.w /\ g.oh = c.surface.h /\ g.planar = c.planar
      /\ OutputPixels(c) = Outputs(g)
  BY <1>1, <1>2, CaptureExtents
<1>4. OutputPixels(c) = Surface(c)
  BY <1>1 DEF OutputPixels, Surface
<1>5. ASSUME NEW p \in OutputPixels(c)
      PROVE  ShownSurface(c, p) = p
  <2>1. ShownSurface(c, p) = Shown(c, p)
    BY <1>1, ShownSurfaceIs DEF OnSurface
  <2>2. Taps(g, p) = p
    <3>1. ~Scaled(g)
      BY <1>3 DEF Scaled
    <3>2. p \in Outputs(g)
      BY <1>3
    <3> HIDE DEF g
    <3> QED BY <1>3, <3>1, <3>2, TapsUnscaled
  <2>3. p[1] \in Int /\ p[2] \in Int /\ p = <<p[1], p[2]>>
    BY <1>1 DEF OutputPixels, PixelsOf
  <2>4. /\ PointTap(p[1], c.region.w, c.out.w) = p[1]
        /\ PointTap(p[2], c.region.h, c.out.h) = p[2]
    <3>1. Taps(g, p)[1] = p[1] /\ Taps(g, p)[2] = p[2]
      BY <2>2
    <3>2. /\ c.region.w = g.sw /\ c.region.h = g.sh
          /\ c.out.w = g.ow /\ c.out.h = g.oh
      BY <1>1, <1>2, <1>3
    <3> HIDE DEF g
    <3> QED BY <3>1, <3>2 DEF Taps
  <2>5. Shown(c, p) = <<p[1], p[2]>>
    BY <1>2, <2>3, <2>4 DEF Shown
  <2> QED BY <2>1, <2>3, <2>5
<1>6. TileRects(c.surface.w, c.surface.h) \subseteq DirtyRects(c)
  BY <1>1, <1>3 DEF TileRects, DirtyRects, Publishable
<1> QED BY <1>1, <1>4, <1>5, <1>6

\* Sequences over a larger set.
LEMMA SeqOfMore ==
  ASSUME NEW A, NEW B, A \subseteq B, NEW s \in Seq(A)
  PROVE  s \in Seq(B)
<1>1. /\ Len(s) \in Nat /\ s = [i \in 1 .. Len(s) |-> s[i]]
      /\ \A i \in 1 .. Len(s) : s[i] \in B
  OBVIOUS
<1> QED BY <1>1, SeqDef

\* capture_into
LEMMA TrackedFollows ==
  ASSUME NEW c, Capturable(c), c.backend = "cpu", NEW old, NEW new,
         NEW d, d.moves = <<>>,
         d.dirty = Analyze(TileHashes(old, c.surface.w, c.surface.h), new,
                           c.surface.w, c.surface.h)
  PROVE  Follows(d, new, old, c)
<1> DEFINE w == c.surface.w
           h == c.surface.h
           dirty == d.dirty
<1>1. /\ w \in Nat \ {0} /\ h \in Nat \ {0} /\ OutputPixels(c) = PixelsOf(w, h)
      /\ \A p \in OutputPixels(c) : ShownSurface(c, p) = p
      /\ TileRects(w, h) \subseteq DirtyRects(c)
  BY WholeCapture DEF Surface
<1>2. dirty = Analyze(TileHashes(old, w, h), new, w, h)
  OBVIOUS
<1> HIDE DEF w, h, dirty
<1>3. /\ dirty \in Seq(TileRects(w, h))
      /\ \A p \in PixelsOf(w, h) : new[p] # old[p] => CoveredBy(dirty, p)
  BY <1>1, <1>2, AnalyzeCovers
<1>4. dirty \in Seq(DirtyRects(c))
  BY <1>1, <1>3, SeqOfMore
<1>5. <<>> \in Seq(MoveRects(c))
  OBVIOUS
<1>6. ASSUME NEW p \in OutputPixels(c), ~CoveredBy(dirty, p)
      PROVE  /\ Brought(<<>>, p) \in OutputPixels(c)
             /\ new[ShownSurface(c, p)] = old[ShownSurface(c, Brought(<<>>, p))]
  <2>1. Brought(<<>>, p) = p
    BY NothingBrought
  <2> QED BY <1>1, <1>3, <1>6, <2>1
<1> QED BY <1>4, <1>5, <1>6 DEF Follows, dirty

\* What the surface shows after moves and dirty rectangles.
Evolves(c, moves, dirty, old, new) ==
  \A q \in Surface(c) :
    (\A i \in 1 .. Len(dirty) : ~Covers(dirty[i], q))
      => new[q] = old[Landed(moves, Len(moves), q)]

\* Damage that accounts for what moved and was dirtied can be replayed.
LEMMA AccountsFollows ==
  ASSUME NEW c, Capturable(c), NEW d, NEW moves, NEW dirty,
         Accounts(d, moves, dirty, c), NEW old, NEW new,
         Evolves(c, moves, dirty, old, new)
  PROVE  Follows(d, new, old, c) /\ d.full = FALSE /\ Built(d, c)
<1>1. d.dirty \in Seq(DirtyRects(c)) /\ d.moves \in Seq(MoveRects(c))
      /\ d.full = FALSE /\ Built(d, c)
  BY DamageFields DEF Accounts
<1>2. ASSUME NEW p \in OutputPixels(c), ~CoveredBy(d.dirty, p)
      PROVE  /\ Brought(d.moves, p) \in OutputPixels(c)
             /\ new[ShownSurface(c, p)] = old[ShownSurface(c, Brought(d.moves, p))]
  <2>1. /\ Brought(d.moves, p) \in OutputPixels(c)
        /\ ShownSurface(c, Brought(d.moves, p))
             = Landed(moves, Len(moves), ShownSurface(c, p))
        /\ \A i \in 1 .. Len(dirty) : ~Covers(dirty[i], ShownSurface(c, p))
    BY <1>2 DEF Accounts
  <2>2. ShownSurface(c, p) \in Surface(c)
    BY ShownInside
  <2> QED BY <2>1, <2>2 DEF Evolves
<1> QED BY <1>1, <1>2 DEF Follows

\* Damage that the bus takes.
Acceptable(d, c) ==
  /\ d = [dirty |-> d.dirty, moves |-> d.moves, full |-> d.full,
          overflow |-> d.overflow]
  /\ BusAccepts(d, c)

\* The bus takes the damage of every frame that is not whole,
LEMMA BuiltAcceptable ==
  ASSUME NEW c, Capturable(c), NEW d, Built(d, c)
  PROVE  Acceptable(d, c)
<1>1. /\ d.dirty \in Seq(DirtyRects(c)) /\ d.moves \in Seq(MoveRects(c))
      /\ d.full = FALSE
      /\ Len(d.dirty) <= MaxDirtyRects /\ Len(d.moves) <= MaxMoveRects
  BY DamageFields
<1>2. d = [dirty |-> d.dirty, moves |-> d.moves, full |-> d.full,
           overflow |-> d.overflow]
  <2> DEFINE A == Seq(DirtyRects(c))
             B == Seq(MoveRects(c))
  <2>1. d \in [dirty : A, moves : B, full : {FALSE}, overflow : BOOLEAN]
    BY DEF Built
  <2> HIDE DEF A, B
  <2> QED BY <2>1
<1>3. GeometryOf(c).ow = c.out.w /\ GeometryOf(c).oh = c.out.h
  BY CaptureExtents
<1>4. \A i \in DOMAIN d.dirty : ValidBusRect(d.dirty[i], c)
  <2> DEFINE s == d.dirty
  <2>1. s \in Seq(DirtyRects(c))
    BY <1>1
  <2> HIDE DEF s
  <2>2. \A i \in DOMAIN s : s[i] \in DirtyRects(c)
    BY <2>1
  <2>3. \A i \in DOMAIN s : ValidBusRect(s[i], c)
    BY <1>3, <2>2 DEF DirtyRects, Publishable, ValidBusRect
  <2> QED BY <2>3 DEF s
<1>5. \A i \in DOMAIN d.moves :
        /\ ValidBusRect(d.moves[i].to, c)
        /\ ValidBusRect(Rect(d.moves[i].x, d.moves[i].y, d.moves[i].to.w,
                             d.moves[i].to.h), c)
  <2> DEFINE s == d.moves
  <2>1. s \in Seq(MoveRects(c))
    BY <1>1
  <2> HIDE DEF s
  <2>2. \A i \in DOMAIN s : s[i] \in MoveRects(c)
    BY <2>1
  <2>3. \A i \in DOMAIN s :
          /\ ValidBusRect(s[i].to, c)
          /\ ValidBusRect(Rect(s[i].x, s[i].y, s[i].to.w, s[i].to.h), c)
    BY <1>3, <2>2 DEF MoveRects, Publishable, ValidBusRect
  <2> QED BY <2>3 DEF s
<1> QED BY <1>1, <1>2, <1>4, <1>5 DEF Acceptable, BusAccepts

\* and of every frame that is.
LEMMA FullAcceptable ==
  ASSUME NEW c, Capturable(c), NEW d, IsFull(d, c)
  PROVE  Acceptable(d, c) /\ d.full = TRUE
<1>1. /\ d.dirty = <<FullFrame(c)>> /\ d.moves = <<>> /\ d.full = TRUE
      /\ d = [dirty |-> d.dirty, moves |-> d.moves, full |-> d.full,
              overflow |-> d.overflow]
  BY DEF IsFull, FullDamage
<1>2. /\ GeometryOf(c).ow = c.out.w /\ GeometryOf(c).oh = c.out.h
      /\ GeometryOf(c).ow \in Nat \ {0} /\ GeometryOf(c).oh \in Nat \ {0}
  BY CaptureExtents DEF Extents
<1> DEFINE r == FullFrame(c)
<1>3. /\ r.x = 0 /\ r.y = 0 /\ r.w = c.out.w /\ r.h = c.out.h
      /\ Right(r) = 0 + c.out.w /\ Bottom(r) = 0 + c.out.h
  BY DEF FullFrame, Rect, Right, Bottom
<1> HIDE DEF r
<1>4. ValidBusRect(r, c)
  BY <1>2, <1>3 DEF ValidBusRect, InBounds
<1>5. Len(<<r>>) = 1 /\ Len(<<>>) = 0 /\ DOMAIN <<r>> = {1} /\ <<r>>[1] = r
      /\ DOMAIN <<>> = {}
  OBVIOUS
<1>6. 1 <= MaxDirtyRects /\ 0 <= MaxMoveRects
  BY RectsAssumption
<1>7. BusAccepts(d, c)
  <2>1. /\ d.dirty = <<r>> /\ d.dirty = <<FullFrame(c)>> /\ d.moves = <<>>
    BY <1>1 DEF r
  <2>2. Len(d.dirty) <= MaxDirtyRects /\ Len(d.moves) <= MaxMoveRects
    BY <1>5, <1>6, <2>1
  <2>3. \A i \in DOMAIN d.dirty : ValidBusRect(d.dirty[i], c)
    BY <1>4, <1>5, <2>1
  <2>4. DOMAIN d.moves = {}
    BY <1>5, <2>1
  <2> QED BY <2>1, <2>2, <2>3, <2>4 DEF BusAccepts
<1> QED BY <1>1, <1>7 DEF Acceptable

-----------------------------------------------------------------------------
(* What a frame does to the screen and to the consumer's copy of it.       *)

\* What the sources report, by type.
LEMMA ReportsTyped ==
  ASSUME NEW c, Capturable(c)
  PROVE  /\ \A report \in DuplicatedFrames(c) :
              report[1] \in Seq(SurfaceMoves) /\ report[2] \in Seq(RectType)
         /\ SourceDirt(c) \subseteq Seq(RectType)
<1> DEFINE rects == {r \in RectType : InBounds(r, c.surface.w, c.surface.h)}
           pairs == [from : rects, to : rects]
<1>1. ASSUME NEW report \in DuplicatedFrames(c)
      PROVE  report[1] \in Seq(SurfaceMoves) /\ report[2] \in Seq(RectType)
  <2> DEFINE moves == report[1]
             dirty == report[2]
  <2>1. /\ moves \in Seq(pairs) /\ dirty \in Seq(rects)
        /\ \A i \in DOMAIN moves : /\ moves[i].from.w = moves[i].to.w
                                   /\ moves[i].from.h = moves[i].to.h
    BY ReportsAssumption DEF Capturable
  <2>2. rects \subseteq RectType
    OBVIOUS
  <2> HIDE DEF rects, moves, dirty, pairs
  <2>3. /\ Len(moves) \in Nat /\ moves = [i \in 1 .. Len(moves) |-> moves[i]]
        /\ \A i \in 1 .. Len(moves) : i \in DOMAIN moves /\ moves[i] \in pairs
    BY <2>1
  <2>7. pairs = [from : rects, to : rects]
    BY DEF pairs
  <2>4. \A i \in 1 .. Len(moves) : moves[i] \in SurfaceMoves
    BY <2>1, <2>2, <2>3, <2>7 DEF SurfaceMoves
  <2>5. moves \in Seq(SurfaceMoves)
    BY <2>3, <2>4, SeqDef
  <2>6. dirty \in Seq(RectType)
    BY <2>1, <2>2, SeqOfMore
  <2> QED BY <2>5, <2>6 DEF moves, dirty
<1>2. SourceDirt(c) \subseteq Seq(RectType)
  BY ReportsAssumption DEF Capturable
<1> QED BY <1>1, <1>2

\* A frame's dirty rectangles are all that changes after its moves.
LEMMA DirtImage ==
  ASSUME NEW old, NEW R, NEW dirty \in Seq(R), NEW mid, DOMAIN mid = DOMAIN old,
         NEW new, new = AfterDirt(Dirtied(dirty, old), mid)
  PROVE  /\ DOMAIN new = DOMAIN old
         /\ \A q \in DOMAIN old :
              (\A i \in 1 .. Len(dirty) : ~Covers(dirty[i], q)) => new[q] = mid[q]
<1>1. DOMAIN dirty = 1 .. Len(dirty)
  OBVIOUS
<1> QED BY <1>1 DEF AfterDirt, Dirtied

\* Moves keep the size of the screen.
LEMMA MovesImage ==
  ASSUME NEW moves, NEW image
  PROVE  DOMAIN AfterMoves(moves, image) = DOMAIN image
BY DEF AfterMoves

\* The consumer has the image of a frame whose damage is whole, or follows
\* from the frame before.
LEMMA Published ==
  ASSUME Capturable(config), NEW image, NEW d, Publish(image, d),
         \/ d.full = TRUE
         \/ /\ d.full = FALSE /\ copy = Render(config, screen)
            /\ Follows(d, image, screen, config)
  PROVE  /\ screen' = image /\ damage' = d /\ base' = copy /\ config' = config
         /\ frames' = frames + 1 /\ copy' = Render(config, image)
<1>1. /\ screen' = image /\ damage' = d /\ base' = copy /\ config' = config
      /\ frames' = frames + 1
      /\ copy' = IF d.full THEN Render(config, image)
                 ELSE Replay(d, Render(config, image), copy, config)
  BY DEF Publish
<1>2. CASE d.full = TRUE
  BY <1>1, <1>2
<1>3. CASE /\ d.full = FALSE /\ copy = Render(config, screen)
           /\ Follows(d, image, screen, config)
  <2>1. Replay(d, Render(config, image), Render(config, screen), config)
          = Render(config, image)
    BY <1>3, FollowsRenders
  <2> QED BY <1>1, <1>3, <2>1
<1> QED BY <1>2, <1>3

\* What damage built by a back end does: the last two lemmas' hypothesis.
LEMMA AccountedFrame ==
  ASSUME NEW c, Capturable(c), NEW d, NEW moves, NEW dirty, NEW old, NEW new,
         IsFull(d, c) \/ Accounts(d, moves, dirty, c),
         Evolves(c, moves, dirty, old, new)
  PROVE  /\ Acceptable(d, c)
         /\ d.full = TRUE \/ (d.full = FALSE /\ Follows(d, new, old, c))
<1>1. CASE IsFull(d, c)
  BY <1>1, FullAcceptable
<1>2. CASE Accounts(d, moves, dirty, c)
  <2>1. Follows(d, new, old, c) /\ d.full = FALSE /\ Built(d, c)
    BY <1>2, AccountsFollows
  <2> QED BY <2>1, BuiltAcceptable
<1> QED BY <1>1, <1>2

-----------------------------------------------------------------------------
(* The inductive invariant.                                                *)

\* The CPU session's tracker has the hashes of the last frame.
TrackerInv ==
  config.backend = "cpu" =>
    tracker = IF frames = 0 THEN NoBaseline
              ELSE TileHashes(screen, config.surface.w, config.surface.h)

\* A move that may still be inferred made the screen what it is, and the
\* consumer had the image that it moved.
MovedBy(m) ==
  \E prev : /\ DOMAIN prev = Surface(config)
            /\ base = Render(config, prev)
            /\ screen = AfterMoves(<<m>>, prev)
MovedInv ==
  config.backend = "wgc" /\ moved # <<>> =>
    /\ frames > 0 /\ moved = <<moved[1]>>
    /\ moved[1] \in SurfaceMoves /\ MovedBy(moved[1])

AcceptedInv == config.backend # "cpu" => Acceptable(damage, config)

ReplayInv ==
  /\ Capturable(config) /\ frames \in Nat /\ DOMAIN screen = Surface(config)
  /\ frames > 0 => copy = Render(config, screen)
  /\ TrackerInv /\ AcceptedInv /\ MovedInv

\* What every published frame has to show.
LEMMA FramePublished ==
  ASSUME ReplayInv, NEW image, DOMAIN image = Surface(config),
         NEW d, Publish(image, d),
         \/ d.full = TRUE
         \/ /\ d.full = FALSE /\ frames > 0
            /\ Follows(d, image, screen, config),
         config.backend # "cpu" => Acceptable(d, config),
         TrackerInv', MovedInv'
  PROVE  ReplayInv'
<1>1. /\ Capturable(config) /\ frames \in Nat
      /\ frames > 0 => copy = Render(config, screen)
  BY DEF ReplayInv
<1>2. /\ screen' = image /\ damage' = d /\ base' = copy /\ config' = config
      /\ frames' = frames + 1 /\ copy' = Render(config, image)
  BY <1>1, Published
<1>3. Capturable(config)' /\ AcceptedInv'
  BY <1>1, <1>2 DEF AcceptedInv, Capturable
<1>4. DOMAIN screen' = Surface(config') /\ frames' \in Nat
  BY <1>1, <1>2
<1>5. copy' = Render(config', screen')
  BY <1>2
<1> QED BY <1>3, <1>4, <1>5 DEF ReplayInv

-----------------------------------------------------------------------------
(* The invariant holds at first, and every action keeps it.                *)

\* It holds at first.
LEMMA ReplayInit == Init => ReplayInv
<1> SUFFICES ASSUME Init
             PROVE  ReplayInv
  OBVIOUS
<1>1. /\ Capturable(config) /\ frames = 0 /\ DOMAIN screen = Surface(config)
      /\ damage = NoDamage /\ moved = <<>> /\ tracker = NoBaseline
  BY DEF Init, Capturable
<1>2. Acceptable(NoDamage, config)
  BY <1>1, NothingBuilt, BuiltAcceptable
<1> QED BY <1>1, <1>2 DEF ReplayInv, TrackerInv, AcceptedInv, MovedInv

\* first_frame: whole damage.
LEMMA FirstFrameKeeps ==
  ASSUME ReplayInv, FirstFrame
  PROVE  ReplayInv'
<1> DEFINE d == FullDamage(config, FALSE)
<1>1. /\ Capturable(config) /\ DOMAIN screen = Surface(config)
      /\ config.backend # "cpu" /\ Publish(screen, d) /\ moved' = <<>>
  BY DEF ReplayInv, FirstFrame
<1>2. Acceptable(d, config) /\ d.full = TRUE
  BY <1>1, FullAcceptable DEF IsFull
<1> HIDE DEF d
<1>3. config' = config
  BY <1>1 DEF Publish
<1>4. TrackerInv' /\ MovedInv'
  BY <1>1, <1>3 DEF TrackerInv, MovedInv
<1> QED BY <1>1, <1>2, <1>4, FramePublished

\* process_frame: build_damage.
LEMMA DuplicatedFrameKeeps ==
  ASSUME ReplayInv, DuplicatedFrame
  PROVE  ReplayInv'
<1>1. /\ Capturable(config) /\ DOMAIN screen = Surface(config)
      /\ config.backend = "duplication" /\ frames \in 1 .. MaxFrames
  BY DEF ReplayInv, DuplicatedFrame
<1>2. PICK report \in DuplicatedFrames(config) :
        Publish(AfterDirt(Dirtied(report[2], screen),
                          AfterMoves(report[1], screen)),
                BuildDamage(report[1], report[2], config))
  BY DEF DuplicatedFrame
<1> DEFINE moves == report[1]
           dirty == report[2]
           mid == AfterMoves(moves, screen)
           image == AfterDirt(Dirtied(dirty, screen), mid)
           d == BuildDamage(moves, dirty, config)
<1>3. moves \in Seq(SurfaceMoves) /\ dirty \in Seq(RectType)
  BY <1>1, ReportsTyped
<1>4. Publish(image, d)
  BY <1>2
<1> HIDE DEF moves, dirty
<1>5. IsFull(d, config) \/ Accounts(d, moves, dirty, config)
  BY <1>1, <1>3, BuildDamageAccounts
<1>6. DOMAIN mid = DOMAIN screen
  BY MovesImage
<1>7. \A q \in DOMAIN screen : mid[q] = screen[Landed(moves, Len(moves), q)]
  BY <1>3, AfterMovesLanded
<1> HIDE DEF mid
<1>8. /\ DOMAIN image = Surface(config)
      /\ \A q \in Surface(config) :
           (\A i \in 1 .. Len(dirty) : ~Covers(dirty[i], q)) => image[q] = mid[q]
  BY <1>1, <1>3, <1>6, DirtImage
<1> HIDE DEF image, d
<1>9. Evolves(config, moves, dirty, screen, image)
  BY <1>1, <1>7, <1>8 DEF Evolves
<1>10. /\ Acceptable(d, config)
       /\ d.full = TRUE \/ (d.full = FALSE /\ Follows(d, image, screen, config))
  BY <1>1, <1>5, <1>9, AccountedFrame
<1>11. config' = config /\ frames > 0
  BY <1>1, <1>4, FramesAssumption DEF Publish
<1>12. TrackerInv' /\ MovedInv'
  BY <1>1, <1>11 DEF TrackerInv, MovedInv
<1> QED BY <1>4, <1>8, <1>10, <1>11, <1>12, FramePublished

\* handle_frame: current_damage.
LEMMA CapturedFrameKeeps ==
  ASSUME ReplayInv, CapturedFrame
  PROVE  ReplayInv'
<1>1. /\ Capturable(config) /\ DOMAIN screen = Surface(config)
      /\ config.backend = "wgc" /\ frames \in 1 .. MaxFrames /\ moved' = <<>>
  BY DEF ReplayInv, CapturedFrame
<1>2. PICK dirty \in SourceDirt(config) :
        Publish(AfterDirt(Dirtied(dirty, screen), screen),
                CurrentDamage(dirty, config))
  BY DEF CapturedFrame
<1> DEFINE image == AfterDirt(Dirtied(dirty, screen), screen)
           d == CurrentDamage(dirty, config)
<1>3. dirty \in Seq(RectType) /\ config.rotation = 0
  BY <1>1, ReportsTyped, CapturesAssumption DEF Capturable
<1>4. IsFull(d, config) \/ Accounts(d, <<>>, dirty, config)
  BY <1>1, <1>3, CapturedAccounts
<1>5. /\ DOMAIN image = Surface(config)
      /\ \A q \in Surface(config) :
           (\A i \in 1 .. Len(dirty) : ~Covers(dirty[i], q))
             => image[q] = screen[q]
  BY <1>1, <1>3, DirtImage
<1>6. Publish(image, d)
  BY <1>2
<1> HIDE DEF image, d
<1>7. \A q \in Surface(config) : Landed(<<>>, Len(<<>>), q) = q
  BY NothingBrought
<1>8. Evolves(config, <<>>, dirty, screen, image)
  BY <1>5, <1>7 DEF Evolves
<1>9. /\ Acceptable(d, config)
      /\ d.full = TRUE \/ (d.full = FALSE /\ Follows(d, image, screen, config))
  BY <1>1, <1>4, <1>8, AccountedFrame
<1>10. config' = config /\ frames > 0
  BY <1>1, <1>6, FramesAssumption DEF Publish
<1>11. TrackerInv' /\ MovedInv'
  BY <1>1, <1>10 DEF TrackerInv, MovedInv
<1> QED BY <1>5, <1>6, <1>9, <1>10, <1>11, FramePublished

\* handle_frame, of what scrolled: all of it is dirty.
LEMMA ScrolledFrameKeeps ==
  ASSUME ReplayInv, ScrolledFrame
  PROVE  ReplayInv'
<1>1. /\ Capturable(config) /\ DOMAIN screen = Surface(config)
      /\ config.backend = "wgc" /\ frames \in 1 .. MaxFrames /\ frames \in Nat
      /\ frames > 0 => copy = Render(config, screen)
  BY DEF ReplayInv, ScrolledFrame
<1>2. PICK report \in DuplicatedFrames(config) :
        /\ Len(report[1]) = 1
        /\ Publish(AfterMoves(report[1], screen),
                   CurrentDamage(<<report[1][1].to>>, config))
        /\ moved' = report[1]
  BY DEF ScrolledFrame
<1> DEFINE moves == report[1]
           image == AfterMoves(moves, screen)
           d == CurrentDamage(<<moves[1].to>>, config)
<1>3. moves \in Seq(SurfaceMoves) /\ config.rotation = 0
  BY <1>1, ReportsTyped, CapturesAssumption DEF Capturable
<1>4. Len(moves) = 1 /\ Publish(image, d) /\ moved' = moves
  BY <1>2
<1> HIDE DEF moves
<1>5. IsFull(d, config) \/ Accounts(d, moves, <<>>, config)
  BY <1>1, <1>3, <1>4, ScrolledAccounts
<1>6. DOMAIN image = Surface(config)
  BY <1>1, MovesImage
<1>7. \A q \in DOMAIN screen : image[q] = screen[Landed(moves, Len(moves), q)]
  BY <1>3, AfterMovesLanded
<1>8. moves = <<moves[1]>> /\ moves[1] \in SurfaceMoves
  BY <1>3, <1>4
<1>9. image = AfterMoves(<<moves[1]>>, screen)
  BY <1>8
<1> HIDE DEF image, d
<1>10. Evolves(config, moves, <<>>, screen, image)
  BY <1>1, <1>7 DEF Evolves
<1>11. /\ Acceptable(d, config)
       /\ d.full = TRUE \/ (d.full = FALSE /\ Follows(d, image, screen, config))
  BY <1>1, <1>5, <1>10, AccountedFrame
<1>12. /\ config' = config /\ frames > 0 /\ frames' > 0
       /\ base' = copy /\ screen' = image
  BY <1>1, <1>4, FramesAssumption DEF Publish
<1>13. TrackerInv'
  BY <1>1, <1>12 DEF TrackerInv
<1>14. MovedInv'
  <2>1. MovedBy(moves[1])'
    BY <1>1, <1>9, <1>12 DEF MovedBy
  <2> QED BY <1>4, <1>8, <1>12, <2>1 DEF MovedInv
<1> QED BY <1>4, <1>6, <1>11, <1>12, <1>13, <1>14, FramePublished

\* Amended damage is acceptable still.
LEMMA AmendedAcceptable ==
  ASSUME NEW c, Capturable(c), NEW d, Acceptable(d, c),
         NEW moves \in Seq(MoveRects(c)), Len(moves) <= 1
  PROVE  Acceptable([d EXCEPT !.moves = moves], c)
<1> DEFINE e == [d EXCEPT !.moves = moves]
<1>1. d = [dirty |-> d.dirty, moves |-> d.moves, full |-> d.full,
           overflow |-> d.overflow]
  BY DEF Acceptable
<1>2. e = [dirty |-> d.dirty, moves |-> moves, full |-> d.full,
           overflow |-> d.overflow]
  BY <1>1
<1> HIDE DEF e
<1>3. /\ e.dirty = d.dirty /\ e.moves = moves /\ e.full = d.full
      /\ e.overflow = d.overflow
  BY <1>2
<1>4. GeometryOf(c).ow = c.out.w /\ GeometryOf(c).oh = c.out.h
  BY CaptureExtents
<1>5. \A i \in DOMAIN moves : moves[i] \in MoveRects(c)
  OBVIOUS
<1>6. \A i \in DOMAIN moves :
        /\ ValidBusRect(moves[i].to, c)
        /\ ValidBusRect(Rect(moves[i].x, moves[i].y, moves[i].to.w,
                             moves[i].to.h), c)
  BY <1>4, <1>5 DEF MoveRects, Publishable, ValidBusRect
<1>7. Len(moves) <= MaxMoveRects
  <2>1. Len(moves) \in Nat
    OBVIOUS
  <2> QED BY <2>1, RectsAssumption
<1>8. BusAccepts(e, c)
  BY <1>3, <1>6, <1>7 DEF BusAccepts, Acceptable
<1> QED BY <1>2, <1>3, <1>8 DEF Acceptable, e

\* drain_move_results_locked: the move replayed over the image of its frame.
LEMMA InferredMoveKeeps ==
  ASSUME ReplayInv, InferredMove
  PROVE  ReplayInv'
<1> DEFINE m == moved[1]
           to == InferredTo(m, config)
           moves == AmendedMoves(<<Inferred(m, config)>>, config)
<1>1. /\ Capturable(config) /\ DOMAIN screen = Surface(config) /\ frames \in Nat
      /\ config.backend = "wgc" /\ frames > 0 /\ copy = Render(config, screen)
      /\ m \in SurfaceMoves /\ MovedBy(m) /\ Acceptable(damage, config)
  BY DEF ReplayInv, InferredMove, MovedInv, AcceptedInv
<1>2. /\ InBounds(to, config.region.w, config.region.h)
      /\ damage' = [damage EXCEPT !.moves = moves]
      /\ copy' = ReplayMoves(moves, base, copy, config)
      /\ moved' = <<>>
      /\ UNCHANGED <<config, screen, base, tracker, cursor, frames>>
  BY DEF InferredMove, Inferred, InferredTo, Move
<1>3. config.rotation = 0 /\ config.region \in RectType
  BY <1>1, CapturesAssumption DEF Capturable
<1> HIDE DEF m
<1>4. to \in RectType
  BY <1>1, <1>3 DEF InferredTo, SurfaceMoves, RectType, Rect
<1>5. PICK prev : /\ DOMAIN prev = Surface(config)
                  /\ base = Render(config, prev)
                  /\ screen = AfterMoves(<<m>>, prev)
  BY <1>1 DEF MovedBy
<1>6. /\ moves \in Seq(MoveRects(config)) /\ Len(moves) <= 1
      /\ ReplayMoves(moves, Render(config, prev), Render(config, screen), config)
           = Render(config, screen)
  BY <1>1, <1>3, <1>4, <1>5, InferredRenders
<1> HIDE DEF moves
<1>7. copy' = Render(config', screen')
  BY <1>1, <1>2, <1>5, <1>6
<1>8. Acceptable(damage', config)
  BY <1>1, <1>2, <1>6, AmendedAcceptable
<1>9. AcceptedInv' /\ TrackerInv' /\ MovedInv'
  BY <1>1, <1>2, <1>8 DEF AcceptedInv, TrackerInv, MovedInv
<1> QED BY <1>1, <1>2, <1>7, <1>9 DEF ReplayInv, Capturable

\* capture_into: the tracker has the hashes of the frame before.
LEMMA TrackedFrameKeeps ==
  ASSUME ReplayInv, TrackedFrame
  PROVE  ReplayInv'
<1> DEFINE w == config.surface.w
           h == config.surface.h
<1>1. /\ Capturable(config) /\ DOMAIN screen = Surface(config)
      /\ config.backend = "cpu" /\ frames \in Nat /\ moved' = <<>>
      /\ tracker = IF frames = 0 THEN NoBaseline ELSE TileHashes(screen, w, h)
  BY DEF ReplayInv, TrackerInv, TrackedFrame
<1>2. PICK set \in TileChanges(config) :
        /\ tracker' = TileHashes(AfterDirt(set, screen), w, h)
        /\ Publish(AfterDirt(set, screen),
                   [NoDamage EXCEPT !.dirty = Analyze(tracker,
                                        AfterDirt(set, screen), w, h),
                                    !.full = tracker = NoBaseline])
  BY DEF TrackedFrame
<1> DEFINE image == AfterDirt(set, screen)
           dirty == Analyze(tracker, image, w, h)
           full == tracker = NoBaseline
           d == [NoDamage EXCEPT !.dirty = dirty, !.full = full]
<1>3. Publish(image, d) /\ tracker' = TileHashes(image, w, h)
  BY <1>2
<1>4. DOMAIN image = Surface(config)
  BY <1>1 DEF AfterDirt
<1>5. frames > 0 => dirty = Analyze(TileHashes(screen, w, h), image, w, h)
  BY <1>1
<1>6. full \in BOOLEAN /\ (~full => frames > 0)
  BY <1>1
<1> HIDE DEF image, dirty, full
<1>7. d.dirty = dirty /\ d.moves = <<>> /\ d.full = full
  BY DEF NoDamage
<1> HIDE DEF d
<1>8. \/ d.full = TRUE
      \/ d.full = FALSE /\ frames > 0 /\ Follows(d, image, screen, config)
  <2>1. CASE full
    BY <1>7, <2>1
  <2>2. CASE ~full
    <3>1. d.full = FALSE /\ frames > 0
      BY <1>6, <1>7, <2>2
    <3>2. d.moves = <<>> /\ d.dirty = Analyze(TileHashes(screen, w, h), image, w, h)
      BY <1>5, <1>7, <3>1
    <3>3. Follows(d, image, screen, config)
      BY <1>1, <3>2, TrackedFollows
    <3> QED BY <3>1, <3>3
  <2> QED BY <2>1, <2>2
<1>9. config' = config /\ frames' = frames + 1 /\ screen' = image
  BY <1>3 DEF Publish
<1>10. TrackerInv' /\ MovedInv'
  BY <1>1, <1>3, <1>9 DEF TrackerInv, MovedInv
<1> QED BY <1>1, <1>3, <1>4, <1>8, <1>10, FramePublished

\* build_cursor: a frame in which nothing but the pointer moved.
LEMMA PointerFrameKeeps ==
  ASSUME ReplayInv, PointerFrame
  PROVE  ReplayInv'
<1> DEFINE d == IF config.backend = "duplication"
                THEN BuildDamage(<<>>, <<>>, config)
                ELSE CurrentDamage(<<>>, config)
<1>1. /\ Capturable(config) /\ DOMAIN screen = Surface(config)
      /\ frames \in 1 .. MaxFrames /\ moved' = <<>> /\ UNCHANGED tracker
      /\ Publish(screen, d) /\ TrackerInv
  BY DEF ReplayInv, PointerFrame
<1>2. IsFull(d, config) \/ Accounts(d, <<>>, <<>>, config)
  <2>1. CASE config.backend = "duplication"
    <3>1. <<>> \in Seq(SurfaceMoves) /\ <<>> \in Seq(RectType)
      OBVIOUS
    <3>2. d = BuildDamage(<<>>, <<>>, config)
      BY <2>1
    <3> HIDE DEF d
    <3> QED BY <1>1, <3>1, <3>2, BuildDamageAccounts
  <2>2. CASE config.backend # "duplication"
    <3>1. <<>> \in Seq(RectType)
      OBVIOUS
    <3>2. d = CurrentDamage(<<>>, config) /\ config.rotation = 0
      BY <1>1, <2>2, CapturesAssumption DEF Capturable
    <3> HIDE DEF d
    <3> QED BY <1>1, <3>1, <3>2, CapturedAccounts
  <2> QED BY <2>1, <2>2
<1> HIDE DEF d
<1>3. Evolves(config, <<>>, <<>>, screen, screen)
  <2>1. \A q \in Surface(config) : Landed(<<>>, Len(<<>>), q) = q
    BY NothingBrought
  <2> QED BY <2>1 DEF Evolves
<1>4. /\ Acceptable(d, config)
      /\ d.full = TRUE \/ (d.full = FALSE /\ Follows(d, screen, screen, config))
  BY <1>1, <1>2, <1>3, AccountedFrame
<1>5. config' = config /\ frames > 0 /\ frames' > 0 /\ screen' = screen
  BY <1>1, FramesAssumption DEF Publish
<1>6. TrackerInv' /\ MovedInv'
  BY <1>1, <1>5 DEF TrackerInv, MovedInv
<1> QED BY <1>1, <1>4, <1>5, <1>6, FramePublished

-----------------------------------------------------------------------------
(* The theorems.                                                           *)

\* The inductive invariant: the consumer's copy is the screen, the tracker's
\* hashes are the last frame's, the damage is acceptable, and what may still
\* be inferred is what made the screen (Publish, InferredMove).
THEOREM ReplayHolds == Spec => []ReplayInv
<1>1. ReplayInv /\ [Next]_vars => ReplayInv'
  <2> SUFFICES ASSUME ReplayInv, [Next]_vars
               PROVE  ReplayInv'
    OBVIOUS
  <2>1. CASE FirstFrame
    BY <2>1, FirstFrameKeeps
  <2>2. CASE DuplicatedFrame
    BY <2>2, DuplicatedFrameKeeps
  <2>3. CASE CapturedFrame
    BY <2>3, CapturedFrameKeeps
  <2>4. CASE ScrolledFrame
    BY <2>4, ScrolledFrameKeeps
  <2>5. CASE InferredMove
    BY <2>5, InferredMoveKeeps
  <2>6. CASE TrackedFrame
    BY <2>6, TrackedFrameKeeps
  <2>7. CASE PointerFrame
    BY <2>7, PointerFrameKeeps
  <2>8. CASE UNCHANGED vars
    BY <2>8 DEF vars, ReplayInv, Capturable, TrackerInv, AcceptedInv, MovedInv,
       MovedBy
  <2> QED BY <2>1, <2>2, <2>3, <2>4, <2>5, <2>6, <2>7, <2>8 DEF Next
<1> QED BY <1>1, ReplayInit, PTL DEF Spec

\* A consumer that only replays the damage of each frame has the image of the
\* frame, whatever is captured, moves, becomes dirty or is inferred later
\* (side_data_geometry.hpp, build_damage, current_damage, analyze).
THEOREM FramesReplayed == Spec => []DamageReplays
<1>1. ReplayInv => DamageReplays
  BY DEF ReplayInv, DamageReplays
<1> QED BY <1>1, ReplayHolds, PTL

\* No back end builds damage that the bus refuses (normalize_side_data).
THEOREM DamageIsAccepted == Spec => []DamageAccepted
<1>1. ReplayInv => DamageAccepted
  BY DEF ReplayInv, AcceptedInv, Acceptable, DamageAccepted
<1> QED BY <1>1, ReplayHolds, PTL

=============================================================================
