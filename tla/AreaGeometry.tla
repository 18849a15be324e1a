---------------------------- MODULE AreaGeometry ----------------------------
(***************************************************************************)
(* How the screen is divided into areas (areas_dlg.py, configAreas): the   *)
(* corners, the centre and up to MaxSide areas along each border, as       *)
(* polygons in the analyze window, which a factor brings to the canvas.    *)
(* Every division is the integer division of Python 2.                     *)
(***************************************************************************)
EXTENDS Integers, SequencesExt

CONSTANTS
    Unit,               \* the analyze window is (analyzeSize + 1) * Unit wide
    ScreenWidth, ScreenHeight,
    MaxSide,            \* bound: areas along one border, corners not counted
    Overscans, AnalyzeSizes     \* what the sheet offers

GeometryAssumption ==
    /\ Unit \in Nat \ {0} /\ ScreenWidth \in Nat \ {0} /\ ScreenHeight \in Nat \ {0}
    /\ MaxSide \in Nat
    /\ Overscans \subseteq 0..200 /\ AnalyzeSizes \subseteq Nat

VARIABLES numAreas, overscan, analyzeSize

vars == <<numAreas, overscan, analyzeSize>>

Corners == {"TopLeft", "TopRight", "BottomLeft", "BottomRight"}
Sides == {"Top", "Bottom", "Left", "Right"}
Names == Corners \cup Sides \cup {"Center"}
MAX_AREAS == [a \in Names |-> IF a \in Sides THEN MaxSide ELSE 1]

n(a) == numAreas[a]
width == ScreenWidth - 2 * ((ScreenWidth * overscan) \div 1000)
aWidth == (analyzeSize + 1) * Unit
aHeight == (aWidth * ScreenHeight) \div ScreenWidth

-----------------------------------------------------------------------------
(* Sizes.                                                                  *)

\* A side from left to right or from top to bottom: its length, the corners
\* at its two ends, and the number of areas that share it.
CornersOf == [Top    |-> <<"TopLeft", "TopRight">>,
              Bottom |-> <<"BottomLeft", "BottomRight">>,
              Left   |-> <<"TopLeft", "BottomLeft">>,
              Right  |-> <<"TopRight", "BottomRight">>]
Length(s) == IF s \in {"Top", "Bottom"} THEN aWidth ELSE aHeight
First(s) == n(CornersOf[s][1])
Final(s) == n(CornersOf[s][2])
Total(s) == n(s) + First(s) + Final(s)

\* Where the k-th area of a side ends; 0 for a side without areas.
Cut_Rounded(s, k) == IF Total(s) = 0 THEN 0 ELSE (Length(s) \div Total(s)) * k
Cut(s, k) == IF Total(s) = 0 THEN 0 ELSE (Length(s) * k) \div Total(s)
Size(s) == Cut(s, 1)
Rest(s) == Cut(s, Total(s) - 1)

\* The depth of the areas of a side: half of the window, but no more than the
\* first or the last area of the sides next to it.
Shallowest_Half(half, sizes) == half
Shallowest(half, sizes) == Min({half} \cup (sizes \ {0}))
topSizeY == Shallowest(aHeight \div 2, {Size("Left"), Size("Right")})
bottomSizeY == Max({aHeight - (aHeight \div 2), Rest("Left"), Rest("Right")})
leftSizeX == Shallowest(aWidth \div 2, {Size("Top"), Size("Bottom")})
rightSizeX == Max({aWidth - (aWidth \div 2), Rest("Top"), Rest("Bottom")})

-----------------------------------------------------------------------------
(* Polygons.                                                               *)

\* An area of a side, along that side: from and to at the border of the
\* screen, in and out at its depth.  A lone area behind no corner, and the
\* outer areas of a side without a corner, are cut towards the next side;
\* inner tells the others.
Strip(s, i) ==
    LET k == n(s)
        near == IF s \in {"Top", "Bottom"} THEN leftSizeX ELSE topSizeY
        far == IF s \in {"Top", "Bottom"} THEN rightSizeX ELSE bottomSizeY
        strip(f, t, fi, ti, in) ==
            [from |-> f, to |-> t, fromIn |-> fi, toIn |-> ti, inner |-> in]
    IN  CASE k = 1 /\ First(s) = 0 -> strip(0, Length(s), near, far, FALSE)
          [] k > 1 /\ i = 1 /\ First(s) = 0 -> strip(0, Size(s), near, Size(s), FALSE)
          [] k > 1 /\ i = k /\ Final(s) = 0 ->
                strip(Rest(s), Length(s), Rest(s), far, FALSE)
          [] OTHER -> LET a == Cut(s, i - 1 + First(s))
                          b == Cut(s, i + First(s))
                      IN  strip(a, b, a, b, TRUE)

\* The inner areas of the right side reach to the width of the canvas instead
\* of the analyze window.
SidePolygon(s, i) ==
    LET p == Strip(s, i)
        across(u, v) == <<<<p.from, u>>, <<p.to, u>>, <<p.toIn, v>>, <<p.fromIn, v>>>>
        down(u, v) == <<<<u, p.from>>, <<u, p.to>>, <<v, p.toIn>>, <<v, p.fromIn>>>>
    IN  CASE s = "Top" -> across(0, topSizeY)
          [] s = "Bottom" -> across(aHeight, bottomSizeY)
          [] s = "Left" -> down(0, leftSizeX)
          [] s = "Right" -> down(IF p.inner THEN width ELSE aWidth, rightSizeX)

\* A corner covers the end of both of its sides, in the depth of each: from
\* the corner <<x, y>> along one side to px, along the other to py.
CornerPolygon(c) ==
    LET shape(x, px, dx, y, py, dy) ==
            <<<<x, y>>, <<px, y>>, <<px, dy>>, <<dx, dy>>, <<dx, py>>, <<x, py>>>>
    IN  CASE c = "TopLeft" ->
                shape(0, Size("Top"), leftSizeX, 0, Size("Left"), topSizeY)
          [] c = "TopRight" ->
                shape(aWidth, Rest("Top"), rightSizeX, 0, Size("Right"), topSizeY)
          [] c = "BottomLeft" ->
                shape(0, Size("Bottom"), leftSizeX, aHeight, Rest("Left"), bottomSizeY)
          [] c = "BottomRight" ->
                shape(aWidth, Rest("Bottom"), rightSizeX, aHeight, Rest("Right"),
                      bottomSizeY)

CenterPolygon ==
    <<<<leftSizeX, topSizeY>>, <<rightSizeX, topSizeY>>,
      <<rightSizeX, bottomSizeY>>, <<leftSizeX, bottomSizeY>>>>

\* The areas on the screen, by name and number.
ShownAreas == {q \in Names \X (1..(MaxSide + 1)) : q[2] <= n(q[1])}
Polygon(a, i) ==
    IF a \in Sides THEN SidePolygon(a, i)
    ELSE IF a = "Center" THEN CenterPolygon ELSE CornerPolygon(a)

-----------------------------------------------------------------------------
(* The sheet applies a layout; one entry has changed since the last time.  *)

TypeOK ==
    /\ numAreas \in [Names -> Nat]
    /\ \A a \in Names : numAreas[a] <= MAX_AREAS[a]
    /\ overscan \in Overscans /\ analyzeSize \in AnalyzeSizes
    /\ leftSizeX <= rightSizeX /\ topSizeY <= bottomSizeY

Init ==
    /\ numAreas = [a \in Names |-> 0]
    /\ overscan \in Overscans /\ analyzeSize \in AnalyzeSizes

\* A spin box goes from 0 to the maximum of its area.
Steps_Unlimited(a) == {numAreas[a] - 1, numAreas[a] + 1} \cap Nat
Steps(a) == {numAreas[a] - 1, numAreas[a] + 1} \cap (0..MAX_AREAS[a])

configAreas ==
    \/ \E a \in Names : \E v \in Steps(a) :
          /\ numAreas' = [numAreas EXCEPT ![a] = v]
          /\ UNCHANGED <<overscan, analyzeSize>>
    \/ /\ overscan' \in Overscans /\ analyzeSize' \in AnalyzeSizes
       /\ UNCHANGED numAreas

Spec == Init /\ [][configAreas]_vars

-----------------------------------------------------------------------------
(* Properties.                                                             *)

\* The areas at a side of the screen, in their order: intervals of the side.
Along(s) ==
    (IF First(s) > 0 THEN <<<<0, Size(s)>>>> ELSE <<>>)
    \o [i \in 1..n(s) |-> <<Strip(s, i).from, Strip(s, i).to>>]
    \o (IF Final(s) > 0 THEN <<<<Rest(s), Length(s)>>>> ELSE <<>>)

Divides(row, length) ==
    /\ row[1][1] = 0 /\ Last(row)[2] = length
    /\ \A i \in 1..(Len(row) - 1) : row[i][2] = row[i + 1][1]

\* "Calculate area width for each border" (areas_dlg.py:99): the areas of a
\* side share its length, each from where the one before it ends.  The
\* exception is a lone area with a corner at its far end and none at its near
\* end, which gets the whole side (areas_dlg.py:161, 186, 210 and 232).
SideIsDivided ==
    \A s \in Sides :
        LET lone == n(s) = 1 /\ First(s) = 0 /\ Final(s) = 1
        IN  Total(s) > 0 /\ ~lone => Divides(Along(s), Length(s))

\* Does the ray from the point (in half units) to the right cross the edge?
Crosses(x, y, a, b) ==
    LET d == 2 * (b[2] - a[2])
        u == (x - 2 * a[1]) * d
        v == (y - 2 * a[2]) * 2 * (b[1] - a[1])
    IN  /\ (2 * a[2] > y) # (2 * b[2] > y)
        /\ IF d > 0 THEN u < v ELSE u > v
InArea(x, y, p) ==
    LET next(k) == IF k = Len(p) THEN p[1] ELSE p[k + 1]
    IN  Cardinality({k \in DOMAIN p : Crosses(x, y, p[k], next(k))}) % 2 = 1
Covering(polygons, x, y) ==
    Cardinality({q \in polygons : InArea(x, y, q[2])})

Points == {2 * i + 1 : i \in 0..(aWidth - 1)} \X {2 * j + 1 : j \in 0..(aHeight - 1)}

\* With at least three areas at each side, its corners counted, or none, no
\* two areas overlap, whatever the rounding of the sizes: the middle of each
\* pixel lies in at most one of them.  With no side empty and a centre the
\* areas are a tiling of the window: each lies in exactly one.
AreasTile ==
    (\A s \in Sides : Total(s) >= 3 \/ Total(s) = 0) =>
        LET full == n("Center") = 1 /\ \A s \in Sides : Total(s) # 0
            polygons == {<<a, Polygon(a[1], a[2])>> : a \in ShownAreas}
        IN  \A p \in Points :
                LET k == Covering(polygons, p[1], p[2]) IN k <= 1 /\ (full => k = 1)

\* Each side, and the whole window, is divided.
ScreenIsDivided == SideIsDivided /\ AreasTile

=============================================================================
