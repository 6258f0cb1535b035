------------------------------ MODULE ShapeLaws ------------------------------
(* Questions about flat shapes, curves and collisions, and their answers.    *)
EXTENDS Shapes, FiniteSets

CONSTANTS
    Figures,        \* what is filled and outlined: records with a kind
    Controls,       \* points that curves are drawn through
    Recs,           \* rectangles
    Places          \* points

VARIABLE asked

AskFigure == \E f \in Figures : asked' = [kind |-> "figure", figure |-> f]

AskCurve ==
    \E p \in [1..4 -> Controls], by \in Controls :
        asked' = [kind |-> "curve", p |-> p, by |-> by]

AskCollision ==
    \E r \in Recs, other \in Recs, p \in [1..3 -> Places], radius \in 0..2 :
        asked' = [kind |-> "collision", r |-> r, other |-> other, p |-> p, radius |-> radius]
-----------------------------------------------------------------------------
(* Triangles and lines as drawn. *)

\* Twice the area, positive for a triangle whose front is seen: rlgl culls
\* the others, and y goes down the screen.
TwiceArea(t) == (t[3][1] - t[1][1]) * (t[2][2] - t[1][2]) - (t[2][1] - t[1][1]) * (t[3][2] - t[1][2])

Seen(triangles) == SelectSeq(triangles, LAMBDA t : TwiceArea(t) > 0)

Area(triangles) == FoldLeft(LAMBDA sum, t : sum + TwiceArea(t), 0, Seen(triangles))

\* The sides of triangles, in their direction.
Edges(triangles) ==
    FlattenSeq([i \in DOMAIN triangles |->
        LET t == triangles[i] IN << <<t[1], t[2]>>, <<t[2], t[3]>>, <<t[3], t[1]>> >>])

\* No side is met twice in one direction: triangles that share one lie on both
\* sides of it.
Tiled(triangles) ==
    LET edges == Edges(Seen(triangles)) IN Cardinality(ToSet(edges)) = Len(edges)

\* The sides that belong to one triangle only.
Border(triangles) ==
    LET edges == ToSet(Edges(Seen(triangles)))
    IN  {{e[1], e[2]} : e \in {e \in edges : <<e[2], e[1]>> \notin edges}}

\* The lines that are not drawn over.
Drawn(lines) ==
    {{l[1], l[2]} : l \in {l \in ToSet(lines) :
        Cardinality({i \in DOMAIN lines : {lines[i][1], lines[i][2]} = {l[1], l[2]}}) % 2 = 1}}

Square2(w, h) == 2 * Unit * Unit * w * h

\* Twice the area of a rectangle with round corners of n pieces each.
RoundArea(twiceWidth, twiceHeight, radius, n) ==
    LET piece == TwiceArea(<< <<0, 0>>, Around(<<0, 0>>, 9 \div n, radius), Around(<<0, 0>>, 0, radius)>>)
        corner == IF n = 1 THEN piece
                  ELSE FoldLeft(LAMBDA sum, i : sum + TwiceArea(<< <<0, 0>>,
                           Around(<<0, 0>>, i * (9 \div n), radius),
                           Around(<<0, 0>>, (i - 1) * (9 \div n), radius)>>), 0, [i \in 1..n |-> i])
    IN  2 * (Unit \div 2) * (Unit \div 2) * twiceWidth * twiceHeight
          - 4 * (Square2(radius, radius) - corner)

(* What is filled is what is outlined.  A shape's triangles fit together:   *)
(* seen from the front, each side between two of them and no side twice the *)
(* same way, and the sides left over are the lines of the outline function  *)
(* with the same arguments.  Rectangles, frames, bars and rounded corners   *)
(* have the area their sizes say.  Triangles wound the wrong way, an odd    *)
(* piece left out or swapped angles are invisible in a test that runs.      *)
FillsItsOutline(f) ==
    LET c == f.at
    IN  CASE f.kind = "sector" ->
               LET filled == DrawCircleSector(c, f.radius, f.from, f.to, f.segments)
               IN  Tiled(filled) /\ Border(filled)
                     = Drawn(DrawCircleSectorLines(c, f.radius, f.from, f.to, f.segments))
          [] f.kind = "ring" ->
               LET filled == DrawRing(c, f.inner, f.radius, f.from, f.to, f.segments)
               IN  Tiled(filled) /\ Border(filled)
                     = Drawn(DrawRingLines(c, f.inner, f.radius, f.from, f.to, f.segments))
          [] f.kind = "ellipse" ->
               LET filled == DrawEllipseV(c, f.radius, f.inner)
                   shaded == DrawCircleGradient(c, f.radius, "in", "out")
                   bare == [i \in DOMAIN shaded |-> [k \in 1..3 |-> shaded[i][k][1]]]
               IN  /\ Tiled(filled) /\ Border(filled) = Drawn(DrawEllipseLinesV(c, f.radius, f.inner))
                   /\ Tiled(bare) /\ Border(bare) = Drawn(DrawCircleLinesV(c, f.radius))
                   /\ Border(DrawCircleV(c, f.radius)) = Border(bare)
                   /\ \A t \in ToSet(shaded) : \A k \in 1..3 : (t[k][2] = "in") = (t[k][1] = At(c))
          [] f.kind = "polygon" ->
               LET filled == DrawPoly(c, f.segments, f.radius, f.from)
                   thick == DrawPolyLinesEx(c, f.segments, f.radius, f.from, f.inner)
               IN  /\ Tiled(filled) /\ Border(filled) = Drawn(DrawPolyLines(c, f.segments, f.radius, f.from))
                   /\ Tiled(thick) /\ Border(filled) \subseteq Border(thick)
                   /\ Area(thick) + Area(DrawPoly(c, f.segments, f.radius - f.inner, f.from)) = Area(filled)
          [] f.kind = "triangle" ->
               LET filled == DrawTriangle(f.p[1], f.p[2], f.p[3])
                   front == TwiceArea(f.p) > 0
               IN  /\ Border(filled)
                        = IF front THEN Drawn(DrawTriangleLines(f.p[1], f.p[2], f.p[3])) ELSE {}
                   /\ Border(filled) = Border(DrawTriangleFan(f.p))
                   /\ Area(filled) = Area(DrawTriangleStrip([i \in 1..3 |-> At(f.p[i])]))
          [] f.kind = "line" ->
               LET filled == DrawLineEx(f.p[1], f.p[2], f.inner)
               IN  /\ Tiled(filled) /\ Area(filled) = Square2(f.inner, f.length)
                   /\ Seen(DrawSplineLinear(f.p, f.inner)) = filled \o DrawLineEx(f.p[2], f.p[3], f.inner)
                   /\ filled = DrawSplineSegmentLinear(f.p[1], f.p[2], f.inner)
                   /\ LET strip == DrawLineStrip(f.p)
                      IN  /\ strip = DrawLineV(f.p[1], f.p[2]) \o DrawLineV(f.p[2], f.p[3])
                          /\ \A i \in 2..Len(strip) : strip[i][1] = strip[i - 1][2]
          [] f.kind = "rectangle" ->
               LET r == f.rec
                   bars == DrawRectangleLinesEx(r, f.inner)
                   whole == DrawRectangleRounded(r, <<f.radius, f.segments>>, f.to)
                   frame == DrawRectangleRoundedLinesEx(r, <<f.radius, f.segments>>, f.to, f.inner)
                   round == CornerRadius(r, <<f.radius, f.segments>>)
                   room == 2 * round < Least(r.width, r.height)
                   wide == r.width - 2 * f.inner
                   high == r.height - 2 * f.inner
               IN  /\ \A q \in 0..3 : LET turned == DrawRectanglePro(r, <<1, 2>>, q)
                                      IN  Tiled(turned) /\ Area(turned) = Square2(r.width, r.height)
                   /\ f.inner > r.width \/ f.inner > r.height \/ wide < 0 \/ high < 0
                        \/ Area(bars) = Square2(r.width, r.height) - Square2(wide, high)
                   /\ Len(Seen(bars)) = Len(bars) \/ wide <= 0 \/ high <= 0
                   /\ Tiled(whole)
                   /\ Area(whole) = RoundArea(2 * r.width, 2 * r.height, round, f.to)
                   /\ f.inner > 1 /\ room => /\ Tiled(frame)
                                     /\ Area(frame)
                                          = RoundArea(2 * (r.width + 2 * f.inner) - 2, 2 * (r.height + 2 * f.inner) - 2,
                                                      round + f.inner, f.to)
                                            - RoundArea(2 * r.width - 2, 2 * r.height - 2, round, f.to)
                   /\ f.inner = 1 /\ room => \A l \in ToSet(frame) : \A i \in 1..2 :
                                        Cardinality({m \in ToSet(frame) : l[i] \in {m[1], m[2]}}) = 2
                   /\ \A shades \in {DrawRectangleGradientV(r, "in", "out"), DrawRectangleGradientH(r, "in", "out")} :
                        /\ [i \in DOMAIN shades |-> [k \in 1..3 |-> shades[i][k][1]]] = DrawRectangleRec(r)
                        /\ \A s, t \in ToSet(shades) : \A k, l \in 1..3 :
                             s[k][1] = t[l][1] => s[k][2] = t[l][2]
                   /\ Border(DrawPixelV(<<r.x, r.y>>))
                        = Border(DrawRectangleRec([r EXCEPT !.width = 1, !.height = 1]))
                   /\ LET inner == DrawRectangleRec([r EXCEPT !.width = @ - 1, !.height = @ - 1])
                          half == <<Unit \div 2, Unit \div 2>>
                      IN  Drawn(DrawRectangleLines(r.x, r.y, r.width, r.height))
                            = {{Plus(p, half) : p \in side} : side \in Border(inner)}

ShapesFillTheirOutlines == asked.kind = "figure" => FillsItsOutline(asked.figure)

Backwards(p) == [i \in DOMAIN p |-> p[Len(p) + 1 - i]]
MovedBy(p, by) == [i \in DOMAIN p |-> Plus(p[i], by)]

\* The middles of a strip, between its two corners.
Centres(strip) ==
    [i \in 1..Len(strip) \div 2 |-> IF strip[2 * i] = NotANumber THEN NotANumber ELSE strip[2 * i][1]]

\* What can be seen of a path: not the points that no step leads to.
Visible(path) ==
    [i \in DOMAIN path |-> IF path[Greatest(i, 2)] = path[Greatest(i, 2) - 1] THEN NotANumber ELSE path[i]]

PathOf(p, Get(_, _)) == [k \in 1..Divisions + 1 |-> Get(p, k - 1)]
PathsOf(points, Get(_, _)) == [i \in 1..Len(points) - 3 |-> PathOf(SubSeq(points, i, i + 3), Get)]

\* Whether a spline runs along its paths and each segment goes on from the corners of the one
\* before it; there is a gap just where that one stands still at its end.
Unbroken(drawn, paths) ==
    LET strips == drawn.strips
        first(i) == SubSeq(strips[i], 1, 2)
        last(i) == SubSeq(strips[i], 2 * Divisions + 1, 2 * Divisions + 2)
        still(i) == paths[i][Divisions] = paths[i][Divisions + 1]
    IN  /\ Len(strips) = Len(paths)
        /\ \A i \in DOMAIN strips : Tail(Centres(strips[i])) = Tail(Visible(paths[i]))
        /\ Centres(strips[1]) = Visible(paths[1])
        /\ \A i \in 2..Len(strips) :
             /\ (NotANumber \in ToSet(first(i))) = still(i - 1)
             /\ ~still(i - 1) => first(i) = last(i - 1) /\ Centres(strips[i])[1] = paths[i][1]
        /\ drawn.caps = <<paths[1][1], Last(Last(paths))>>

(* Curves meet what they are drawn through.  A curve moves with its points, *)
(* is the same from its other end, and starts and ends where its kind says; *)
(* a quadratic curve is the cubic one through the same course; its strip    *)
(* runs along the points that the functions of a single point give; and     *)
(* where the segments of a spline meet, the strip goes on from the same two *)
(* corners, without a gap.  The one exception: where two points of a curve  *)
(* in a row are one, as with control points that repeat, nothing is drawn   *)
(* (rshapes.c:1830, 1897), and if they end a segment, neither is the start  *)
(* of the next one (l.1815, 1877).                                          *)
CurvesJoin ==
    asked.kind = "curve" =>
        LET p == asked.p
            back == Backwards(p)
            moved == MovedBy(p, asked.by)
            quad == SubSeq(p, 1, 3)
            D == Divisions
            shift == Times(asked.by, Scale)
            many == p \o MovedBy(back, asked.by)
        IN  /\ \A k \in 0..D :
                 /\ GetSplinePointBasis(p, k) = GetSplinePointBasis(back, D - k)
                 /\ GetSplinePointCatmullRom(p, k) = GetSplinePointCatmullRom(back, D - k)
                 /\ GetSplinePointBezierCubic(p, k) = GetSplinePointBezierCubic(back, D - k)
                 /\ GetSplinePointBezierQuad(quad, k) = GetSplinePointBezierQuad(Backwards(quad), D - k)
                 /\ GetSplinePointBasis(moved, k) = Plus(GetSplinePointBasis(p, k), shift)
                 /\ GetSplinePointCatmullRom(moved, k) = Plus(GetSplinePointCatmullRom(p, k), shift)
                 /\ GetSplinePointBezierCubic(moved, k) = Plus(GetSplinePointBezierCubic(p, k), shift)
                 /\ Times(GetSplinePointBezierQuad(quad, k), 3)
                      = GetSplinePointBezierCubic(<<Times(p[1], 3), Plus(p[1], Times(p[2], 2)),
                                                    Plus(Times(p[2], 2), p[3]), Times(p[3], 3)>>, k)
                 /\ LET a == p[1]
                        b == asked.by
                        third(n) == Plus(Times(a, 3 - n), Times(b, n))
                    IN  GetSplinePointBezierCubic([i \in 1..4 |-> third(i - 1)], k)
                          = Times(GetSplinePointLinear(a, b, k), 3)
            /\ GetSplinePointCatmullRom(p, 0) = Times(p[2], Scale)
            /\ GetSplinePointCatmullRom(p, D) = Times(p[3], Scale)
            /\ Centres(DrawSplineSegmentCatmullRom(p)) = Visible(PathOf(p, GetSplinePointCatmullRom))
            /\ GetSplinePointBezierQuad(quad, 0) = Times(p[1], Scale)
            /\ GetSplinePointBezierQuad(quad, D) = Times(p[3], Scale)
            /\ Centres(DrawSplineSegmentBezierQuadratic(quad)) = Visible(PathOf(quad, GetSplinePointBezierQuad))
            /\ LET line == Centres(DrawLineBezier(p[1], p[2]))
               IN  IF p[1] = p[2] THEN ToSet(line) = {NotANumber}
                   ELSE /\ line[1] = Times(p[1], Scale) /\ Last(line) = Times(p[2], Scale)
                        /\ line = Backwards(Centres(DrawLineBezier(p[2], p[1])))
                        /\ NotANumber \notin ToSet(line)
            /\ Unbroken(DrawSplineBasis(many), PathsOf(many, GetSplinePointBasis))
            /\ Unbroken(DrawSplineCatmullRom(many), PathsOf(many, GetSplinePointCatmullRom))
            /\ DrawSplineBasis(many).strips[1] = DrawSplineSegmentBasis(p)
            /\ LET strips == DrawSplineBezierCubic(many)
                   path(i) == PathOf(SubSeq(many, 3 * i - 2, 3 * i + 1), GetSplinePointBezierCubic)
               IN  /\ Len(strips) = 2
                   /\ \A i \in 1..2 : Centres(strips[i]) = Visible(path(i))
                   /\ Last(path(1)) = path(2)[1]
                   /\ Len(DrawSplineBezierQuadratic(many)) = 3
            /\ \A length \in 0..7, dash \in 0..3, space \in 0..2 :
                 LET lines == DrawLineDashed(p[1], <<0, 1>>, length, dash, space)
                     y(q) == (q[2] - At(p[1])[2]) \div Unit
                 IN  /\ y(lines[1][1]) = 0
                     /\ \A l \in ToSet(lines) : y(l[1]) <= y(l[2]) /\ y(l[2]) <= length
                     /\ Len(lines) > 1 => \A i \in 2..Len(lines) : y(lines[i][1]) = y(lines[i - 1][2]) + space
                     /\ y(Last(lines)[2]) >= length - space

\* Whether r is on the left of the way from p to q, on it (0) or on the right.
Turn(p, q, r) == LET n == (q[1] - p[1]) * (r[2] - p[2]) - (q[2] - p[2]) * (r[1] - p[1])
                 IN  CASE n > 0 -> 1 [] n < 0 -> -1 [] OTHER -> 0

PointsOf(rec) == (rec.x..rec.x + rec.width) \X (rec.y..rec.y + rec.height)

(* Shapes touch when they have a point in common, whichever test is asked   *)
(* and in whichever order: each test of two shapes agrees with the tests of *)
(* their points, and with itself when its arguments change places.          *)
CollisionsAgree ==
    asked.kind = "collision" =>
        LET r == asked.r
            other == asked.other
            a == asked.p[1]
            b == asked.p[2]
            c == asked.p[3]
            n == asked.radius
            common == GetCollisionRec(r, other)
            corners == << <<r.x, r.y>>, <<r.x + r.width, r.y>>, <<r.x + r.width, r.y + r.height>>,
                          <<r.x, r.y + r.height>> >>
            crossing == CheckCollisionLines(a, b, c, <<r.x, r.y>>)
        IN  /\ \A q \in PointsOf(r) \cup PointsOf(other) :
                 CheckCollisionPointRec(q, common)
                   = (CheckCollisionPointRec(q, r) /\ CheckCollisionPointRec(q, other))
            /\ CheckCollisionRecs(r, other) = (common.width > 0)
            /\ CheckCollisionRecs(r, other) = CheckCollisionRecs(other, r)
            /\ CheckCollisionPointPoly(a, corners) = CheckCollisionPointRec(a, r)
            /\ CheckCollisionCircleRec(a, n, r)
                 = \E q \in PointsOf(r) : CheckCollisionPointCircle(q, a, n)
            /\ CheckCollisionCircles(a, n, b, 1) = CheckCollisionPointCircle(b, a, n + 1)
            /\ Turn(a, b, c) # 0 =>
                 \A q \in PointsOf(r) :
                    LET within == CheckCollisionPointTriangle(q, a, b, c)
                        sides == {Turn(a, b, q), Turn(b, c, q), Turn(c, a, q)}
                    IN  /\ within = (sides \in {{1}, {-1}})
                        /\ within => CheckCollisionPointPoly(q, <<a, b, c>>)
                        /\ CheckCollisionPointPoly(q, <<c, b, a>>) => ~({1, -1} \subseteq sides)
            /\ LET d == <<r.x, r.y>>
                   apart == Turn(a, b, c) * Turn(a, b, d) = 1 \/ Turn(c, d, a) * Turn(c, d, b) = 1
                   parallel == (b[1] - a[1]) * (d[2] - c[2]) = (b[2] - a[2]) * (d[1] - c[1])
                   at == crossing.point
               IN  /\ crossing.collision = (~parallel /\ ~apart)
                   /\ CheckCollisionLines(c, d, b, a).collision = crossing.collision
                   /\ crossing.collision =>
                        /\ (b[1] - a[1]) * (at[2] - a[2] * at[3]) = (b[2] - a[2]) * (at[1] - a[1] * at[3])
                        /\ (d[1] - c[1]) * (at[2] - c[2] * at[3]) = (d[2] - c[2]) * (at[1] - c[1] * at[3])
            /\ CheckCollisionPointLine(c, a, b, n) = CheckCollisionPointLine(c, b, a, n)
            /\ a # b /\ n > 0 => CheckCollisionPointLine(a, a, b, n) /\ CheckCollisionPointLine(b, a, b, n)
            /\ LET cross == (b[1] - a[1]) * (c[2] - a[2]) - (b[2] - a[2]) * (c[1] - a[1])
                   along == (b[1] - a[1]) * (c[1] - a[1]) + (b[2] - a[2]) * (c[2] - a[2])
                   long == DistanceSquared(a, b)
               IN  CheckCollisionCircleLine(c, n, a, b)
                     = \/ CheckCollisionPointCircle(a, c, n)
                       \/ CheckCollisionPointCircle(b, c, n)
                       \/ 0 < along /\ along < long /\ Square(cross) <= Square(n) * long
=============================================================================
