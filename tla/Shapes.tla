------------------------------- MODULE Shapes -------------------------------
(***************************************************************************)
(* The flat shapes and the curves of raylib (rshapes.c): which triangles   *)
(* and which lines each function sends, in the order of their corners.     *)
(*                                                                         *)
(* A filled shape is a sequence of triangles: the corners of a quad in the *)
(* order a, b, c, d are the triangles a b c and a c d, as rlgl's index     *)
(* buffer has it.  A drawn outline is a sequence of lines.  Positions and  *)
(* sizes are given in pixels and drawn in Units of a pixel, of which the   *)
(* half pixels and the corners of the circles are whole.  Angles are in    *)
(* tens of degrees, 36 to a turn, and Direction lists whole points of a    *)
(* circle in the place of their cosines and sines, nine to a quarter.      *)
(* Colours matter to gradients only; texture coordinates, the corners of a *)
(* white pixel, are left out.                                              *)
(***************************************************************************)
EXTENDS Numbers, SequencesExt

Unit == 130

At(p) == <<Unit * p[1], Unit * p[2]>>
Plus(p, q)  == <<p[1] + q[1], p[2] + q[2]>>
Minus(p, q) == <<p[1] - q[1], p[2] - q[2]>>
Times(p, n) == <<p[1] * n, p[2] * n>>

LOCAL Quarter == << <<65, 0>>, <<63, 16>>, <<60, 25>>, <<56, 33>>, <<52, 39>>,
                    <<39, 52>>, <<33, 56>>, <<25, 60>>, <<16, 63>> >>

\* The point of the circle of radius half a Unit at an angle.
Direction(angle) ==
    LET p == Quarter[(angle % 9) + 1]
        quarters == (angle % 36) \div 9
    IN  CASE quarters = 0 -> p
          [] quarters = 1 -> <<-p[2], p[1]>>
          [] quarters = 2 -> <<-p[1], -p[2]>>
          [] quarters = 3 -> <<p[2], -p[1]>>

\* From a centre in Units, `radius` pixels along an angle.
Around(center, angle, radius) == Plus(center, Times(Direction(angle), 2 * radius))

Triangles(a, b, c, d) == << <<a, b, c>>, <<a, c, d>> >>

\* What the steps of a loop send, one after the other.
Each(n, Step) == FlattenSeq([i \in 1..n |-> Step[i - 1]])
-----------------------------------------------------------------------------
(* Pixels and lines. *)

DrawPixelV(position) ==
    LET p == At(position)
    IN  Triangles(p, Plus(p, <<0, Unit>>), Plus(p, <<Unit, Unit>>), Plus(p, <<Unit, 0>>))

DrawLineV(startPos, endPos) == << <<At(startPos), At(endPos)>> >>

\* Corners of a strip, in Units: each is a triangle with the two before it.
DrawTriangleStrip(points) ==
    [i \in 1..Greatest(Len(points) - 2, 0) |->
        IF i % 2 = 1 THEN <<points[i + 2], points[i], points[i + 1]>>
                     ELSE <<points[i + 2], points[i + 1], points[i]>>]

\* Both sides of a line whose length, in pixels, is whole; of none, itself.
Sides(startPos, endPos, thick) ==
    LET delta == Minus(endPos, startPos)
        length == CHOOSE l \in 1..(Abs(delta[1]) + Abs(delta[2]) + 1) :
                    delta = <<0, 0>> \/ l * l = delta[1] * delta[1] + delta[2] * delta[2]
        radius == <<(-thick * Unit * delta[2]) \div (2 * length),
                    (thick * Unit * delta[1]) \div (2 * length)>>
    IN  <<Minus(At(startPos), radius), Plus(At(startPos), radius),
          Minus(At(endPos), radius), Plus(At(endPos), radius)>>

DrawLineEx(startPos, endPos, thick) ==
    IF startPos # endPos /\ thick > 0
    THEN DrawTriangleStrip(Sides(startPos, endPos, thick))
    ELSE << >>

DrawLineStrip(points) ==
    IF Len(points) < 2 THEN << >>
    ELSE [i \in 1..Len(points) - 1 |-> <<At(points[i]), At(points[i + 1])>>]

\* A line along an axis, or any whose length is whole, as dashes: the pairs
\* of their distances from the start.
Dashes(lineLength, dashSize, spaceSize) ==
    LET dash[d \in Nat] ==
            IF d >= lineLength THEN << >>
            ELSE << <<d, Least(d + dashSize, lineLength)>> >>
                   \o dash[Least(d + dashSize, lineLength) + spaceSize]
    IN  dash[0]

DrawLineDashed(startPos, direction, lineLength, dashSize, spaceSize) ==
    LET along(d) == Plus(startPos, Times(direction, d))
        dashes == Dashes(lineLength, dashSize, spaceSize)
    IN  IF lineLength < dashSize + spaceSize \/ dashSize <= 0
        THEN DrawLineV(startPos, along(lineLength))
        ELSE [i \in DOMAIN dashes |-> <<At(along(dashes[i][1])), At(along(dashes[i][2]))>>]
-----------------------------------------------------------------------------
(* Circles, their parts, and rings. *)

\* How many sides a smooth circle has: ceil(2 pi/acos(2(1 - 0.5/radius)^2 - 1)).
Smooth == <<3, 5, 6, 7, 7>>

\* How many pieces to draw between two angles: what was asked, or enough for
\* a smooth curve when that is less than one for each quarter turn.
Pieces(radius, startAngle, endAngle, segments) ==
    LET minSegments == -((startAngle - endAngle) \div 9)
        smooth == ((endAngle - startAngle) * Smooth[radius]) \div 36
    IN  CASE segments >= minSegments -> segments
          [] smooth > 0 -> smooth
          [] OTHER -> minSegments

FanOfPairs(center, radius, from, step, segments) == \* seeded fault
    LET along(angle) == Around(center, angle, radius)
        pair(i) == Triangles(center, along(from + (2 * i + 2) * step), along(from + (2 * i + 1) * step),
                             along(from + 2 * i * step))
    IN  Each(segments \div 2, [i \in 0..segments |-> pair(i)])

\* Two pieces to a quad; an odd piece is a quad whose last corner is its first.
Fan(center, radius, from, step, segments) ==
    LET along(angle) == Around(center, angle, radius)
        pair(i) == Triangles(center, along(from + (2 * i + 2) * step), along(from + (2 * i + 1) * step),
                             along(from + 2 * i * step))
        last == Triangles(center, along(from + segments * step),
                          along(from + (segments - 1) * step), center)
    IN  Each(segments \div 2, [i \in 0..segments |-> pair(i)])
          \o (IF segments % 2 = 1 THEN last ELSE << >>)

DrawCircleSector(center, radius, startAngle, endAngle, segments) ==
    LET from == Least(startAngle, endAngle)
        to   == Greatest(startAngle, endAngle)
        n    == Pieces(radius, from, to, segments)
    IN  IF from = to THEN << >> ELSE Fan(At(center), radius, from, (to - from) \div n, n)

DrawCircleV(center, radius) == DrawCircleSector(center, radius, 0, 36, 36)

DrawCircleSectorLines(center, radius, startAngle, endAngle, segments) ==
    LET from == Least(startAngle, endAngle)
        to   == Greatest(startAngle, endAngle)
        n    == Pieces(radius, from, to, segments)
        step == (to - from) \div n
        along(angle) == Around(At(center), angle, radius)
    IN  IF from = to THEN << >>
        ELSE << <<At(center), along(from)>> >>
               \o [i \in 1..n |-> <<along(from + (i - 1) * step), along(from + i * step)>>]
               \o << <<At(center), along(from + n * step)>> >>

\* The corners of each triangle with their colours.
DrawCircleGradient(center, radius, inner, outer) ==
    [i \in 1..36 |-> << <<At(center), inner>>, <<Around(At(center), i, radius), outer>>,
                        <<Around(At(center), i - 1, radius), outer>> >>]

DrawCircleLinesV(center, radius) ==
    [i \in 1..36 |-> <<Around(At(center), i - 1, radius), Around(At(center), i, radius)>>]

OnEllipse(center, angle, radiusH, radiusV) ==
    LET d == Direction(angle)
    IN  Plus(At(center), <<2 * d[1] * radiusH, 2 * d[2] * radiusV>>)

DrawEllipseV(center, radiusH, radiusV) ==
    [i \in 1..36 |-> <<At(center), OnEllipse(center, i, radiusH, radiusV),
                       OnEllipse(center, i - 1, radiusH, radiusV)>>]

DrawEllipseLinesV(center, radiusH, radiusV) ==
    [i \in 1..36 |-> <<OnEllipse(center, i, radiusH, radiusV),
                       OnEllipse(center, i - 1, radiusH, radiusV)>>]

DrawRing(center, innerRadius, outerRadius, startAngle, endAngle, segments) ==
    LET from == Least(startAngle, endAngle)
        to   == Greatest(startAngle, endAngle)
        in   == Least(innerRadius, outerRadius)
        out  == Greatest(innerRadius, outerRadius)
        n    == Pieces(out, from, to, segments)
        step == (to - from) \div n
        along(i, radius) == Around(At(center), from + i * step, radius)
    IN  CASE from = to -> << >>
          [] in <= 0 -> DrawCircleSector(center, out, from, to, n)
          [] OTHER -> Each(n, [i \in 0..n |->
                         Triangles(along(i, out), along(i, in), along(i + 1, in), along(i + 1, out))])

DrawRingLines(center, innerRadius, outerRadius, startAngle, endAngle, segments) ==
    LET from == Least(startAngle, endAngle)
        to   == Greatest(startAngle, endAngle)
        in   == Least(innerRadius, outerRadius)
        out  == Greatest(innerRadius, outerRadius)
        n    == Pieces(out, from, to, segments)
        step == (to - from) \div n
        along(i, radius) == Around(At(center), from + i * step, radius)
    IN  CASE from = to -> << >>
          [] in <= 0 -> DrawCircleSectorLines(center, out, from, to, n)
          [] OTHER ->
               << <<along(0, out), along(0, in)>> >>
                 \o Each(n, [i \in 0..n |-> << <<along(i, out), along(i + 1, out)>>,
                                               <<along(i, in), along(i + 1, in)>> >>])
                 \o << <<along(n, out), along(n, in)>> >>
-----------------------------------------------------------------------------
(* Rectangles: records of x, y, width and height. *)

\* Turned by quarters about the point `origin` of the rectangle, which is put
\* at its x and y.
DrawRectanglePro(rec, origin, quarters) ==
    LET turn(p) == CASE quarters % 4 = 0 -> p
                     [] quarters % 4 = 1 -> <<-p[2], p[1]>>
                     [] quarters % 4 = 2 -> <<-p[1], -p[2]>>
                     [] quarters % 4 = 3 -> <<p[2], -p[1]>>
        corner(dx, dy) == Plus(<<rec.x, rec.y>>, turn(<<dx - origin[1], dy - origin[2]>>))
    IN  Triangles(At(corner(0, 0)), At(corner(0, rec.height)),
                  At(corner(rec.width, rec.height)), At(corner(rec.width, 0)))

DrawRectangleRec(rec) == DrawRectanglePro(rec, <<0, 0>>, 0)

DrawRectangleGradientEx(rec, topLeft, bottomLeft, bottomRight, topRight) ==
    Triangles(<<At(<<rec.x, rec.y>>), topLeft>>,
              <<At(<<rec.x, rec.y + rec.height>>), bottomLeft>>,
              <<At(<<rec.x + rec.width, rec.y + rec.height>>), bottomRight>>,
              <<At(<<rec.x + rec.width, rec.y>>), topRight>>)

DrawRectangleGradientV(rec, top, bottom) == DrawRectangleGradientEx(rec, top, bottom, bottom, top)
DrawRectangleGradientH(rec, left, right) == DrawRectangleGradientEx(rec, left, left, right, right)

\* Through the middles of the pixels at the edge, when the view is not scaled.
DrawRectangleLines(posX, posY, width, height) ==
    LET half == Unit \div 2
        a == Plus(At(<<posX, posY>>), <<half, half>>)
        c == Minus(At(<<posX + width, posY + height>>), <<half, half>>)
        b == <<c[1], a[2]>>
        d == <<a[1], c[2]>>
    IN  << <<a, b>>, <<b, c>>, <<c, d>>, <<d, a>> >>

\* Four bars; too thick a line is cut to half of the shorter side.
DrawRectangleLinesEx(rec, lineThick) ==
    LET thick == CASE lineThick <= rec.width /\ lineThick <= rec.height -> lineThick
                   [] rec.width >= rec.height -> rec.height \div 2
                   [] OTHER -> rec.width \div 2
        bar(x, y, w, h) == DrawRectangleRec([x |-> x, y |-> y, width |-> w, height |-> h])
    IN  bar(rec.x, rec.y, rec.width, thick)
          \o bar(rec.x, rec.y - thick + rec.height, rec.width, thick)
          \o bar(rec.x, rec.y + thick, thick, rec.height - thick * 2)
          \o bar(rec.x - thick + rec.width, rec.y + thick, thick, rec.height - thick * 2)

\* The radius of round corners, roundness being a pair n/d; whole in the
\* instances.
CornerRadius(rec, roundness) ==
    (Least(rec.width, rec.height) * Least(roundness[1], roundness[2])) \div (2 * roundness[2])

\* The angle each corner starts at, from the top left one on.
CornerAngles == <<18, 27, 0, 9>>

\* The corners' pieces, and the four sides and the middle.
DrawRectangleRounded(rec, roundness, segments) ==
    LET radius == CornerRadius(rec, roundness)
        smooth == Smooth[radius] \div 4
        n == CASE segments >= 4 -> segments [] segments < 4 /\ smooth > 0 -> smooth [] OTHER -> 4
        x0 == rec.x              y0 == rec.y
        x1 == rec.x + radius     y1 == rec.y + radius
        x2 == rec.x + rec.width - radius
        y2 == rec.y + rec.height - radius
        x3 == rec.x + rec.width  y3 == rec.y + rec.height
        point == <<At(<<x1, y0>>), At(<<x2, y0>>), At(<<x3, y1>>), At(<<x3, y2>>), At(<<x2, y3>>),
                   At(<<x1, y3>>), At(<<x0, y2>>), At(<<x0, y1>>),
                   At(<<x1, y1>>), At(<<x2, y1>>), At(<<x2, y2>>), At(<<x1, y2>>)>>
        P(i) == point[i + 1]
    IN  CASE roundness[1] <= 0 -> DrawRectangleRec(rec)
          [] roundness[1] > 0 /\ radius <= 0 -> << >>
          [] OTHER ->
               FlattenSeq([k \in 1..4 |-> Fan(P(7 + k), radius, CornerAngles[k], 9 \div n, n)])
                 \o Triangles(P(0), P(8), P(9), P(1))
                 \o Triangles(P(2), P(9), P(10), P(3))
                 \o Triangles(P(11), P(5), P(4), P(10))
                 \o Triangles(P(7), P(6), P(11), P(8))
                 \o Triangles(P(8), P(11), P(10), P(9))

\* The frame of a rounded rectangle: the corners of its eight edges, outside
\* first, and the centres of its round corners, half a pixel in.
FramePoints(rec, radius, lineThick) ==
    LET half == Unit \div 2
        x0 == Unit * rec.x + half
        y0 == Unit * rec.y + half
        x3 == Unit * (rec.x + rec.width) - half
        y3 == Unit * (rec.y + rec.height) - half
        r == Unit * radius
        t == Unit * lineThick
        x1 == x0 + r   x2 == x3 - r   y1 == y0 + r   y2 == y3 - r
    IN  [point |-> << <<x1, y0 - t>>, <<x2, y0 - t>>, <<x3 + t, y1>>, <<x3 + t, y2>>,
                      <<x2, y3 + t>>, <<x1, y3 + t>>, <<x0 - t, y2>>, <<x0 - t, y1>>,
                      <<x1, y0>>, <<x2, y0>>, <<x3, y1>>, <<x3, y2>>,
                      <<x2, y3>>, <<x1, y3>>, <<x0, y2>>, <<x0, y1>> >>,
         centers |-> << <<x1, y1>>, <<x2, y1>>, <<x2, y2>>, <<x1, y2>> >>]

\* Thicker than a pixel: quads between the two edges.
ThickFrame(frame, radius, lineThick, n) ==
    LET P(i) == frame.point[i + 1]
        along(k, i, r) == Around(frame.centers[k], CornerAngles[k] + i * (9 \div n), r)
        piece(k, i) == Triangles(along(k, i, radius), along(k, i + 1, radius),
                                 along(k, i + 1, radius + lineThick), along(k, i, radius + lineThick))
    IN  FlattenSeq([k \in 1..4 |-> Each(n, [i \in 0..n |-> piece(k, i)])])
          \o Triangles(P(0), P(8), P(9), P(1))
          \o Triangles(P(2), P(10), P(11), P(3))
          \o Triangles(P(13), P(5), P(4), P(12))
          \o Triangles(P(15), P(7), P(6), P(14))

\* A pixel thick: the lines of its outer edge.
ThinFrame(frame, radius, lineThick, n) ==
    LET along(k, i) == Around(frame.centers[k], CornerAngles[k] + i * (9 \div n), radius + lineThick)
    IN  FlattenSeq([k \in 1..4 |-> [i \in 1..n |-> <<along(k, i - 1), along(k, i)>>]])
          \o [i \in 1..4 |-> <<frame.point[2 * i - 1], frame.point[2 * i]>>]

DrawRectangleRoundedLinesEx(rec, roundness, segments, lineThick) ==
    LET thick == Greatest(lineThick, 0)
        radius == CornerRadius(rec, roundness)
        smooth == Smooth[radius] \div 2
        n == CASE segments >= 4 -> segments [] segments < 4 /\ smooth > 0 -> smooth [] OTHER -> 4
        frame == FramePoints(rec, radius, thick)
    IN  CASE roundness[1] <= 0 ->
               DrawRectangleLinesEx([x |-> rec.x - thick, y |-> rec.y - thick,
                                     width |-> rec.width + 2 * thick, height |-> rec.height + 2 * thick],
                                    thick)
          [] roundness[1] > 0 /\ radius <= 0 -> << >>
          [] roundness[1] > 0 /\ radius > 0 /\ thick > 1 -> ThickFrame(frame, radius, thick, n)
          [] OTHER -> ThinFrame(frame, radius, thick, n)
-----------------------------------------------------------------------------
(* Triangles and polygons. *)

DrawTriangle(v1, v2, v3) == Triangles(At(v1), At(v2), At(v3), At(v3))

DrawTriangleLines(v1, v2, v3) ==
    << <<At(v1), At(v2)>>, <<At(v2), At(v3)>>, <<At(v3), At(v1)>> >>

DrawTriangleFan(points) ==
    Each(Len(points) - 2,
         [i \in 0..Len(points) |-> Triangles(At(points[1]), At(points[i + 2]),
                                             At(points[i + 3]), At(points[i + 3]))])

\* A quad whose last corner is its second: one of its triangles is seen from
\* the back and the other fills the piece.
DrawPoly(center, sides, radius, rotation) ==
    LET n == Greatest(sides, 3)
        along(i) == Around(At(center), rotation + i * (36 \div n), radius)
    IN  Each(n, [i \in 0..n |-> Triangles(At(center), along(i), along(i + 1), along(i))])

DrawPolyLines(center, sides, radius, rotation) ==
    LET n == Greatest(sides, 3)
        along(i) == Around(At(center), rotation + i * (36 \div n), radius)
    IN  [i \in 1..n |-> <<along(i - 1), along(i)>>]

\* The cosine that makes the inner radius is of an angle that is turned into
\* radians twice, so near 1 for every number of sides.
DrawPolyLinesEx(center, sides, radius, rotation, lineThick) ==
    LET n == Greatest(sides, 3)
        along(i, r) == Around(At(center), rotation + i * (36 \div n), r)
        in == radius - lineThick
    IN  Each(n, [i \in 0..n |->
                   Triangles(along(i, radius), along(i, in), along(i + 1, in), along(i + 1, radius))])
-----------------------------------------------------------------------------
(* Which shapes touch, for whole coordinates: divisions are multiplied out, *)
(* with the sign of the divisor.                                            *)
Square(n) == n * n
DistanceSquared(p, q) == Square(p[1] - q[1]) + Square(p[2] - q[2])

\* n/d > 0, and 0 <= n/d <= 1.
Positive(n, d)   == n * d > 0
WithinOne(n, d)  == IF d > 0 THEN 0 <= n /\ n <= d ELSE d <= n /\ n <= 0

CheckCollisionPointRec(point, rec) ==
    /\ rec.x <= point[1] /\ point[1] < rec.x + rec.width
    /\ rec.y <= point[2] /\ point[2] < rec.y + rec.height

CheckCollisionPointCircle(point, center, radius) ==
    DistanceSquared(point, center) <= Square(radius)

\* Three weights, all of one sign; a flat triangle divides by zero.
CheckCollisionPointTriangle(point, p1, p2, p3) ==
    LET under == (p2[2] - p3[2]) * (p1[1] - p3[1]) + (p3[1] - p2[1]) * (p1[2] - p3[2])
        alpha == (p2[2] - p3[2]) * (point[1] - p3[1]) + (p3[1] - p2[1]) * (point[2] - p3[2])
        beta  == (p3[2] - p1[2]) * (point[1] - p3[1]) + (p1[1] - p3[1]) * (point[2] - p3[2])
    IN  Positive(alpha, under) /\ Positive(beta, under) /\ Positive(under - alpha - beta, under)

\* Whether the sides that cross the point's height, to its right, are odd.
CheckCollisionPointPoly(point, points) ==
    LET n == Len(points)
        before(i) == IF i = 1 THEN points[n] ELSE points[i - 1]
        crossed(p, q) ==
            /\ (p[2] > point[2]) # (q[2] > point[2])
            /\ LET rise == q[2] - p[2]
                   n1 == (point[1] - p[1]) * rise
                   n2 == (q[1] - p[1]) * (point[2] - p[2])
               IN  IF rise > 0 THEN n1 < n2 ELSE n1 > n2
        odd[i \in 0..n] == IF i = 0 THEN FALSE ELSE odd[i - 1] # crossed(points[i], before(i))
    IN  n > 2 /\ odd[n]

CheckCollisionRecs(rec1, rec2) ==
    /\ rec1.x < rec2.x + rec2.width  /\ rec1.x + rec1.width > rec2.x
    /\ rec1.y < rec2.y + rec2.height /\ rec1.y + rec1.height > rec2.y

CheckCollisionCircles(center1, radius1, center2, radius2) ==
    DistanceSquared(center1, center2) <= Square(radius1 + radius2)

CornersForgotten(center, radius, rec) == \* seeded fault
    LET dx == Abs(2 * center[1] - 2 * rec.x - rec.width)
        dy == Abs(2 * center[2] - 2 * rec.y - rec.height)
    IN  dx <= rec.width + 2 * radius /\ dy <= rec.height + 2 * radius

\* In halves, for the rectangle's centre.
CheckCollisionCircleRec(center, radius, rec) ==
    LET dx == Abs(2 * center[1] - 2 * rec.x - rec.width)
        dy == Abs(2 * center[2] - 2 * rec.y - rec.height)
    IN  /\ dx <= rec.width + 2 * radius /\ dy <= rec.height + 2 * radius
        /\ \/ dx <= rec.width
           \/ dy <= rec.height
           \/ Square(dx - rec.width) + Square(dy - rec.height) <= Square(2 * radius)

\* Whether two lines cross, and where: <<x, y, div>>, both over div.
CheckCollisionLines(startPos1, endPos1, startPos2, endPos2) ==
    LET rx == endPos1[1] - startPos1[1]   ry == endPos1[2] - startPos1[2]
        sx == endPos2[1] - startPos2[1]   sy == endPos2[2] - startPos2[2]
        div == rx * sy - ry * sx
        x == startPos2[1] - startPos1[1]  y == startPos2[2] - startPos1[2]
        t == x * sy - y * sx
        u == x * ry - y * rx
    IN  [collision |-> div # 0 /\ WithinOne(t, div) /\ WithinOne(u, div),
         point |-> <<startPos1[1] * div + t * rx, startPos1[2] * div + t * ry, div>>]

CheckCollisionPointLine(point, p1, p2, threshold) ==
    LET dxl == p2[1] - p1[1]
        dyl == p2[2] - p1[2]
        cross == (point[1] - p1[1]) * dyl - (point[2] - p1[2]) * dxl
        between(axis) == Least(p1[axis], p2[axis]) <= point[axis]
                           /\ point[axis] <= Greatest(p1[axis], p2[axis])
    IN  /\ Abs(cross) < threshold * Greatest(Abs(dxl), Abs(dyl))
        /\ IF Abs(dxl) >= Abs(dyl) THEN between(1) ELSE between(2)

\* The nearest point of the line is `dot` of the way, over the length squared.
CheckCollisionCircleLine(center, radius, p1, p2) ==
    LET dx == p1[1] - p2[1]
        dy == p1[2] - p2[2]
        lengthSQ == dx * dx + dy * dy
        dot == Within((p1[1] - center[1]) * dx + (p1[2] - center[2]) * dy, 0, lengthSQ)
    IN  IF dx = 0 /\ dy = 0 THEN CheckCollisionCircles(p1, 0, center, radius)
        ELSE Square((p1[1] - center[1]) * lengthSQ - dot * dx)
               + Square((p1[2] - center[2]) * lengthSQ - dot * dy) <= Square(radius * lengthSQ)

GetCollisionRec(rec1, rec2) ==
    LET left   == Greatest(rec1.x, rec2.x)
        right  == Least(rec1.x + rec1.width, rec2.x + rec2.width)
        top    == Greatest(rec1.y, rec2.y)
        bottom == Least(rec1.y + rec1.height, rec2.y + rec2.height)
    IN  IF left < right /\ top < bottom
        THEN [x |-> left, y |-> top, width |-> right - left, height |-> bottom - top]
        ELSE [x |-> 0, y |-> 0, width |-> 0, height |-> 0]
-----------------------------------------------------------------------------
(* The curves.  A curve is drawn as strips: at each of Divisions steps two *)
(* corners, half of the thickness beside the point of the curve, across    *)
(* the step that led to it.  The code divides by the step's length: where  *)
(* the curve stands still both corners are no numbers.  A point of a curve *)
(* is in units of 1/Scale of the control points'.                          *)

CONSTANT Divisions      \* SPLINE_SEGMENT_DIVISIONS, of each segment, at least 1

Scale == 6 * Divisions * Divisions * Divisions

\* Numbers n[i] times the points p[i], over d, in units of Scale.
Weighed(p, n, d) ==
    LET along(axis) == FoldLeft(LAMBDA sum, i : sum + n[i] * p[i][axis], 0, [i \in 1..Len(p) |-> i])
    IN  <<(along(1) * Scale) \div d, (along(2) * Scale) \div d>>

\* A corner of which both coordinates are NaN.
NotANumber == << >>

\* A step over its length, as the shortest whole step in its direction.
Heading(step) ==
    LET gcd[m \in Nat, n \in Nat] == IF n = 0 THEN m ELSE gcd[n, m % n]
        common == gcd[Abs(step[1]), Abs(step[2])]
    IN  <<step[1] \div common, step[2] \div common>>

Across(step) == <<step[2], -step[1]>>

\* Beside a point, across a step and on its other side.
Beside(point, step) ==
    IF step = <<0, 0>> THEN <<NotANumber, NotANumber>>
    ELSE << <<point, Across(Heading(step))>>, <<point, Times(Across(Heading(step)), -1)>> >>

\* The corners along a path, the first two across the step before it.
StripAlong(path, before) ==
    FlattenSeq([i \in 1..Len(path) |->
        Beside(path[i], IF i = 1 THEN before ELSE Minus(path[i], path[i - 1]))])

FirstStep(path) == Minus(path[2], path[1])
LastStep(path)  == Minus(path[Len(path)], path[Len(path) - 1])
-----------------------------------------------------------------------------
(* Points of curves, at k of Divisions. *)

GetSplinePointLinear(startPos, endPos, k) ==
    Weighed(<<startPos, endPos>>, <<Divisions - k, k>>, Divisions)

\* a[0]..a[3] of the code as weights of the four points, then Horner.
BasisWeights == << <<-1, 3, -3, 1>>, <<3, -6, 3, 0>>, <<-3, 0, 3, 0>>, <<1, 4, 1, 0>> >>

GetSplinePointBasis(p, k) ==
    LET D == Divisions
        w == BasisWeights
    IN  Weighed(p, [i \in 1..4 |-> w[4][i] * D * D * D
                                     + k * (w[3][i] * D * D + k * (w[2][i] * D + k * w[1][i]))], Scale)

GetSplinePointCatmullRom(p, k) ==
    LET D == Divisions
        q0 == -k * k * k + 2 * k * k * D - k * D * D
        q1 == 3 * k * k * k - 5 * k * k * D + 2 * D * D * D
        q2 == -3 * k * k * k + 4 * k * k * D + k * D * D
        q3 == k * k * k - k * k * D
    IN  Weighed(p, <<q0, q1, q2, q3>>, 2 * D * D * D)

GetSplinePointBezierQuad(p, k) ==
    LET r == Divisions - k
    IN  Weighed(p, <<r * r, 2 * r * k, k * k>>, Divisions * Divisions)

GetSplinePointBezierCubic(p, k) ==
    LET r == Divisions - k
    IN  Weighed(p, <<r * r * r, 3 * r * r * k, 3 * r * k * k, k * k * k>>,
                Divisions * Divisions * Divisions)
-----------------------------------------------------------------------------
(* One segment.  The loops of the first two start with a step that leads   *)
(* nowhere: the corners of it are written over by the next one's.          *)

DrawSplineSegmentBasis(p) ==
    LET path == [j \in 1..Divisions + 1 |-> GetSplinePointBasis(p, j - 1)]
    IN  StripAlong(path, FirstStep(path))

DrawSplineSegmentCatmullRom(p) ==
    LET path == [j \in 1..Divisions + 1 |-> GetSplinePointCatmullRom(p, j - 1)]
    IN  StripAlong(path, FirstStep(path))

DrawSplineSegmentBezierQuadratic(p) ==
    LET path == <<Times(p[1], Scale)>> \o [j \in 1..Divisions |-> GetSplinePointBezierQuad(p, j)]
    IN  StripAlong(path, FirstStep(path))

DrawSplineSegmentBezierCubic(p) ==
    LET path == <<Times(p[1], Scale)>> \o [j \in 1..Divisions |-> GetSplinePointBezierCubic(p, j)]
    IN  StripAlong(path, FirstStep(path))

DrawSplineSegmentLinear(p1, p2, thick) == DrawLineEx(p1, p2, thick)

\* The height of an eased line, over Divisions cubed.
EaseCubicInOut(i, from, change) ==
    LET D == Divisions
        rest == i - D
    IN  IF 2 * i < D THEN from * D * D * D + 4 * change * i * i * i
        ELSE from * D * D * D + change * (4 * rest * rest * rest + D * D * D)

DrawLineBezier(startPos, endPos) ==
    LET D == Divisions
        height(j) == EaseCubicInOut(j, startPos[2], endPos[2] - startPos[2])
        path == <<Times(startPos, Scale)>>
                  \o [j \in 1..D |-> <<6 * D * D * (D * startPos[1] + j * (endPos[1] - startPos[1])),
                                       6 * height(j)>>]
    IN  StripAlong(path, FirstStep(path))
-----------------------------------------------------------------------------
(* Many segments: their strips, and the points of the round caps. *)

DrawSplineLinear(points, thick) ==
    IF Len(points) < 2 THEN << >>
    ELSE Each(Len(points) - 1, [i \in 0..Len(points) |->
            DrawTriangleStrip(Sides(points[i + 1], points[i + 2], thick))])

ChainedAnew(paths) == \* seeded fault
    [i \in 1..Len(paths) |-> StripAlong(paths[i], FirstStep(paths[i]))]

\* From four points on; each segment starts across the last step before it,
\* which the code keeps in dx, dy and size: with no number if that one had no length.
Chained(paths) ==
    [i \in 1..Len(paths) |->
        StripAlong(paths[i], IF i = 1 THEN FirstStep(paths[1]) ELSE LastStep(paths[i - 1]))]

DrawSplineBasis(points) ==
    LET n == Greatest(Len(points) - 3, 0)
        start(i) == GetSplinePointBasis(SubSeq(points, i, i + 3), 0)
        path(i) == <<start(i)>>
                     \o [j \in 1..Divisions |-> GetSplinePointBasis(SubSeq(points, i, i + 3), j)]
        paths == [i \in 1..n |-> path(i)]
    IN  [strips |-> Chained(paths),
         caps |-> IF n = 0 THEN << >> ELSE <<start(1), Last(paths[n])>>]

DrawSplineCatmullRom(points) ==
    LET n == Greatest(Len(points) - 3, 0)
        rest(i) == [j \in 1..Divisions |-> GetSplinePointCatmullRom(SubSeq(points, i, i + 3), j)]
        from(i) == IF i = 1 THEN Times(points[2], Scale) ELSE Last(rest(i - 1))
        paths == [i \in 1..n |-> <<from(i)>> \o rest(i)]
    IN  [strips |-> Chained(paths),
         caps |-> IF n = 0 THEN << >> ELSE <<from(1), Last(paths[n])>>]

\* A last point without its controls is left out.
DrawSplineBezierQuadratic(points) ==
    [i \in 1..(Greatest(Len(points) - 1, 0) \div 2) |->
        DrawSplineSegmentBezierQuadratic(SubSeq(points, 2 * i - 1, 2 * i + 1))]

DrawSplineBezierCubic(points) ==
    [i \in 1..(Greatest(Len(points) - 1, 0) \div 3) |->
        DrawSplineSegmentBezierCubic(SubSeq(points, 3 * i - 2, 3 * i + 1))]
=============================================================================
