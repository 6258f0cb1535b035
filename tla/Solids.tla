------------------------------- MODULE Solids -------------------------------
(***************************************************************************)
(* The solids of raylib (rmodels.c) drawn without a mesh: a sequence of    *)
(* triangles for each filled one, of lines for each wire one, in the order *)
(* of their corners.                                                       *)
(*                                                                         *)
(* Positions and sizes are whole and drawn in Grains of a unit.  Angles    *)
(* are twelfths of a turn; whole points of a circle of radius 5 stand in   *)
(* the place of their cosines and sines, three to a quarter, so a number   *)
(* of sides or rings is one that divides them.  The directions of          *)
(* cylinders and capsules are along an axis, where Vector3Perpendicular    *)
(* and Vector3Normalize are exact.  Colours and normals are left out.      *)
(***************************************************************************)
EXTENDS Raymath, SequencesExt

Grain == 25

Grown(p) == Vector3Scale(p, Grain)

CosAt(angle) == <<5, 4, 3, 0, -3, -4, -5, -4, -3, 0, 3, 4>>[(angle % 12) + 1]
SinAt(angle) == CosAt(angle - 3)

\* What the steps of two nested loops send.
Every(rows, columns, Sent) ==
    FlattenSeq([k \in 1..rows * columns |-> Sent[<<(k - 1) \div columns, (k - 1) % columns>>]])

\* p + r * (the circle through u and w, at an angle).
AroundAxis(p, r, angle, u, w) ==
    Vector3Add(Grown(p), Vector3Scale(Vector3Add(Vector3Scale(u, SinAt(angle)),
                                                 Vector3Scale(w, CosAt(angle))), 5 * r))
-----------------------------------------------------------------------------
(* Cubes: corners are numbered by the bits of their right, top and front. *)

CubeCorner(n, position, size) ==
    [i \in 1..3 |-> Grain * position[i]
        + (IF (n \div (2 ^ (i - 1))) % 2 = 1 THEN 1 ELSE -1) * Whole(Grain * size[i], 2)]

DrawCube(position, size) ==
    LET corners == << <<4, 5, 6>>, <<7, 6, 5>>,      \* front
                      <<0, 2, 1>>, <<3, 1, 2>>,      \* back
                      <<2, 6, 7>>, <<3, 2, 7>>,      \* top
                      <<0, 5, 4>>, <<1, 5, 0>>,      \* bottom
                      <<1, 3, 7>>, <<5, 1, 7>>,      \* right
                      <<0, 6, 2>>, <<4, 6, 0>> >>    \* left
    IN  [t \in 1..12 |-> [k \in 1..3 |-> CubeCorner(corners[t][k], position, size)]]

DrawCubeWires(position, size) ==
    LET ends == << <<4, 5>>, <<5, 7>>, <<7, 6>>, <<6, 4>>, <<0, 1>>, <<1, 3>>, <<3, 2>>, <<2, 0>>,
                   <<6, 2>>, <<7, 3>>, <<4, 0>>, <<5, 1>> >>
    IN  [t \in 1..12 |-> [k \in 1..2 |-> CubeCorner(ends[t][k], position, size)]]
-----------------------------------------------------------------------------
(* Spheres. *)

\* The corner of ring i and slice j: each is reached by turning the one
\* before about y and, from ring to ring, about z.
DrawSphereEx(center, radius, rings, slices) ==
    LET at(i, j) ==
            LET ring == i * (6 \div (rings + 1))
                slice == j * (12 \div slices)
            IN  Vector3Add(Grown(center),
                    Vector3Scale(<<SinAt(ring) * CosAt(slice), 5 * CosAt(ring), SinAt(ring) * SinAt(slice)>>, radius))
        face[c \in (0..rings) \X (0..slices - 1)] ==
            LET i == c[1]
                j == c[2]
            IN  << <<at(i, j), at(i + 1, j + 1), at(i + 1, j)>>,
                   <<at(i, j), at(i, j + 1), at(i + 1, j + 1)>> >>
    IN  Every(rings + 1, slices, face)

\* From the lowest point up, and one ring past the highest.
DrawSphereWires(center, radius, rings, slices) ==
    LET at(i, j) ==
            LET ring == i * (6 \div (rings + 1))
                slice == j * (12 \div slices)
            IN  Vector3Add(Grown(center),
                    Vector3Scale(<<SinAt(ring) * SinAt(slice), -5 * CosAt(ring), SinAt(ring) * CosAt(slice)>>, radius))
        face[c \in (0..rings + 1) \X (0..slices - 1)] ==
            LET i == c[1]
                j == c[2]
            IN  << <<at(i, j), at(i + 1, j + 1)>>, <<at(i + 1, j + 1), at(i + 1, j)>>,
                   <<at(i + 1, j), at(i, j)>> >>
    IN  Every(rings + 2, slices, face)
-----------------------------------------------------------------------------
(* Cylinders and cones. *)

SidesOf(sides) == Greatest(sides, 3)

DrawCylinder(position, radiusTop, radiusBottom, height, sides) ==
    LET n == SidesOf(sides)
        top == Vector3Add(position, <<0, height, 0>>)
        upper(i) == AroundAxis(top, radiusTop, i * (12 \div n), <<1, 0, 0>>, <<0, 0, 1>>)
        lower(i) == AroundAxis(position, radiusBottom, i * (12 \div n), <<1, 0, 0>>, <<0, 0, 1>>)
        body[c \in {0} \X (0..n - 1)] ==
            LET i == c[2]
            IN  IF radiusTop > 0
                THEN << <<lower(i), lower(i + 1), upper(i + 1)>>, <<upper(i), lower(i), upper(i + 1)>> >>
                ELSE << <<Grown(top), lower(i), lower(i + 1)>> >>
        cap[c \in {0} \X (0..n - 1)] == << <<Grown(top), upper(c[2]), upper(c[2] + 1)>> >>
        base[c \in {0} \X (0..n - 1)] == << <<Grown(position), lower(c[2] + 1), lower(c[2])>> >>
    IN  Every(1, n, body) \o (IF radiusTop > 0 THEN Every(1, n, cap) ELSE << >>) \o Every(1, n, base)

DrawCylinderWires(position, radiusTop, radiusBottom, height, sides) ==
    LET n == SidesOf(sides)
        top == Vector3Add(position, <<0, height, 0>>)
        upper(i) == AroundAxis(top, radiusTop, i * (12 \div n), <<1, 0, 0>>, <<0, 0, 1>>)
        lower(i) == AroundAxis(position, radiusBottom, i * (12 \div n), <<1, 0, 0>>, <<0, 0, 1>>)
        side[c \in {0} \X (0..n - 1)] ==
            LET i == c[2]
            IN  << <<lower(i), lower(i + 1)>>, <<lower(i + 1), upper(i + 1)>>,
                   <<upper(i + 1), upper(i)>>, <<upper(i), lower(i)>> >>
    IN  Every(1, n, side)

\* Two directions across one.
WithThird(b1, direction) == <<b1, Vector3Normalize(Vector3CrossProduct(b1, direction))>>
Across(direction) == WithThird(Vector3Normalize(Vector3Perpendicular(direction)), direction)

\* The corners of side i, two around each end: b are the directions across.
SideOf(startPos, endPos, startRadius, endRadius, n, b, i) ==
    LET w(p, r, k) == AroundAxis(p, r, k * (12 \div n), b[1], b[2])
    IN  <<w(startPos, startRadius, i), w(startPos, startRadius, i + 1), w(endPos, endRadius, i), w(endPos, endRadius, i + 1)>>

SidesBetween(startPos, endPos, startRadius, endRadius, n, b) ==
    [c \in {0} \X (0..n - 1) |-> SideOf(startPos, endPos, startRadius, endRadius, n, b, c[2])]

DrawCylinderEx(startPos, endPos, startRadius, endRadius, sides) ==
    LET direction == Vector3Subtract(endPos, startPos)
        filled(w) == (IF startRadius > 0 THEN << <<Grown(startPos), w[2], w[1]>> >> ELSE << >>)
                     \o << <<w[1], w[2], w[3]>>, <<w[2], w[4], w[3]>> >>
                     \o (IF endRadius > 0 THEN << <<Grown(endPos), w[3], w[4]>> >> ELSE << >>)
        all(n, corners) == Every(1, n, [c \in DOMAIN corners |-> filled(corners[c])])
        around(n, b) == all(n, SidesBetween(startPos, endPos, startRadius, endRadius, n, b))
    IN  IF direction = <<0, 0, 0>> THEN << >> ELSE around(SidesOf(sides), Across(direction))

DrawCylinderWiresEx(startPos, endPos, startRadius, endRadius, sides) ==
    LET direction == Vector3Subtract(endPos, startPos)
        wires(w) == << <<w[1], w[2]>>, <<w[1], w[3]>>, <<w[3], w[4]>> >>
        all(n, corners) == Every(1, n, [c \in DOMAIN corners |-> wires(corners[c])])
        around(n, b) == all(n, SidesBetween(startPos, endPos, startRadius, endRadius, n, b))
    IN  IF direction = <<0, 0, 0>> THEN << >> ELSE around(SidesOf(sides), Across(direction))
-----------------------------------------------------------------------------
(* Capsules: two caps and the cylinder between them. *)

\* The four corners of each face of a capsule: of a cap (1 at the end, 2 at
\* the start, turned round) and of the sides.
CapCorners(cap, startPos, endPos, radius, slices, rings, i, j) ==
    LET given == Vector3Subtract(endPos, startPos)
        direction == IF given = <<0, 0, 0>> THEN <<0, 1, 0>> ELSE given
        center == IF cap = 1 THEN endPos ELSE startPos
        point(b0, b, up, round) ==
            LET level == Vector3Add(Vector3Scale(b[1], SinAt(round)), Vector3Scale(b[2], CosAt(round)))
            IN  Vector3Add(Grown(center),
                    Vector3Scale(Vector3Add(Vector3Scale(b0, 5 * SinAt(up)), Vector3Scale(level, CosAt(up))), radius))
        around(b0, b) ==
            LET at(ring, slice) == point(b0, b, ring * (3 \div rings), slice * (12 \div slices))
            IN  <<at(i, j), at(i, j + 1), at(i + 1, j), at(i + 1, j + 1)>>
    IN  around(Vector3Scale(Vector3Normalize(direction), IF cap = 1 THEN 1 ELSE -1), Across(direction))

SideCorners(startPos, endPos, radius, slices, j) ==
    SideOf(startPos, endPos, radius, radius, slices, Across(Vector3Subtract(endPos, startPos)), j)

CapTurnedIn(cap, w) == \* seeded fault
    << <<w[1], w[2], w[3]>>, <<w[2], w[4], w[3]>> >>

CapFace(cap, w) ==
    IF cap = 1 THEN << <<w[1], w[2], w[3]>>, <<w[2], w[4], w[3]>> >>
               ELSE << <<w[1], w[3], w[2]>>, <<w[2], w[3], w[4]>> >>

SideFace(w) == << <<w[1], w[2], w[3]>>, <<w[2], w[4], w[3]>> >>

CapWires(w)  == << <<w[1], w[2]>>, <<w[2], w[3]>>, <<w[1], w[3]>>, <<w[2], w[4]>>, <<w[3], w[4]>> >>
SideWires(w) == << <<w[1], w[3]>>, <<w[2], w[4]>>, <<w[2], w[3]>> >>

DrawCapsule(startPos, endPos, radius, slices, rings) ==
    LET n == SidesOf(slices)
        cap(which) == [c \in (0..rings - 1) \X (0..n - 1) |->
                          CapFace(which, CapCorners(which, startPos, endPos, radius, n, rings, c[1], c[2]))]
        side[c \in {0} \X (0..n - 1)] ==
            SideFace(SideCorners(startPos, endPos, radius, n, c[2]))
    IN  Every(rings, n, cap(1)) \o Every(rings, n, cap(2))
          \o (IF startPos = endPos THEN << >> ELSE Every(1, n, side))

DrawCapsuleWires(startPos, endPos, radius, slices, rings) ==
    LET n == SidesOf(slices)
        cap(which) == [c \in (0..rings - 1) \X (0..n - 1) |->
                          CapWires(CapCorners(which, startPos, endPos, radius, n, rings, c[1], c[2]))]
        side[c \in {0} \X (0..n - 1)] ==
            SideWires(SideCorners(startPos, endPos, radius, n, c[2]))
    IN  Every(rings, n, cap(1)) \o Every(rings, n, cap(2))
          \o (IF startPos = endPos THEN << >> ELSE Every(1, n, side))
-----------------------------------------------------------------------------
(* Flat things in space. *)

DrawTriangleStrip3D(points) ==
    [i \in 1..Greatest(Len(points) - 2, 0) |->
        IF i % 2 = 1 THEN <<points[i + 2], points[i], points[i + 1]>>
                     ELSE <<points[i + 2], points[i + 1], points[i]>>]

DrawPlane(center, size) ==
    LET at(x, z) == Vector3Add(Grown(center), <<Whole(x * Grain * size[1], 2), 0, Whole(z * Grain * size[2], 2)>>)
        a == at(-1, -1)  b == at(-1, 1)  c == at(1, 1)  d == at(1, -1)
    IN  << <<a, b, c>>, <<a, c, d>> >>

DrawGrid(slices, spacing) ==
    LET half == Whole(slices, 2)
        at(x, z) == <<x * spacing, 0, z * spacing>>
        line[c \in {0} \X (0..2 * half)] ==
            LET i == c[2] - half
            IN  << <<at(i, -half), at(i, half)>>, <<at(-half, i), at(half, i)>> >>
    IN  Every(1, 2 * half + 1, line)
=============================================================================
