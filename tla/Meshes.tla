------------------------------- MODULE Meshes -------------------------------
(***************************************************************************)
(* Meshes of raylib (rmodels.c): what the generators make, boxes around    *)
(* meshes, what a ray meets, and the poses of skeletons.                   *)
(*                                                                         *)
(* A mesh is its vertices, their normals and texture coordinates, and the  *)
(* indices of its triangles, which are empty where the code has NULL.      *)
(* Positions are whole; texture coordinates are in steps of the grid.  A   *)
(* distance along a ray is a fraction <<n, d>>, d > 0.                     *)
(***************************************************************************)
EXTENDS Solids

NoHit == [hit |-> FALSE]

Corners(mesh, t) ==
    [k \in 1..3 |-> IF mesh.indices = << >> THEN 3 * t + k ELSE mesh.indices[3 * t + k] + 1]

TriangleCount(mesh) ==
    (IF mesh.indices = << >> THEN Len(mesh.vertices) ELSE Len(mesh.indices)) \div 3
-----------------------------------------------------------------------------
(* Generators. *)

\* In fifths of a unit.
GenMeshPoly(sides, radius) ==
    LET rim(i) == Vector3Scale(<<SinAt(i * (12 \div sides)), 0, CosAt(i * (12 \div sides))>>, radius)
        n == IF sides < 3 THEN 0 ELSE sides
    IN  [vertices |-> FlattenSeq([i \in 1..n |-> << <<0, 0, 0>>, rim(i - 1), rim(i)>>]),
         normals |-> [v \in 1..3 * n |-> <<0, 1, 0>>],
         texcoords |-> [v \in 1..3 * n |-> <<0, 0>>],
         indices |-> << >>]

\* width and length are even, and multiples of the resolution.
GenMeshPlane(width, length, resX, resZ) ==
    LET across == resX + 1
        count == across * (resZ + 1)
        x(v) == (v - 1) % across
        z(v) == (v - 1) \div across
        face(f) == LET i == f + f \div resX
                   IN  <<i + across, i + 1, i,  i + across, i + across + 1, i + 1>>
    IN  [vertices |-> [v \in 1..count |->
            <<Whole(x(v) * width, resX) - Whole(width, 2), 0, Whole(z(v) * length, resZ) - Whole(length, 2)>>],
         normals |-> [v \in 1..count |-> <<0, 1, 0>>],
         texcoords |-> [v \in 1..count |-> <<x(v), z(v)>>],
         indices |-> FlattenSeq([f \in 1..resX * resZ |-> face(f - 1)])]

\* Four vertices for each face; the corners are numbered as those of DrawCube.
GenMeshCube(size) ==
    LET corner == <<4, 5, 7, 6,  0, 2, 3, 1,  2, 6, 7, 3,  0, 1, 5, 4,  1, 3, 7, 5,  0, 4, 6, 2>>
        texture == <<0, 1, 3, 2,  1, 3, 2, 0,  2, 0, 1, 3,  3, 2, 0, 1,  1, 3, 2, 0,  0, 1, 3, 2>>
        normal == << <<0, 0, 1>>, <<0, 0, -1>>, <<0, 1, 0>>, <<0, -1, 0>>, <<1, 0, 0>>, <<-1, 0, 0>> >>
        bit(n, i) == (n \div (2 ^ (i - 1))) % 2
    IN  [vertices |-> [v \in 1..24 |-> [i \in 1..3 |->
                          (2 * bit(corner[v], i) - 1) * Whole(size[i], 2)]],
         normals |-> [v \in 1..24 |-> normal[(v + 3) \div 4]],
         texcoords |-> [v \in 1..24 |-> <<bit(texture[v], 1), bit(texture[v], 2)>>],
         indices |-> FlattenSeq([k \in 1..6 |-> LET i == 4 * (k - 1)
                                                IN  <<i, i + 1, i + 2, i, i + 2, i + 3>>])]

\* gray[<<x, z>>] is the mean of a pixel's three channels; the height of white
\* is a multiple of 255.  The normals are as long as the code's cross product.
GenMeshHeightmap(gray, width, height, size) ==
    LET at(x, z) == <<x * Whole(size[1], width - 1), gray[<<x, z>>] * Whole(size[2], 255),
                      z * Whole(size[3], height - 1)>>
        cell[c \in (0..height - 2) \X (0..width - 2)] ==
            LET z == c[1]
                x == c[2]
            IN  << <<x, z>>, <<x, z + 1>>, <<x + 1, z>>, <<x + 1, z>>, <<x, z + 1>>, <<x + 1, z + 1>> >>
        grid == Every(height - 1, width - 1, cell)
        vertices == [v \in DOMAIN grid |-> at(grid[v][1], grid[v][2])]
        normal(v) == LET a == 3 * ((v - 1) \div 3) + 1
                     IN  Vector3CrossProduct(Vector3Subtract(vertices[a + 1], vertices[a]),
                                             Vector3Subtract(vertices[a + 2], vertices[a]))
    IN  [vertices |-> vertices, normals |-> [v \in DOMAIN grid |-> normal(v)], texcoords |-> grid,
         indices |-> << >>]
-----------------------------------------------------------------------------
(* Cubes where a picture is white, floors and ceilings where it is black. *)

CellCorner(n, x, z, size) ==
    LET left == Whole(size[1] * (2 * x - 1), 2)
        right == Whole(size[1] * (2 * x + 1), 2)
        back == Whole(size[3] * (2 * z - 1), 2)
        front == Whole(size[3] * (2 * z + 1), 2)
    IN  << <<left, size[2], back>>, <<left, size[2], front>>, <<right, size[2], front>>, <<right, size[2], back>>,
           <<right, 0, back>>, <<left, 0, back>>, <<left, 0, front>>, <<right, 0, front>> >>[n]

Face(corners, normal) == [corners |-> corners, normal |-> normal]

WhiteCell == <<Face(<<1, 2, 3, 1, 3, 4>>, <<0, 1, 0>>), Face(<<6, 8, 7, 6, 5, 8>>, <<0, -1, 0>>)>>
BlackCell == <<Face(<<1, 3, 2, 1, 4, 3>>, <<0, -1, 0>>), Face(<<6, 7, 8, 6, 8, 5>>, <<0, 1, 0>>)>>

\* A wall towards a black neighbour and towards the edge.
Walls(map, width, height, x, z) ==
    LET black(i, j) == map[<<i, j>>] = "black"
    IN  (IF z = height - 1 \/ black(x, z + 1) THEN <<Face(<<2, 7, 3, 3, 7, 8>>, <<0, 0, 1>>)>> ELSE << >>)
          \o (IF z = 0 \/ black(x, z - 1) THEN <<Face(<<1, 5, 6, 1, 4, 5>>, <<0, 0, -1>>)>> ELSE << >>)
          \o (IF x = width - 1 \/ black(x + 1, z) THEN <<Face(<<3, 8, 4, 4, 8, 5>>, <<1, 0, 0>>)>> ELSE << >>)
          \o (IF x = 0 \/ black(x - 1, z) THEN <<Face(<<1, 7, 2, 1, 6, 7>>, <<-1, 0, 0>>)>> ELSE << >>)

\* map[<<x, z>>] is "white", "black" or another colour, of which nothing comes.
GenMeshCubicmap(map, width, height, size) ==
    LET cell[c \in (0..height - 1) \X (0..width - 1)] ==
            LET z == c[1]
                x == c[2]
                faces == CASE map[<<x, z>>] = "white" -> WhiteCell \o Walls(map, width, height, x, z)
                           [] map[<<x, z>>] = "black" -> BlackCell
                           [] OTHER -> << >>
            IN  FlattenSeq([f \in DOMAIN faces |-> [k \in 1..6 |->
                    [at |-> CellCorner(faces[f].corners[k], x, z, size), normal |-> faces[f].normal]]])
        all == Every(height, width, cell)
    IN  [vertices |-> [v \in DOMAIN all |-> all[v].at], normals |-> [v \in DOMAIN all |-> all[v].normal],
         texcoords |-> [v \in DOMAIN all |-> <<0, 0>>], indices |-> << >>]
-----------------------------------------------------------------------------
(* Boxes and tangents. *)

GetMeshBoundingBox(mesh) ==
    IF mesh.vertices = << >> THEN [min |-> <<0, 0, 0>>, max |-> <<0, 0, 0>>]
    ELSE [min |-> FoldLeft(Vector3Min, mesh.vertices[1], mesh.vertices),
          max |-> FoldLeft(Vector3Max, mesh.vertices[1], mesh.vertices)]

\* The corners of the box around all, moved by the model's matrix.
GetModelBoundingBox(meshes, transform) ==
    LET joined(a, b) == [min |-> Vector3Min(a.min, b.min), max |-> Vector3Max(a.max, b.max)]
        boxes == [m \in DOMAIN meshes |-> GetMeshBoundingBox(meshes[m])]
        bounds == IF meshes = << >> THEN [min |-> <<0, 0, 0>>, max |-> <<0, 0, 0>>]
                  ELSE FoldLeft(joined, boxes[1], Tail(boxes))
    IN  [min |-> Vector3Transform(bounds.min, transform), max |-> Vector3Transform(bounds.max, transform)]

DrawBoundingBox(box) ==
    LET size == [i \in 1..3 |-> Abs(box.max[i] - box.min[i])]
    IN  DrawCubeWires([i \in 1..3 |-> box.min[i] + Whole(size[i], 2)], size)

\* For normals along an axis; what divides is 1 or -1 (or nothing).
TriangleTangents(at, e1, e2, uv1, uv2) ==
    LET div == uv1[1] * uv2[2] - uv2[1] * uv1[2]
        over(a, b) == IF div = 0 THEN <<0, 0, 0>> ELSE Vector3Scale(Vector3Subtract(a, b), div)
    IN  [at |-> {at[k] : k \in 1..3}, s |-> over(Vector3Scale(e1, uv2[2]), Vector3Scale(e2, uv1[2])),
         t |-> over(Vector3Scale(e2, uv1[1]), Vector3Scale(e1, uv2[1]))]

\* From the sums of a vertex's triangles.
VertexTangent(normal, tan1, tan2) ==
    LET other == IF normal[3] # 0 THEN <<1, 0, 0>> ELSE Vector3Normalize(<<-normal[2], normal[1], 0>>)
        unit(flat) == IF flat = <<0, 0, 0>> THEN other ELSE Vector3Normalize(flat)
        sided(along) ==
            [along |-> along, side |-> IF Vector3DotProduct(Vector3CrossProduct(normal, along), tan2) < 0 THEN -1 ELSE 1]
    IN  IF tan1 = <<0, 0, 0>> THEN [along |-> other, side |-> 1]
        ELSE sided(unit(Vector3Subtract(tan1, Vector3Scale(normal, Vector3DotProduct(normal, tan1)))))

GenMeshTangents(mesh) ==
    LET edge(at, k) == Vector3Subtract(mesh.vertices[at[k]], mesh.vertices[at[1]])
        step(at, k) == [i \in 1..2 |-> mesh.texcoords[at[k]][i] - mesh.texcoords[at[1]][i]]
        given(at) == TriangleTangents(at, edge(at, 2), edge(at, 3), step(at, 2), step(at, 3))
        sum(each, v, part) == FoldLeft(LAMBDA to, g : IF v \in g.at THEN Vector3Add(to, g[part]) ELSE to,
                                       <<0, 0, 0>>, each)
        all(each) == [v \in DOMAIN mesh.vertices |->
                        VertexTangent(mesh.normals[v], sum(each, v, "s"), sum(each, v, "t"))]
    IN  all([t \in 1..TriangleCount(mesh) |-> given(Corners(mesh, t - 1))])
-----------------------------------------------------------------------------
(* What touches what. *)

CheckCollisionSpheres(center1, radius1, center2, radius2) ==
    Vector3DistanceSqr(center1, center2) <= (radius1 + radius2) * (radius1 + radius2)

CheckCollisionBoxes(box1, box2) ==
    IF box1.max[1] >= box2.min[1] /\ box1.min[1] <= box2.max[1]
    THEN ~(box1.max[2] < box2.min[2] \/ box1.min[2] > box2.max[2])
           /\ ~(box1.max[3] < box2.min[3] \/ box1.min[3] > box2.max[3])
    ELSE FALSE

CheckCollisionBoxSphere(box, center, radius) ==
    LET closest == [i \in 1..3 |-> Clamp(center[i], box.min[i], box.max[i])]
    IN  Vector3DistanceSqr(center, closest) <= radius * radius

\* The direction has the length 1; where a square root is not whole the hit is
\* known and the distance is not.
GetRayCollisionSphere(ray, center, radius) ==
    LET to == Vector3Subtract(center, ray.position)
        vector == Vector3DotProduct(to, ray.direction)
        squared == Vector3LengthSqr(to)
        d == radius * radius - (squared - vector * vector)
        whole == {r \in 0..radius : r * r = d}
        within == squared < radius * radius
    IN  IF d < 0 THEN NoHit
        ELSE IF whole = {} THEN [hit |-> TRUE, known |-> FALSE]
        ELSE LET distance == IF within THEN vector + Sqrt(d) ELSE vector - Sqrt(d)
                 point == Vector3Add(ray.position, Vector3Scale(ray.direction, distance))
                 out == Vector3Subtract(point, center)
             IN  [hit |-> TRUE, known |-> TRUE, distance |-> distance, point |-> point,
                  normal |-> IF within THEN Vector3Negate(out) ELSE out]

\* Distances in halves, for directions of 0, 1 and 2 along each axis.  A
\* direction of 0 meets the two planes of its axis never, on both sides of the
\* ray inside them and on one side outside; on a plane 0 * inf is not a number,
\* which fmin and fmax pass over.
Never == 10000

SlabTimes(ray, box, i) ==
    LET d == ray.direction[i]
        from == box.min[i] - ray.position[i]
        to == box.max[i] - ray.position[i]
        t0 == Over(2 * from, d)
        t1 == Over(2 * to, d)
    IN  CASE d # 0 -> <<Least(t0, t1), Greatest(t0, t1)>>
          [] d = 0 /\ from < 0 /\ to > 0 -> <<-Never, Never>>
          [] d = 0 /\ (from > 0 \/ (from = 0 /\ to > 0)) -> <<Never, Never>>
          [] d = 0 /\ (to < 0 \/ (to = 0 /\ from < 0)) -> <<-Never, -Never>>

GetRayCollisionBox(asked_ray, box) ==
    LET inside == \A i \in 1..3 : asked_ray.position[i] > box.min[i] /\ asked_ray.position[i] < box.max[i]
        ray == IF inside THEN [asked_ray EXCEPT !.direction = Vector3Negate(@)] ELSE asked_ray
        t(i) == SlabTimes(ray, box, i)
        t6 == Greatest(Greatest(t(1)[1], t(2)[1]), t(3)[1])
        t7 == Least(Least(t(1)[2], t(2)[2]), t(3)[2])
        twice == Vector3Add(Vector3Scale(ray.position, 2), Vector3Scale(ray.direction, t6))
        normal == [i \in 1..3 |-> Whole(201 * (twice[i] - box.min[i] - box.max[i]),
                                        200 * (box.max[i] - box.min[i]))]
    IN  IF t7 < 0 \/ t6 > t7 THEN NoHit
        ELSE [hit |-> TRUE, distance |-> <<IF inside THEN -t6 ELSE t6, 2>>,
              twice |-> twice, normal |-> IF inside THEN Vector3Negate(normal) ELSE normal]

TriangleBehind(ray, p1, p2, p3) == \* seeded fault: what is behind is met
    LET edge1 == Vector3Subtract(p2, p1)
        edge2 == Vector3Subtract(p3, p1)
        p == Vector3CrossProduct(ray.direction, edge2)
        det == Vector3DotProduct(edge1, p)
        sign == IF det < 0 THEN -1 ELSE 1
        tv == Vector3Subtract(ray.position, p1)
        q == Vector3CrossProduct(tv, edge1)
        u == sign * Vector3DotProduct(tv, p)
        v == sign * Vector3DotProduct(ray.direction, q)
        t == sign * Vector3DotProduct(edge2, q)
    IN  IF det = 0 \/ u < 0 \/ u > Abs(det) \/ v < 0 \/ u + v > Abs(det) THEN NoHit
        ELSE [hit |-> TRUE, distance |-> <<t, Abs(det)>>, normal |-> Vector3CrossProduct(edge1, edge2)]

GetRayCollisionTriangle(ray, p1, p2, p3) ==
    LET edge1 == Vector3Subtract(p2, p1)
        edge2 == Vector3Subtract(p3, p1)
        p == Vector3CrossProduct(ray.direction, edge2)
        det == Vector3DotProduct(edge1, p)
        sign == IF det < 0 THEN -1 ELSE 1
        tv == Vector3Subtract(ray.position, p1)
        q == Vector3CrossProduct(tv, edge1)
        u == sign * Vector3DotProduct(tv, p)
        v == sign * Vector3DotProduct(ray.direction, q)
        t == sign * Vector3DotProduct(edge2, q)
    IN  IF det = 0 \/ u < 0 \/ u > Abs(det) \/ v < 0 \/ u + v > Abs(det) \/ t <= 0 THEN NoHit
        ELSE [hit |-> TRUE, distance |-> <<t, Abs(det)>>, normal |-> Vector3CrossProduct(edge1, edge2)]

GetRayCollisionQuad(ray, p1, p2, p3, p4) ==
    LET first == GetRayCollisionTriangle(ray, p1, p2, p4)
    IN  IF first.hit THEN first ELSE GetRayCollisionTriangle(ray, p2, p3, p4)

Nearer(a, b) == a.distance[1] * b.distance[2] < b.distance[1] * a.distance[2]

\* The nearest of the triangles that are met.
GetRayCollisionMesh(ray, mesh, transform) ==
    LET met(t) == LET at == Corners(mesh, t - 1)
                      p(k) == Vector3Transform(mesh.vertices[at[k]], transform)
                  IN  GetRayCollisionTriangle(ray, p(1), p(2), p(3))
    IN  FoldLeft(LAMBDA best, t : LET now == met(t)
                                  IN  IF now.hit /\ (~best.hit \/ Nearer(now, best)) THEN now ELSE best,
                 NoHit, [t \in 1..TriangleCount(mesh) |-> t])
-----------------------------------------------------------------------------
(* Models: where they are drawn, and how their skeletons move them. *)

\* Rotations in quarter turns about an axis.
DrawnAt(transform, position, axis, turns, scale) ==
    MatrixMultiply(transform,
        MatrixMultiply(MatrixMultiply(MatrixScale(scale[1], scale[2], scale[3]), MatrixRotate(axis, turns)),
                       MatrixTranslate(position[1], position[2], position[3])))

PosedUnscaled(parents, transforms) == \* seeded fault: a parent's scale does not move its bones
    LET posed[i \in 0..Len(parents)] ==
            IF i = 0 THEN transforms
            ELSE LET before == posed[i - 1]
                     own == before[i]
                     parent == before[parents[i] + 1]
                 IN  IF parents[i] < 0 \/ parents[i] > i - 1 THEN before
                     ELSE [before EXCEPT ![i] =
                        [rotation |-> QuaternionMultiply(parent.rotation, own.rotation),
                         scale |-> Vector3Multiply(own.scale, parent.scale),
                         translation |-> Vector3Add(Vector3RotateByQuaternion(own.translation, parent.rotation),
                                                    parent.translation)]]
    IN  posed[Len(parents)]

\* Each bone after its parent; a bone before its parent is left as it is.
BuildPoseFromParentJoints(parents, transforms) ==
    LET posed[i \in 0..Len(parents)] ==
            IF i = 0 THEN transforms
            ELSE LET before == posed[i - 1]
                     own == before[i]
                     parent == before[parents[i] + 1]
                     stretched == Vector3Multiply(own.translation, parent.scale)
                 IN  IF parents[i] < 0 \/ parents[i] > i - 1 THEN before
                     ELSE [before EXCEPT ![i] =
                        [rotation |-> QuaternionMultiply(parent.rotation, own.rotation),
                         scale |-> Vector3Multiply(own.scale, parent.scale),
                         translation |-> Vector3Add(Vector3RotateByQuaternion(stretched, parent.rotation),
                                                    parent.translation)]]
    IN  posed[Len(parents)]

PoseMatrix(pose) ==
    MatrixMultiply(MatrixMultiply(MatrixScale(pose.scale[1], pose.scale[2], pose.scale[3]),
                                  QuaternionToMatrix(pose.rotation)),
                   MatrixTranslate(pose.translation[1], pose.translation[2], pose.translation[3]))

\* Where the bones of one vertex take it.  Weights are whole numbers; a weight
\* of none is passed over.
SkinnedVertex(vertex, boneMatrices, indices, weights) ==
    FoldLeft(LAMBDA sum, j : IF weights[j] = 0 THEN sum
                             ELSE Vector3Add(sum, Vector3Scale(
                                    Vector3Transform(vertex, boneMatrices[indices[j]]), weights[j])),
             <<0, 0, 0>>, [j \in DOMAIN weights |-> j])

SkinnedNormal(normal, boneMatrices, indices, weights) ==
    FoldLeft(LAMBDA sum, j : IF weights[j] = 0 THEN sum
                             ELSE Vector3Add(sum, Vector3Scale(
                                    Vector3Transform(normal, MatrixTranspose(MatrixInvert(boneMatrices[indices[j]]))),
                                    weights[j])),
             <<0, 0, 0>>, [j \in DOMAIN weights |-> j])

\* frame is in halves of a frame; between two frames the rotations are equal and
\* the rest is even, so that the middle is whole.
UpdateModelAnimation(bindPose, keyframePoses, frame) ==
    LET count == Len(keyframePoses)
        current == keyframePoses[((frame \div 2) % count) + 1]
        next == keyframePoses[((frame \div 2 + 1) % count) + 1]
        between(v, w) == [i \in 1..3 |-> v[i] + Whole((frame % 2) * (w[i] - v[i]), 2)]
        pose(b) == [translation |-> between(current[b].translation, next[b].translation),
                    rotation |-> current[b].rotation,
                    scale |-> between(current[b].scale, next[b].scale)]
    IN  [b \in DOMAIN bindPose |-> MatrixMultiply(MatrixInvert(PoseMatrix(bindPose[b])), PoseMatrix(pose(b)))]

\* The corners of a picture that faces the camera, and where in the texture
\* each is, in texels.  Sizes are whole; so are the camera's directions.
DrawBillboardPro(camera, source, position, up, size, origin, turns) ==
    LET sign(n) == IF n < 0 THEN -1 ELSE 1
        x == IF size[1] < 0 THEN source.x - size[1] ELSE source.x
        y == IF size[2] < 0 THEN source.y - size[2] ELSE source.y
        width == sign(size[1]) * source.width
        height == sign(size[2]) * source.height
        pivot(right, above) ==
            Vector3Add(Vector3Scale(Vector3Normalize(right), sign(size[1]) * origin[1]),
                       Vector3Scale(Vector3Normalize(above), sign(size[2]) * origin[2]))
        placed(p, forward) ==
            Vector3Add(IF turns = 0 THEN p ELSE Vector3RotateByAxisAngle(p, forward, turns), position)
        corners(right, above, middle, forward) ==
            LET at(p) == placed(Vector3Subtract(p, middle), forward)
            IN  << [at |-> at(<<0, 0, 0>>), texel |-> <<x, y + height>>],
                   [at |-> at(right), texel |-> <<x + width, y + height>>],
                   [at |-> at(Vector3Add(above, right)), texel |-> <<x + width, y>>],
                   [at |-> at(above), texel |-> <<x, y>>] >>
        board(right, above) == corners(right, above, pivot(right, above), Vector3CrossProduct(right, above))
        seen(view) == board(Vector3Scale(<<view[0], view[4], view[8]>>, Abs(size[1])),
                            Vector3Scale(up, Abs(size[2])))
    IN  seen(MatrixLookAt(camera.position, camera.target, camera.up))
=============================================================================
