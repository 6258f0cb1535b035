------------------------------ MODULE SolidLaws ------------------------------
(* Questions about solids, meshes, rays and skeletons, and their answers.    *)
EXTENDS Meshes, FiniteSets

CONSTANTS
    Bodies,         \* what is drawn filled and as wires: records with a kind
    Maps,           \* pictures of two by two cells and more
    Sources,        \* where rays start
    Headings,       \* where they go: 0, 1 or 2 along each axis
    Stances,        \* rotations, as units of quaternions
    Steps           \* translations

VARIABLE asked

AskBody == \E b \in Bodies : asked' = [kind |-> "body", body |-> b]

AskMap == \E p \in Maps : asked' = [kind |-> "map", picture |-> p]

AskRay ==
    \E from \in Sources, to \in Headings, by \in Steps :
        asked' = [kind |-> "ray", from |-> from, to |-> to, by |-> by]

AskSkeleton ==
    \E p \in Stances, q \in Stances, d \in Steps, frame \in 0..5 :
        asked' = [kind |-> "skeleton", p |-> p, q |-> q, d |-> d, frame |-> frame]
-----------------------------------------------------------------------------
(* Surfaces made of triangles. *)

\* Those with three corners: at a pole and at the tip of a cone two meet.
Proper(triangles) ==
    SelectSeq(triangles, LAMBDA t : t[1] # t[2] /\ t[2] # t[3] /\ t[3] # t[1])

Ways(triangles) ==
    FlattenSeq([i \in DOMAIN triangles |->
        LET t == triangles[i] IN << <<t[1], t[2]>>, <<t[2], t[3]>>, <<t[3], t[1]>> >>])

\* No way along an edge is taken twice.
Fits(triangles) ==
    LET ways == Ways(Proper(triangles)) IN Cardinality(ToSet(ways)) = Len(ways)

\* Each is taken once there and once back: no hole, and one side is outside.
Closed(triangles) ==
    LET ways == Ways(Proper(triangles))
    IN  Fits(triangles) /\ \A e \in ToSet(ways) : <<e[2], e[1]>> \in ToSet(ways)

\* As often there as back: what may touch itself along an edge.
Even(triangles) ==
    LET ways == Ways(Proper(triangles))
        times(e) == Cardinality({i \in DOMAIN ways : ways[i] = e})
    IN  \A e \in ToSet(ways) : times(e) = times(<<e[2], e[1]>>)

Facing(t) == Vector3CrossProduct(Vector3Subtract(t[2], t[1]), Vector3Subtract(t[3], t[1]))

\* Each triangle of a convex body shows its front to the outside.
FacesOut(triangles, center) ==
    \A t \in ToSet(Proper(triangles)) :
        Vector3DotProduct(Facing(t), Vector3Subtract(t[1], center)) > 0

SixVolumes(triangles) ==
    FoldLeft(LAMBDA sum, t : sum + Vector3DotProduct(t[1], Vector3CrossProduct(t[2], t[3])), 0, triangles)

\* Lines that run along the edges of a surface.
AlongEdges(lines, triangles) ==
    LET edges == {{e[1], e[2]} : e \in ToSet(Ways(triangles))}
    IN  \A l \in ToSet(lines) : l[1] = l[2] \/ {l[1], l[2]} \in edges

PointsOn(triangles) == UNION {{t[1], t[2], t[3]} : t \in ToSet(triangles)}

MeshTriangles(mesh) ==
    [t \in 1..TriangleCount(mesh) |-> LET at == Corners(mesh, t - 1)
                                      IN  [k \in 1..3 |-> mesh.vertices[at[k]]]]

\* Each normal is on the side from which its triangle is seen.
LitInFront(mesh) ==
    \A t \in 1..TriangleCount(mesh) :
        LET front == Facing(MeshTriangles(mesh)[t])
        IN  \A k \in 1..3 : Vector3DotProduct(front, mesh.normals[Corners(mesh, t - 1)[k]]) > 0

Sign(n) == CASE n > 0 -> 1 [] n < 0 -> -1 [] OTHER -> 0

\* Along its tangent a surface's texture runs in u, across it in v.
TangentsRun(mesh, tangents) ==
    \A t \in 1..TriangleCount(mesh) : \A k \in 2..3 :
        LET at == Corners(mesh, t - 1)
            edge == Vector3Subtract(mesh.vertices[at[k]], mesh.vertices[at[1]])
            uv == [i \in 1..2 |-> mesh.texcoords[at[k]][i] - mesh.texcoords[at[1]][i]]
            g == tangents[at[1]]
            across == Vector3Scale(Vector3CrossProduct(mesh.normals[at[1]], g.along), g.side)
        IN  /\ Sign(Vector3DotProduct(edge, g.along)) = Sign(uv[1])
            /\ Sign(Vector3DotProduct(edge, across)) = Sign(uv[2])

TangentsFollowTheTexture(mesh) == TangentsRun(mesh, GenMeshTangents(mesh))

\* Closed around a point; the triangles and the point in halves of a grain.
Around(triangles, middle) ==
    /\ Closed(triangles)
    /\ FacesOut([i \in DOMAIN triangles |-> [k \in 1..3 |-> Vector3Scale(triangles[i][k], 2)]], middle)

CubeCloses(b, drawn, wires, mesh, faces) ==
    /\ Around(drawn, Vector3Scale(Grown(b.at), 2))
    /\ AlongEdges(wires, drawn) /\ Cardinality(ToSet(wires)) = 12
    /\ Closed(faces) /\ SixVolumes(faces) * Grain * Grain * Grain = SixVolumes(DrawCube(<<0, 0, 0>>, b.size))
    /\ LitInFront(mesh) /\ TangentsFollowTheTexture(mesh)
    /\ DrawBoundingBox(GetMeshBoundingBox(mesh)) = DrawCubeWires(<<0, 0, 0>>, b.size)

SphereCloses(b, drawn) ==
    /\ Around(drawn, Vector3Scale(Grown(b.at), 2))
    /\ b.slices % 4 = 0 =>
         /\ AlongEdges(DrawSphereWires(b.at, b.radius, b.rings, b.slices), drawn)
         /\ b.rings % 2 = 1 =>
              PointsOn(DrawCapsule(b.at, b.at, b.radius, b.slices, (b.rings + 1) \div 2)) = PointsOn(drawn)

\* The sides of a cylinder as one strip, turned to be seen from outside.
SidesAsStrip(b, tip, n, axis) ==
    LET rung(i) == << AroundAxis(b.at, b.radius, i * (12 \div n), axis[1], axis[2]),
                      AroundAxis(tip, b.top, i * (12 \div n), axis[1], axis[2]) >>
    IN  DrawTriangleStrip3D(FlattenSeq([i \in 1..n + 1 |-> rung(i - 1)]))

StripFits(strip, same, middle) ==
    LET turned == [i \in DOMAIN strip |-> <<strip[i][1], strip[i][3], strip[i][2]>>]
    IN  /\ Fits(strip)
        /\ FacesOut([i \in DOMAIN turned |-> [k \in 1..3 |-> Vector3Scale(turned[i][k], 2)]], middle)
        /\ {ToSet(t) : t \in ToSet(turned)} \subseteq {ToSet(t) : t \in ToSet(same)}

CylinderCloses(b, tip, drawn, same, middle) ==
    /\ Around(drawn, middle) /\ Around(same, middle)
    /\ AlongEdges(DrawCylinderWires(b.at, b.top, b.radius, b.height, b.slices), drawn)
    /\ AlongEdges(DrawCylinderWiresEx(b.at, tip, b.radius, b.top, b.slices), same)
    /\ SixVolumes(drawn) = SixVolumes(same)
    /\ DrawCylinderEx(b.at, b.at, b.radius, b.top, b.slices) = << >>
    /\ StripFits(SidesAsStrip(b, tip, SidesOf(b.slices), Across(<<0, b.height, 0>>)), same, middle)

CapsuleCloses(b, drawn) ==
    /\ Around(drawn, Vector3Add(Grown(b.at), Grown(b.tip)))
    /\ AlongEdges(DrawCapsuleWires(b.at, b.tip, b.radius, b.slices, b.rings), drawn)

SheetFits(b, plane, poly, ground, grid) ==
    LET corner(x, z) == <<Whole(x * b.size[1], 2), 0, Whole(z * b.size[2], 2)>>
    IN  /\ Fits(MeshTriangles(plane)) /\ LitInFront(plane) /\ TangentsFollowTheTexture(plane)
        /\ Len(Proper(MeshTriangles(plane))) = 2 * b.rings * b.slices
        /\ GetMeshBoundingBox(plane) = [min |-> corner(-1, -1), max |-> corner(1, 1)]
        /\ Fits(MeshTriangles(poly)) /\ LitInFront(poly)
        /\ \A t \in ToSet(ground) : Facing(t)[2] > 0
        /\ PointsOn(ground) = {Grown(corner(x, z)) : x \in {-1, 1}, z \in {-1, 1}}
        /\ Cardinality(ToSet(grid)) = Len(grid) /\ Len(grid) = 4 * (b.slices \div 2) + 2

ClosedBody(b) ==
    CASE b.kind = "cube" ->
           CubeCloses(b, DrawCube(b.at, b.size), DrawCubeWires(b.at, b.size), GenMeshCube(b.size),
                      MeshTriangles(GenMeshCube(b.size)))
      [] b.kind = "sphere" -> SphereCloses(b, DrawSphereEx(b.at, b.radius, b.rings, b.slices))
      [] b.kind = "cylinder" ->
           LET tip == Vector3Add(b.at, <<0, b.height, 0>>)
           IN  CylinderCloses(b, tip, DrawCylinder(b.at, b.top, b.radius, b.height, b.slices),
                              DrawCylinderEx(b.at, tip, b.radius, b.top, b.slices),
                              Vector3Add(Grown(b.at), Grown(tip)))
      [] b.kind = "capsule" -> CapsuleCloses(b, DrawCapsule(b.at, b.tip, b.radius, b.slices, b.rings))
      [] b.kind = "sheet" ->
           SheetFits(b, GenMeshPlane(b.size[1], b.size[2], b.rings, b.slices), GenMeshPoly(b.slices, b.radius),
                     DrawPlane(<<0, 0, 0>>, b.size), DrawGrid(b.slices, 2))

\* The blocks of a map where white is solid: closed together, without what is
\* drawn of the black cells, the floor and the ceiling between the blocks.
BlocksClose(p, size, mesh, triangles) ==
    LET white == {c \in DOMAIN p.map : p.map[c] = "white"}
        walls(c) == ToSet(Walls(p.map, p.width, p.height, c[1], c[2]))
        ofBlock(at) == LET low == \A k \in 1..3 : at[k][2] = 0
                           high == \A k \in 1..3 : at[k][2] = size[2]
                           up == Facing(at)[2]
                       IN  ~(low /\ up > 0) /\ ~(high /\ up < 0)
        surface == SelectSeq(triangles, ofBlock)
    IN  /\ LitInFront(mesh)
        /\ Even(surface) /\ SixVolumes(surface) = 6 * size[1] * size[2] * size[3] * Cardinality(white)
        /\ \A c \in white : \A d \in white : c[1] + 1 = d[1] /\ c[2] = d[2] =>
              \A f \in walls(c), g \in walls(d) : f.normal = <<1, 0, 0>> => g.normal # <<-1, 0, 0>>

HillFits(p, hill) ==
    /\ Fits(hill) /\ \A t \in ToSet(hill) : Facing(t)[2] > 0
    /\ Len(hill) = 2 * (p.width - 1) * (p.height - 1)
    /\ \A q \in PointsOn(hill) : (q[2] = 255) = (p.map[<<q[1] \div 2, q[3] \div 2>>] = "white")

\* A map of black and white cells: where white is solid, and how high it is.
SolidPicture(p) ==
    LET size == <<2, 3, 2>>
        blocks == GenMeshCubicmap(p.map, p.width, p.height, size)
        heights == [c \in DOMAIN p.map |-> IF p.map[c] = "white" THEN 255 ELSE 0]
        hill == GenMeshHeightmap(heights, p.width, p.height, <<2 * (p.width - 1), 255, 2 * (p.height - 1)>>)
    IN  BlocksClose(p, size, blocks, MeshTriangles(blocks)) /\ HillFits(p, MeshTriangles(hill))

(* Solids are closed and are seen from outside.  Every edge of a solid is   *)
(* between two triangles, which run along it in opposite directions, and    *)
(* their fronts are outside; wires run along the edges; the mesh, the shape *)
(* that is drawn at once and the one between two points enclose the same    *)
(* space; normals and tangents are on the side that is seen, with the       *)
(* texture; and the blocks of a map are closed whatever their neighbours.   *)
(* One triangle the wrong way round is a hole on the screen, and no call    *)
(* fails.                                                                   *)
SolidsAreClosed ==
    /\ asked.kind = "body" => ClosedBody(asked.body)
    /\ asked.kind = "map" => SolidPicture(asked.picture)
-----------------------------------------------------------------------------
(* Rays. *)

\* A box and its mesh, from outside of the box's planes.
BoxAsMesh(box, boxHit, meshHit) ==
    LET faces == {i \in 1..3 : Abs(boxHit.twice[i] - box.min[i] - box.max[i]) = box.max[i] - box.min[i]}
    IN  /\ boxHit.hit = meshHit.hit
        /\ boxHit.hit => /\ ~Nearer(boxHit, meshHit) /\ ~Nearer(meshHit, boxHit)
                         /\ boxHit.distance[1] > 0
                         /\ Cardinality(faces) = 1 => Vector3DotProduct(boxHit.normal, asked.to) < 0

FaceAsQuad(quad, face) == quad.hit = face.hit /\ (quad.hit => quad.distance = face.distance)

\* A ball that is met, in a direction of length 1.
BallIsRound(ball) ==
    /\ ball.hit = \E t \in -8..8 : CheckCollisionSpheres(
                      Vector3Add(asked.from, Vector3Scale(asked.to, t)), 0, asked.by, 3)
    /\ ball.hit /\ ball.known =>
         /\ Vector3DistanceSqr(ball.point, asked.by) = 9
         /\ Vector3DotProduct(ball.normal, asked.to) <= 0
         /\ Vector3DistanceSqr(asked.from, asked.by) < 9 => ball.distance > 0

BoxesTouch(box, other) ==
    LET within(p, b) == \A i \in 1..3 : b.min[i] <= p[i] /\ p[i] <= b.max[i]
        inside == {<<x, y, z>> : x \in box.min[1]..box.max[1], y \in box.min[2]..box.max[2],
                                 z \in box.min[3]..box.max[3]}
    IN  /\ CheckCollisionBoxes(box, other) = \E p \in inside : within(p, other)
        /\ CheckCollisionBoxes(box, other) = CheckCollisionBoxes(other, box)
        /\ \A r \in 0..3 : CheckCollisionBoxSphere(box, asked.from, r)
             = \E p \in inside : CheckCollisionSpheres(p, 0, asked.from, r)

MeetsTheSame(ray, mesh, moved, box) ==
    LET touching == \E i \in 1..3 : asked.from[i] \in {box.min[i], box.max[i]}
        corner(k) == Vector3Add(mesh.vertices[k], asked.by)
    IN  /\ ~touching => BoxAsMesh(box, GetRayCollisionBox(ray, box), GetRayCollisionMesh(ray, mesh, moved))
        /\ FaceAsQuad(GetRayCollisionQuad(ray, corner(1), corner(2), corner(3), corner(4)),
                      GetRayCollisionMesh(ray, [mesh EXCEPT !.indices = SubSeq(@, 1, 6)], moved))
        /\ Vector3LengthSqr(asked.to) = 1 => BallIsRound(GetRayCollisionSphere(ray, asked.by, 3))
        /\ BoxesTouch(box, [min |-> Vector3Min(asked.from, asked.to), max |-> Vector3Max(asked.from, asked.to)])

MovedMeetsTheSame(mesh, moved) ==
    MeetsTheSame([position |-> asked.from, direction |-> asked.to], mesh, moved,
                 GetModelBoundingBox(<<mesh, GenMeshPlane(2, 2, 1, 1)>>, moved))

(* Every test of a ray or of two bodies says the same of the same place: a  *)
(* box is hit where and at the distance its mesh is, its face as a quad     *)
(* too; a sphere is hit by a ray whose line comes near enough, at a point   *)
(* of its surface; the normal looks back along the ray, from inside as      *)
(* well; and bodies touch when a point of one lies in the other.            *)
RaysMeetTheSame ==
    asked.kind = "ray" =>
        MovedMeetsTheSame(GenMeshCube(<<2, 4, 2>>), MatrixTranslate(asked.by[1], asked.by[2], asked.by[3]))
-----------------------------------------------------------------------------
(* Models that move. *)

Still == [translation |-> <<0, 0, 0>>, rotation |-> QuaternionIdentity, scale |-> <<1, 1, 1>>]

\* A vertex, its normal, and the bones that move it with their weights.
Vertex  == <<1, -2, 3>>
Normal  == <<0, 1, 0>>
Weights == <<2, 0, 1, 1>>
Bones   == <<1, 2, 3, 1>>

\* Moved by its root, between two equal poses: asOne are the bones' matrices.
MovesAsOne(asOne, root) ==
    /\ SkinnedVertex(Vertex, asOne, Bones, Weights) = Vector3Scale(Vector3Transform(Vertex, root), 4)
    /\ SkinnedNormal(Normal, asOne, Bones, Weights)
         = Vector3Scale(Vector3RotateByQuaternion(Normal, asked.q), 4)

\* Between its own pose and one that is moved by twice d.
Slides(sliding) ==
    SkinnedVertex(Vertex, sliding, Bones, Weights)
      = Vector3Scale(Vector3Add(Vertex, Vector3Scale(asked.d, <<0, 1, 2, 1>>[(asked.frame % 4) + 1])), 4)

\* Drawn with a matrix of its own, turned, stretched and moved.
DrawsWhere(at, axis, scale) ==
    Vector3Transform(Vertex, DrawnAt(at, asked.d, axis, asked.frame, scale))
      = Vector3Add(asked.d, Vector3RotateByAxisAngle(
            Vector3Multiply(Vector3Transform(Vertex, at), scale), axis, asked.frame))

RigidFollows(rigid) ==
    LET turned == [b \in 1..3 |-> [Still EXCEPT
                      !.rotation = QuaternionMultiply(asked.q, rigid[b].rotation),
                      !.translation = Vector3Add(Vector3RotateByQuaternion(rigid[b].translation, asked.q), asked.d)]]
        shifted == [b \in 1..3 |-> [rigid[b] EXCEPT !.translation = Vector3Add(@, Vector3Scale(asked.d, 2))]]
    IN  /\ MovesAsOne(UpdateModelAnimation(rigid, <<turned, turned>>, asked.frame),
                      PoseMatrix([Still EXCEPT !.rotation = asked.q, !.translation = asked.d]))
        /\ Slides(UpdateModelAnimation(rigid, <<rigid, shifted>>, asked.frame))
        /\ DrawsWhere(PoseMatrix(rigid[2]), <<0, 0, 2>>, <<2, 3, 1>>)

PoseFollows(local, posed) ==
    /\ \A b \in 2..3 : PoseMatrix(posed[b]) = MatrixMultiply(PoseMatrix(local[b]), PoseMatrix(posed[b - 1]))
    /\ posed[4] = local[4]
    /\ RigidFollows([b \in 1..3 |-> [posed[b] EXCEPT !.scale = <<1, 1, 1>>]])

\* A board for each pair of signs of its size.
FacesTheCamera(board, position) ==
    LET places(s) == {board[s][k].at : k \in 1..4}
    IN  /\ \A s \in DOMAIN board : places(s) = places(<<1, 1>>)
        /\ \A p \in places(<<1, 1>>) : p[3] = position[3]
        /\ {board[<<1, 1>>][k].texel : k \in 1..4} = {0, 8} \X {0, 8}

(* A skeleton moves its skin as one body.  A bone's place is its parent's   *)
(* after its own; moved by its root the whole skin follows, whatever the    *)
(* weights; between two frames and past the last one the pose is between    *)
(* its neighbours; and a picture that faces the camera keeps its corners    *)
(* when its sizes are negative.                                             *)
SkinsFollowBones ==
    asked.kind = "skeleton" =>
        LET local == << [Still EXCEPT !.translation = asked.d, !.rotation = asked.p, !.scale = <<2, 2, 2>>],
                        [Still EXCEPT !.translation = <<0, 2, 0>>, !.rotation = asked.q],
                        [Still EXCEPT !.translation = <<4, 0, -2>>, !.rotation = asked.p],
                        [Still EXCEPT !.translation = <<2, 2, 2>>] >>
            camera == [position |-> <<0, 0, 5>>, target |-> <<0, 0, 1>>, up |-> <<0, 1, 0>>]
            source == [x |-> 0, y |-> 0, width |-> 8, height |-> 8]
            Board(sx, sy) == DrawBillboardPro(camera, source, asked.d, <<0, 1, 0>>, <<2 * sx, 3 * sy>>,
                                              <<sx, sy>>, asked.frame % 4)
        IN  /\ PoseFollows(local, BuildPoseFromParentJoints(<<-1, 0, 1, 5>>, local))
            /\ FacesTheCamera([s \in {-1, 1} \X {-1, 1} |-> Board(s[1], s[2])], asked.d)
=============================================================================
