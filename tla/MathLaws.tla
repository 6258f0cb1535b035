------------------------------ MODULE MathLaws ------------------------------
(* Questions about vectors, matrices, rotations and the screen, and what     *)
(* their answers have to be.                                                 *)
EXTENDS Raymath, FiniteSets

CONSTANTS
    Matrices,       \* affine, with whole fields
    Turns,          \* rotations, as units of quaternions
    Arrows,         \* vectors
    Cameras,        \* 3D
    Spots,          \* of a screen of Width by Height
    Width, Height

VARIABLE asked

AskMatrices ==
    \E A \in Matrices, B \in Matrices, C \in Matrices :
        asked' = [kind |-> "matrices", A |-> A, B |-> B, C |-> C]

AskRotations ==
    \E p \in Turns, q \in Turns, v \in Arrows :
        asked' = [kind |-> "rotations", p |-> p, q |-> q, v |-> v]

AskAngles ==
    \E x \in 0..3, y \in 0..3, z \in 0..3, v \in Arrows :
        asked' = [kind |-> "angles", turns |-> <<x, y, z>>, v |-> v]

AskVectors ==
    \E v \in Arrows, w \in Arrows, u \in Arrows :
        asked' = [kind |-> "vectors", v |-> v, w |-> w, u |-> u]

AskScreen ==
    \E camera \in Cameras, pixel \in Spots, steps \in 1..3 :
        asked' = [kind |-> "screen", camera |-> camera, pixel |-> pixel, steps |-> steps]

AskPlane ==
    \E target \in Spots, offset \in Spots, zoom \in 1..3, turns \in 0..3, pixel \in Spots :
        asked' = [kind |-> "plane", pixel |-> pixel,
                  camera |-> [target |-> target, offset |-> offset, zoom |-> zoom, rotation |-> turns]]

AskMove ==
    \E camera \in Cameras, distance \in -3..3, turns \in 0..3, held \in BOOLEAN :
        asked' = [kind |-> "move", camera |-> camera, distance |-> distance, turns |-> turns,
                  held |-> held]

AskFrustum ==
    \E left, bottom \in -2..0, right, top \in 1..2, near \in 1..2, far \in 3..5 :
        asked' = [kind |-> "frustum", left |-> left, bottom |-> bottom, right |-> right, top |-> top,
                  near |-> near, far |-> far]
-----------------------------------------------------------------------------
(* Matrices compose: the product is first its left, then its right factor, *)
(* for points, for inverses and for transposes, and the determinant        *)
(* multiplies.  The matrix stack, the cameras and every model's transform  *)
(* rest on this order.                                                     *)
MatricesCompose ==
    asked.kind = "matrices" =>
        LET A == asked.A
            B == asked.B
            AB == MatrixMultiply(A, B)
            points == {<<1, 0, 0>>, <<-2, 1, 3>>}
        IN  /\ MatrixMultiply(AB, asked.C) = MatrixMultiply(A, MatrixMultiply(B, asked.C))
            /\ \A v \in points : Vector3Transform(Vector3Transform(v, A), B) = Vector3Transform(v, AB)
            /\ MatrixDeterminant(AB) = MatrixDeterminant(A) * MatrixDeterminant(B)
            /\ MatrixTranspose(AB) = MatrixMultiply(MatrixTranspose(B), MatrixTranspose(A))
            /\ MatrixMultiply(A, MatrixInvert(A))
                 = MatrixMultiplyValue(MatrixIdentity, MatrixDeterminant(A))
            /\ MatrixMultiply(MatrixAdd(A, B), asked.C)
                 = MatrixAdd(MatrixMultiply(A, asked.C), MatrixMultiply(B, asked.C))
            /\ MatrixMultiply(asked.C, MatrixSubtract(A, B))
                 = MatrixSubtract(MatrixMultiply(asked.C, A), MatrixMultiply(asked.C, B))
            /\ MatrixTrace(AB) = MatrixTrace(MatrixMultiply(B, A))

(* The ways to write a rotation agree: turning by a product of quaternions *)
(* is turning by one and then the other, the matrix of a quaternion turns  *)
(* as it does, and the quaternion of that matrix is it again, up to sign.  *)
QuaternionsRotate ==
    asked.kind = "rotations" =>
        LET p == asked.p
            q == asked.q
            v == asked.v
            turned == Vector3RotateByQuaternion(v, q)
        IN  /\ Vector3RotateByQuaternion(turned, p)
                 = Vector3RotateByQuaternion(v, QuaternionMultiply(p, q))
            /\ Vector3Transform(v, QuaternionToMatrix(q)) = turned
            /\ Vector3LengthSqr(turned) = Vector3LengthSqr(v)
            /\ Vector3RotateByQuaternion(turned, QuaternionInvert(q)) = v
            /\ QuaternionEquals(QuaternionFromMatrix(QuaternionToMatrix(q)), q)
            /\ QuaternionMultiply(p, QuaternionSubtract(QuaternionAdd(q, p), QuaternionIdentity))
                 = QuaternionSubtract(QuaternionAdd(QuaternionMultiply(p, q), QuaternionMultiply(p, p)), p)
            /\ LET composed == MatrixCompose(v, q, <<2, 2, 2>>)
                   parts == MatrixDecompose(composed)
               IN  /\ Vector3Transform(<<1, 1, 2>>, composed)
                        = Vector3Add(Vector3Scale(Vector3RotateByQuaternion(<<1, 1, 2>>, q), 2), v)
                   /\ parts.translation = v
                   /\ parts.scale = <<2, 2, 2>>
                   /\ QuaternionEquals(parts.rotation, q)

(* A turn by an angle is the same turn however it is written, and the      *)
(* matrices of three angles are the product of three turns, in the order   *)
(* their names say.                                                        *)
AnglesAgree ==
    asked.kind = "angles" =>
        LET t == asked.turns
            x == MatrixRotateX(t[1])
            y == MatrixRotateY(t[2])
            z == MatrixRotateZ(t[3])
            axes == {<<1, 0, 0>>, <<0, -2, 0>>, <<0, 0, 3>>}
        IN  /\ x = MatrixRotate(<<1, 0, 0>>, t[1])
            /\ y = MatrixRotate(<<0, 3, 0>>, t[2])
            /\ z = MatrixRotate(<<0, 0, 1>>, t[3])
            /\ MatrixRotateZYX(t) = MatrixMultiply(MatrixMultiply(x, y), z)
            /\ MatrixRotateXYZ(t) = MatrixMultiply(MatrixMultiply(z, y), x)
            /\ \A axis \in axes :
                 LET turned == Vector3RotateByAxisAngle(asked.v, axis, t[1])
                 IN  /\ Vector3Transform(asked.v, MatrixRotate(axis, t[1])) = turned
                     /\ t[1] % 2 = 0 =>
                          Vector3RotateByQuaternion(asked.v, QuaternionFromAxisAngle(axis, t[1])) = turned
            /\ (\A i \in 1..3 : t[i] % 2 = 0) =>
                 QuaternionToMatrix(QuaternionFromEuler(t[1], t[2], t[3])) = MatrixRotateZYX(t)

(* The vector functions measure what they are named for: what is across is *)
(* across to both, what is projected and what is left make up the whole,   *)
(* a mirror undoes itself, and weights of a triangle's corners give the    *)
(* point back.                                                             *)
VectorsMeasure ==
    asked.kind = "vectors" =>
        LET v == asked.v
            w == asked.w
            u == asked.u
            across == Vector3CrossProduct(v, w)
            along == Vector3DotProduct(v, w)
            corner(i, j) == Vector3Add(u, Vector3Add(Vector3Scale(v, i), Vector3Scale(w, j)))
        IN  /\ Vector3DotProduct(across, v) = 0 /\ Vector3DotProduct(across, w) = 0
            /\ Vector3LengthSqr(across) + along * along = Vector3LengthSqr(v) * Vector3LengthSqr(w)
            /\ Vector3Add(Vector3Project(v, w), Vector3Reject(v, w))
                 = Vector3Scale(v, Vector3LengthSqr(w))
            /\ Vector3DotProduct(Vector3Reject(v, w), w) = 0
            /\ Vector3DotProduct(Vector3Perpendicular(v), v) = 0
            /\ Vector3Perpendicular(v) # <<0, 0, 0>>
            /\ Vector3DotProduct(Vector3OrthoNormalize(v, w), v) = 0
            /\ \A n \in {<<1, 0, 0>>, <<0, -1, 0>>} :
                 Vector3Reflect(Vector3Reflect(v, n), n) = v
            /\ LET turn == QuaternionFromVector3ToVector3(Vector3Normalize(v), Vector3Normalize(w))
               IN  Vector3LengthSqr(v) = 1 /\ w \in {<<0, 0, 2>>, <<1, 0, 0>>, <<-1, 0, 0>>} =>
                      Vector3RotateByQuaternion(v, QuaternionScale(turn, One))
                        = Vector3Scale(Vector3Normalize(w), QuaternionLengthSqr(turn))
            /\ across # <<0, 0, 0>> =>
                 \A i, j \in -1..2 :
                    LET weights == Vector3Barycenter(corner(i, j), u, corner(1, 0), corner(0, 1))
                    IN  weights = <<(1 - i - j) * weights[4], i * weights[4], j * weights[4], weights[4]>>
            /\ Vector3CubicHermite(v, u, w, u, 0) = v /\ Vector3CubicHermite(v, u, w, u, 1) = w
            /\ \A k \in -1..6 :
                 LET near == Vector3MoveTowards(v, Vector3Add(v, Vector3Scale(<<2, 2, -1>>, 2)), 3 * k)
                 IN  near = Vector3Add(v, Vector3Scale(<<2, 2, -1>>, IF k > 2 THEN 2 ELSE k))
            /\ Vector3Lerp(v, w, 0) = v /\ Vector3Lerp(v, w, 1) = w
            /\ Vector3Lerp(v, w, 3) = Vector3Lerp(w, v, -2)

\* A vector in the plane.
InPlane(v) == <<v[1], v[2]>>

(* Vectors of two numbers are those of three without the third: turns,      *)
(* products, mirrors and moves agree, and numbers that are held, wrapped or *)
(* mapped to another range come back.                                       *)
PlaneAgreesWithSpace ==
    asked.kind = "vectors" =>
        LET v == InPlane(asked.v)
            w == InPlane(asked.w)
            u == InPlane(asked.u)
            space(a) == <<a[1], a[2], 0>>
            lift == MatrixMultiply(MatrixRotateZ(1), MatrixTranslate(u[1], u[2], 0))
        IN  /\ \A t \in 0..3 :
                 /\ Vector2Rotate(v, t) = Vector2Transform(v, MatrixRotateZ(t))
                 /\ Vector2CrossProduct(Vector2Rotate(v, t), Vector2Rotate(w, t)) = Vector2CrossProduct(v, w)
            /\ space(Vector2Transform(v, lift)) = Vector3Transform(space(v), lift)
            /\ space(Vector2Add(v, Vector2Negate(w))) = space(Vector2Subtract(v, w))
            /\ <<0, 0, Vector2CrossProduct(v, w)>> = Vector3CrossProduct(space(v), space(w))
            /\ LET dot == Vector2DotProduct(v, w)
                   cross == Vector2CrossProduct(v, w)
               IN  /\ dot * dot + cross * cross = Vector2LengthSqr(v) * Vector2LengthSqr(w)
                   /\ Vector2DistanceSqr(v, w) = Vector2LengthSqr(v) + Vector2LengthSqr(w) - 2 * dot
            /\ \A n \in {<<1, 0>>, <<0, -1>>} :
                 /\ Vector2Reflect(Vector2Reflect(v, n), n) = v
                 /\ space(Vector2Reflect(v, n)) = Vector3Reflect(space(v), space(n))
            /\ \A k \in -1..4 : LET goal == Vector2Add(v, Vector2Scale(<<3, -4>>, 2))
                               IN  space(Vector2MoveTowards(v, goal, 5 * k))
                                     = Vector3MoveTowards(space(v), space(goal), 5 * k)
            /\ LET held == Vector2Clamp(v, <<-1, -2>>, <<1, 3>>)
               IN  held = <<Clamp(v[1], -1, 1), Clamp(v[2], -2, 3)>> /\ Vector2Clamp(held, <<-1, -2>>, <<1, 3>>) = held
            /\ \A x \in -5..5 :
                 /\ Wrap(x, -1, 2) \in -1..1 /\ Wrap(x + 3, -1, 2) = Wrap(x, -1, 2)
                 /\ Remap(Remap(x, -1, 2, 4, 10), 4, 10, -1, 2) = x

(* What a camera sees reaches exactly to the corners it was asked for, near *)
(* and far, whether it sees in perspective or not.                          *)
FrustumsReachTheirCorners ==
    asked.kind = "frustum" =>
        LET a == asked
            seen == MatrixFrustum(a.left, a.right, a.bottom, a.top, a.near, a.far)
            flat == MatrixOrtho(a.left, a.right, a.bottom, a.top, a.near, a.far)
            at(x, y, z, A) == QuaternionTransform(<<x, y, -z, 1>>, A)
            low(c) == c[4] # 0 /\ c = <<-c[4], -c[4], -c[4], c[4]>>
            high(c) == c[4] # 0 /\ c = <<c[4], c[4], c[4], c[4]>>
        IN  /\ low(at(a.left, a.bottom, a.near, seen)) /\ low(at(a.left, a.bottom, a.near, flat))
            /\ high(QuaternionTransform(<<a.right * a.far, a.top * a.far, -a.far * a.near, a.near>>, seen))
            /\ high(at(a.right, a.top, a.far, flat))
            /\ LET slope == MatrixPerspective(a.top, a.right, a.top, 1, a.far)
                   sides == MatrixFrustum(-a.right, a.right, -a.top, a.top, 1, a.far)
               IN  \A i, j \in 0..15 : slope[i] * sides[j] = slope[j] * sides[i]

(* A camera that moves keeps what it does not move: a step forth and back   *)
(* returns, a view turned about either end looks the same way, four quarter *)
(* turns are none, and up stays across to the view as long as it is turned  *)
(* with it.                                                                 *)
CamerasMoveBack ==
    asked.kind = "move" =>
        LET camera == asked.camera
            by == asked.distance
            t == asked.turns
            held == asked.held
            forward == GetCameraForward(camera)
            view(c) == Vector3Subtract(c.target, c.position)
            ahead == CameraMoveForward(camera, by, held)
            aside == CameraMoveRight(camera, by, held)
            yawed == CameraYaw(camera, t, TRUE)
            pitched == CameraPitch(camera, t, held, TRUE)
            rolled == CameraRoll(camera, t)
            nearer == CameraMoveToTarget(camera, by, 1)
        IN  /\ CameraMoveForward(ahead, -by, held) = camera /\ CameraMoveRight(aside, -by, held) = camera
            /\ CameraMoveUp(CameraMoveUp(camera, by), -by) = camera
            /\ ahead.position = Vector3Add(camera.position, Vector3Scale(forward, by))
            /\ Vector3DotProduct(Vector3Subtract(aside.position, camera.position), forward) = 0
            /\ Vector3DotProduct(Vector3Subtract(aside.position, camera.position), camera.up) = 0
            /\ yawed.target = camera.target /\ CameraYaw(camera, t, FALSE).position = camera.position
            /\ GetCameraForward(yawed) = GetCameraForward(CameraYaw(camera, t, FALSE))
            /\ CameraYaw(yawed, 4 - t, TRUE) = camera
            /\ t = 1 => GetCameraForward(yawed) = Vector3Negate(GetCameraRight(camera))
            /\ Vector3LengthSqr(view(pitched)) = Vector3LengthSqr(view(camera))
            /\ Vector3DotProduct(pitched.up, view(pitched)) = 0
            /\ CameraPitch(pitched, -t, held, TRUE) = camera
            /\ t = 1 => Vector3DotProduct(view(CameraPitch(camera, 1, held, FALSE)), camera.up) > 0
            /\ view(rolled) = view(camera) /\ Vector3DotProduct(rolled.up, view(camera)) = 0
            /\ CameraRoll(rolled, -t) = camera
            /\ nearer.target = camera.target /\ GetCameraForward(nearer) = forward
            /\ Vector3Length(view(nearer)) = Greatest(Vector3Length(view(camera)) + by, 1)

OnPixel(seen, pixel) ==
    seen[3] # 0 /\ seen[1] = pixel[1] * seen[3] /\ seen[2] = pixel[2] * seen[3]

AlongRay(ray, steps) ==
    Append([i \in 1..3 |-> ray.position[i] + steps * ray.position[4] * ray.direction[i]], ray.position[4])

RayMeets(ray, pixel) ==
    /\ OnPixel(GetWorldToScreenEx(AlongRay(ray, asked.steps), asked.camera, Width, Height), pixel)
    /\ Vector3DotProduct(ray.direction, GetCameraForward(asked.camera)) > 0

(* The ray from a pixel of the screen goes through what is drawn on that   *)
(* pixel, for both kinds of camera, and forwards; and a point of the plane *)
(* found from the screen is on the screen where it was found.              *)
RaysMeetTheirPixels ==
    asked.kind = "screen" =>
        RayMeets(GetScreenToWorldRayEx(Append(asked.pixel, 1), asked.camera, Width, Height),
                 Append(asked.pixel, 1))

PlanesMeetTheirPixels ==
    asked.kind = "plane" =>
        LET returns(back) == back = <<asked.pixel[1] * back[3], asked.pixel[2] * back[3], back[3]>>
        IN  /\ returns(GetScreenToWorld2D(GetWorldToScreen2D(asked.pixel, asked.camera), asked.camera))
            /\ GetWorldToScreen2D(asked.camera.target, asked.camera) = asked.camera.offset

(* Everything that places a point agrees: matrices and their products, the  *)
(* ways to write a rotation, and the screen and the world seen through it.  *)
(* Models, bones, cameras and the matrix stack share these functions, and   *)
(* swapped factors or a missing sign show only for a general turn.          *)
TransformsAgree ==
    /\ MatricesCompose /\ QuaternionsRotate /\ AnglesAgree /\ VectorsMeasure
    /\ RaysMeetTheirPixels /\ PlanesMeetTheirPixels
    /\ PlaneAgreesWithSpace /\ FrustumsReachTheirCorners /\ CamerasMoveBack
=============================================================================
