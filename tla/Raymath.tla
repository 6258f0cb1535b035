------------------------------ MODULE Raymath ------------------------------
(***************************************************************************)
(* Vectors, matrices and quaternions of raylib (raymath.h), the way        *)
(* between the world and the screen (rcore.c) and the moves of a camera    *)
(* (rcamera.h), over numbers that floats hold exactly: rounding is not     *)
(* modelled.                                                               *)
(*                                                                         *)
(* A vector is a tuple of integers.  A matrix is the function from the     *)
(* number of a field to the field, so A[12] is m12.  The components of a   *)
(* quaternion are in units of 1/2 (One is 1.0), which holds the 24 units   *)
(* of the tetrahedral group.  Angles are in quarter turns, for which the   *)
(* sine and the cosine are exact.  A division or a square root stands      *)
(* where the result is exact; the laws are stated for such inputs.         *)
(*                                                                         *)
(* A matrix that projects stands for its multiples, and a point that was   *)
(* projected carries its divisor as the last field.  A camera looks from   *)
(* `position` to `target`; `fovy` is the tangent of half the angle of a    *)
(* perspective camera, half the height that an orthographic one sees.      *)
(***************************************************************************)
EXTENDS Numbers, Sequences

Sqrt(n) == CHOOSE r \in 0..n : r * r = n

Cos(turns) == CASE turns % 4 = 0 -> 1 [] turns % 4 = 2 -> -1 [] OTHER -> 0
Sin(turns) == Cos(turns - 1)
-----------------------------------------------------------------------------
(* Numbers. *)

Clamp(value, min, max) ==
    LET low == IF value < min THEN min ELSE value
    IN  IF low > max THEN max ELSE low

Wrap(value, min, max) == value - (max - min) * ((value - min) \div (max - min))

Remap(value, inputStart, inputEnd, outputStart, outputEnd) ==
    Over((value - inputStart) * (outputEnd - outputStart), inputEnd - inputStart)
      + outputStart
-----------------------------------------------------------------------------
(* Vectors of two numbers. *)

Vector2Add(v, w)          == <<v[1] + w[1], v[2] + w[2]>>
Vector2Subtract(v, w)     == <<v[1] - w[1], v[2] - w[2]>>
Vector2Scale(v, k)        == <<v[1] * k, v[2] * k>>
Vector2Negate(v)          == <<-v[1], -v[2]>>
Vector2DotProduct(v, w)   == v[1] * w[1] + v[2] * w[2]
Vector2CrossProduct(v, w) == v[1] * w[2] - v[2] * w[1]
Vector2LengthSqr(v)       == v[1] * v[1] + v[2] * v[2]
Vector2DistanceSqr(v, w)  == Vector2LengthSqr(Vector2Subtract(v, w))

Vector2Transform(v, A) ==
    <<A[0] * v[1] + A[4] * v[2] + A[12], A[1] * v[1] + A[5] * v[2] + A[13]>>

Vector2Rotate(v, turns) ==
    <<v[1] * Cos(turns) - v[2] * Sin(turns), v[1] * Sin(turns) + v[2] * Cos(turns)>>

Vector2Reflect(v, normal) ==
    LET dot == Vector2DotProduct(v, normal)
    IN  <<v[1] - 2 * normal[1] * dot, v[2] - 2 * normal[2] * dot>>

Vector2Clamp(v, min, max) ==
    [i \in 1..2 |-> Least(max[i], Greatest(min[i], v[i]))]

Vector2MoveTowards(v, target, maxDistance) ==
    LET d == Vector2Subtract(target, v)
        value == Vector2LengthSqr(d)
    IN  IF value = 0 \/ (maxDistance >= 0 /\ value <= maxDistance * maxDistance)
        THEN target
        ELSE [i \in 1..2 |-> v[i] + Over(d[i] * maxDistance, Sqrt(value))]
-----------------------------------------------------------------------------
(* Vectors of three numbers. *)

Vector3Add(v, w)        == [i \in 1..3 |-> v[i] + w[i]]
Vector3Subtract(v, w)   == [i \in 1..3 |-> v[i] - w[i]]
Vector3Scale(v, k)      == [i \in 1..3 |-> v[i] * k]
Vector3Multiply(v, w)   == [i \in 1..3 |-> v[i] * w[i]]
Vector3Negate(v)        == [i \in 1..3 |-> -v[i]]
Vector3Min(v, w)        == [i \in 1..3 |-> Least(v[i], w[i])]
Vector3Max(v, w)        == [i \in 1..3 |-> Greatest(v[i], w[i])]
Vector3DotProduct(v, w) == v[1] * w[1] + v[2] * w[2] + v[3] * w[3]
Vector3LengthSqr(v)     == Vector3DotProduct(v, v)
Vector3Length(v)        == Sqrt(Vector3LengthSqr(v))
Vector3DistanceSqr(v, w) == Vector3LengthSqr(Vector3Subtract(w, v))

Vector3CrossProduct(v, w) ==
    <<v[2] * w[3] - v[3] * w[2], v[3] * w[1] - v[1] * w[3], v[1] * w[2] - v[2] * w[1]>>

Vector3Normalize(v) ==
    IF Vector3LengthSqr(v) = 0 THEN v
    ELSE [i \in 1..3 |-> Over(v[i], Vector3Length(v))]

\* Across v and the axis that v is the farthest from.
Vector3Perpendicular(v) ==
    LET least == IF Abs(v[2]) < Abs(v[1]) THEN Abs(v[2]) ELSE Abs(v[1])
        axis == CASE Abs(v[3]) < least     -> <<0, 0, 1>>
                  [] Abs(v[2]) < Abs(v[1]) -> <<0, 1, 0>>
                  [] OTHER                 -> <<1, 0, 0>>
    IN  Vector3CrossProduct(v, axis)

Vector3Reflect(v, normal) ==
    Vector3Subtract(v, Vector3Scale(normal, 2 * Vector3DotProduct(v, normal)))

\* v along w, times the square of w's length (the code divides by it).
Vector3Project(v, w) == Vector3Scale(w, Vector3DotProduct(v, w))

\* The rest of v, times the square of w's length.
Vector3Reject(v, w) ==
    Vector3Subtract(Vector3Scale(v, Vector3LengthSqr(w)), Vector3Project(v, w))

\* The second vector: both times their lengths.
Vector3OrthoNormalize(v, w) ==
    Vector3CrossProduct(Vector3CrossProduct(v, w), v)

Vector3Transform(v, A) ==
    [i \in 1..3 |->
        A[i - 1] * v[1] + A[i + 3] * v[2] + A[i + 7] * v[3] + A[i + 11]]

Vector3MoveTowards(v, target, maxDistance) ==
    LET d == Vector3Subtract(target, v)
        value == Vector3LengthSqr(d)
    IN  IF value = 0 \/ (maxDistance >= 0 /\ value <= maxDistance * maxDistance)
        THEN target
        ELSE [i \in 1..3 |-> v[i] + Over(d[i] * maxDistance, Sqrt(value))]

Vector3Lerp(v, w, amount) == [i \in 1..3 |-> v[i] + amount * (w[i] - v[i])]

Vector3CubicHermite(v, t, w, u, amount) ==
    LET a2 == amount * amount
        a3 == a2 * amount
    IN  [i \in 1..3 |-> (2 * a3 - 3 * a2 + 1) * v[i] + (a3 - 2 * a2 + amount) * t[i]
                          + (3 * a2 - 2 * a3) * w[i] + (a3 - a2) * u[i]]

\* The weights of a, b and c in p, times denom, and denom.
Vector3Barycenter(p, a, b, c) ==
    LET v0 == Vector3Subtract(b, a)
        v1 == Vector3Subtract(c, a)
        v2 == Vector3Subtract(p, a)
        d00 == Vector3DotProduct(v0, v0)
        d01 == Vector3DotProduct(v0, v1)
        d11 == Vector3DotProduct(v1, v1)
        d20 == Vector3DotProduct(v2, v0)
        d21 == Vector3DotProduct(v2, v1)
        denom == d00 * d11 - d01 * d01
        y == d11 * d20 - d01 * d21
        z == d00 * d21 - d01 * d20
    IN  <<denom - (z + y), y, z, denom>>
-----------------------------------------------------------------------------
(* Matrices.  The fields of the struct are declared row by row: an         *)
(* initialiser lists m0, m4, m8, m12, m1, ...                              *)

Initialised(list) == [k \in 0..15 |-> list[4 * (k % 4) + (k \div 4) + 1]]
MatrixToFloatV(A) == [i \in 1..16 |-> A[i - 1]]

MatrixIdentity == Initialised(<<1, 0, 0, 0,  0, 1, 0, 0,  0, 0, 1, 0,  0, 0, 0, 1>>)

MatrixDeterminant(A) ==
    LET two(i, j, k, l) == A[i] * A[l] - A[j] * A[k]
    IN    A[0]  * (A[5] * two(10, 11, 14, 15) - A[9] * two(6, 7, 14, 15) + A[13] * two(6, 7, 10, 11))
        - A[4]  * (A[1] * two(10, 11, 14, 15) - A[9] * two(2, 3, 14, 15) + A[13] * two(2, 3, 10, 11))
        + A[8]  * (A[1] * two(6, 7, 14, 15)   - A[5] * two(2, 3, 14, 15) + A[13] * two(2, 3, 6, 7))
        - A[12] * (A[1] * two(6, 7, 10, 11)   - A[5] * two(2, 3, 10, 11) + A[9] * two(2, 3, 6, 7))

MatrixTrace(A)     == A[0] + A[5] + A[10] + A[15]
MatrixTranspose(A) == [k \in 0..15 |-> A[4 * (k % 4) + (k \div 4)]]
MatrixAdd(A, B)      == [k \in 0..15 |-> A[k] + B[k]]
MatrixSubtract(A, B) == [k \in 0..15 |-> A[k] - B[k]]

\* First `left`, then `right`.
MatrixMultiply(left, right) ==
    [k \in 0..15 |->
        LET row == 4 * (k \div 4)
            column == k % 4
        IN  left[row] * right[column] + left[row + 1] * right[column + 4]
              + left[row + 2] * right[column + 8] + left[row + 3] * right[column + 12]]

MatrixMultiplyValue(A, value) ==
    LET a(k) == A[k] * value
    IN  Initialised(<<a(0), a(4), a(8),  a(12), a(1), a(5), a(9),  a(13),
                      a(2), a(6), a(10), a(14), a(3), a(7), a(11), a(15)>>)

\* The rows a0 to a3 of the adjugate, one field after the other.
Adjugate(A) ==
    LET b00 == A[0] * A[5] - A[1] * A[4]
        b01 == A[0] * A[6] - A[2] * A[4]
        b02 == A[0] * A[7] - A[3] * A[4]
        b03 == A[1] * A[6] - A[2] * A[5]
        b04 == A[1] * A[7] - A[3] * A[5]
        b05 == A[2] * A[7] - A[3] * A[6]
        b06 == A[8] * A[13] - A[9] * A[12]
        b07 == A[8] * A[14] - A[10] * A[12]
        b08 == A[8] * A[15] - A[11] * A[12]
        b09 == A[9] * A[14] - A[10] * A[13]
        b10 == A[9] * A[15] - A[11] * A[13]
        b11 == A[10] * A[15] - A[11] * A[14]
    IN  [of  |-> << A[5] * b11 - A[6] * b10 + A[7] * b09,
                    -A[1] * b11 + A[2] * b10 - A[3] * b09,
                    A[13] * b05 - A[14] * b04 + A[15] * b03,
                    -A[9] * b05 + A[10] * b04 - A[11] * b03,
                    -A[4] * b11 + A[6] * b08 - A[7] * b07,
                    A[0] * b11 - A[2] * b08 + A[3] * b07,
                    -A[12] * b05 + A[14] * b02 - A[15] * b01,
                    A[8] * b05 - A[10] * b02 + A[11] * b01,
                    A[4] * b10 - A[5] * b08 + A[7] * b06,
                    -A[0] * b10 + A[1] * b08 - A[3] * b06,
                    A[12] * b04 - A[13] * b02 + A[15] * b00,
                    -A[8] * b04 + A[9] * b02 - A[11] * b00,
                    -A[4] * b09 + A[5] * b07 - A[6] * b06,
                    A[0] * b09 - A[1] * b07 + A[2] * b06,
                    -A[12] * b03 + A[13] * b01 - A[14] * b00,
                    A[8] * b03 - A[9] * b01 + A[10] * b00 >>,
         det |-> b00 * b11 - b01 * b10 + b02 * b09 + b03 * b08 - b04 * b07 + b05 * b06]

\* Times the determinant, by which the code divides.
MatrixInvert(A) ==
    LET adj == Adjugate(A) IN [k \in 0..15 |-> adj.of[k + 1]]

\* Points with their divisor: <<x, y, z, w>> is the point (x/w, y/w, z/w).  Both
\* matrices of this function are written as initialisers, in the order m0, m1,
\* m2, ...: each is the transpose of what its comment says.
Vector3Unproject(source, projection, view) ==
    LET product == MatrixMultiply(view, projection)
        adj == Adjugate(Initialised(MatrixToFloatV(product)))
        inverse == Initialised(adj.of)
    IN  [i \in 1..4 |-> inverse[i - 1] * source[1] + inverse[i + 3] * source[2]
                         + inverse[i + 7] * source[3] + inverse[i + 11] * source[4]]

MatrixTranslate(x, y, z) ==
    Initialised(<<1, 0, 0, x,  0, 1, 0, y,  0, 0, 1, z,  0, 0, 0, 1>>)

MatrixScale(x, y, z) ==
    Initialised(<<x, 0, 0, 0,  0, y, 0, 0,  0, 0, z, 0,  0, 0, 0, 1>>)

\* The axis has the length of a whole number.
MatrixRotate(axis, turns) ==
    LET about(u, s, c) ==
            LET t == 1 - c
                x == u[1]
                y == u[2]
                z == u[3]
            IN  <<x * x * t + c,     y * x * t + z * s, z * x * t - y * s, 0,
                  x * y * t - z * s, y * y * t + c,     z * y * t + x * s, 0,
                  x * z * t + y * s, y * z * t - x * s, z * z * t + c,     0,
                  0, 0, 0, 1>>
    IN  MatrixTranspose(Initialised(about(Vector3Normalize(axis), Sin(turns), Cos(turns))))

MatrixRotateX(turns) ==
    [MatrixIdentity EXCEPT ![5] = Cos(turns), ![6] = Sin(turns),
                           ![9] = -Sin(turns), ![10] = Cos(turns)]
MatrixRotateY(turns) ==
    [MatrixIdentity EXCEPT ![0] = Cos(turns), ![2] = -Sin(turns),
                           ![8] = Sin(turns), ![10] = Cos(turns)]
MatrixRotateZ(turns) ==
    [MatrixIdentity EXCEPT ![0] = Cos(turns), ![1] = Sin(turns),
                           ![4] = -Sin(turns), ![5] = Cos(turns)]

MatrixRotateXYZ(turns) ==
    LET s(i) == Sin(-turns[i])
        c(i) == Cos(-turns[i])
    IN  [MatrixIdentity EXCEPT
          ![0] = c(3) * c(2),
          ![1] = c(3) * s(2) * s(1) - s(3) * c(1),
          ![2] = c(3) * s(2) * c(1) + s(3) * s(1),
          ![4] = s(3) * c(2),
          ![5] = s(3) * s(2) * s(1) + c(3) * c(1),
          ![6] = s(3) * s(2) * c(1) - c(3) * s(1),
          ![8] = -s(2), ![9] = c(2) * s(1), ![10] = c(2) * c(1)]

MatrixRotateZYX(turns) ==
    LET s(i) == Sin(turns[i])
        c(i) == Cos(turns[i])
    IN  [MatrixIdentity EXCEPT
          ![0] = c(3) * c(2),
          ![4] = c(3) * s(2) * s(1) - c(1) * s(3),
          ![8] = s(3) * s(1) + c(3) * c(1) * s(2),
          ![1] = c(2) * s(3),
          ![5] = c(3) * c(1) + s(3) * s(2) * s(1),
          ![9] = c(1) * s(3) * s(2) - c(3) * s(1),
          ![2] = -s(2), ![6] = c(2) * s(1), ![10] = c(2) * c(1)]

\* eye - target, and what comes of it and up, have lengths of whole numbers.
MatrixLookAt(eye, target, up) ==
    LET seen(vx, vy, vz) ==
            <<vx[1], vy[1], vz[1], 0,  vx[2], vy[2], vz[2], 0,  vx[3], vy[3], vz[3], 0,
              -Vector3DotProduct(vx, eye), -Vector3DotProduct(vy, eye),
              -Vector3DotProduct(vz, eye), 1>>
        across(vz, vx) == seen(vx, Vector3CrossProduct(vz, vx), vz)
        along(vz) == across(vz, Vector3Normalize(Vector3CrossProduct(up, vz)))
    IN  MatrixTranspose(Initialised(along(Vector3Normalize(Vector3Subtract(eye, target)))))
-----------------------------------------------------------------------------
(* Projections.  Their fields are fractions: the matrices are given times  *)
(* the width, the height and the depth (rl, tb, fn in the code), which is  *)
(* the same projection.                                                    *)

MatrixFrustum(left, right, bottom, top, near, far) ==
    LET rl == right - left
        tb == top - bottom
        fn == far - near
    IN  Initialised(<<near * 2 * tb * fn, 0, (right + left) * tb * fn, 0,
                      0, near * 2 * rl * fn, (top + bottom) * rl * fn, 0,
                      0, 0, -(far + near) * rl * tb, -(far * near * 2) * rl * tb,
                      0, 0, -(rl * tb * fn), 0>>)

MatrixOrtho(left, right, bottom, top, near, far) ==
    LET rl == right - left
        tb == top - bottom
        fn == far - near
    IN  Initialised(<<2 * tb * fn, 0, 0, -(left + right) * tb * fn,
                      0, 2 * rl * fn, 0, -(top + bottom) * rl * fn,
                      0, 0, -2 * rl * tb, -(far + near) * rl * tb,
                      0, 0, 0, rl * tb * fn>>)

\* For the angle whose half has the tangent `slope` (the top is near * slope,
\* the right width / height of it), times slope * width * fn.
MatrixPerspective(slope, width, height, near, far) ==
    LET fn == far - near
        sw == slope * width
    IN  Initialised(<<height * fn, 0, 0, 0,  0, width * fn, 0, 0,
                      0, 0, -(far + near) * sw, -(far * near * 2) * sw,
                      0, 0, -sw * fn, 0>>)
-----------------------------------------------------------------------------
(* Quaternions, in halves. *)

One == 2

QuaternionIdentity == <<0, 0, 0, One>>
QuaternionAdd(p, q)      == [i \in 1..4 |-> p[i] + q[i]]
QuaternionSubtract(p, q) == [i \in 1..4 |-> p[i] - q[i]]
QuaternionScale(q, k)    == [i \in 1..4 |-> q[i] * k]

\* The square of the length, in quarters.
QuaternionLengthSqr(q) == q[1] * q[1] + q[2] * q[2] + q[3] * q[3] + q[4] * q[4]

QuaternionInvert(q) ==
    IF QuaternionLengthSqr(q) = 0 THEN q
    ELSE LET over(n) == Over(n * One * One, QuaternionLengthSqr(q))
         IN  <<over(-q[1]), over(-q[2]), over(-q[3]), over(q[4])>>

QuaternionMultiplyTurned(p, q) == \* seeded fault: the sign of one cross term
    [i \in 1..4 |->
        Over(CASE i = 1 -> p[1] * q[4] + p[4] * q[1] + p[2] * q[3] + p[3] * q[2]
               [] i = 2 -> p[2] * q[4] + p[4] * q[2] + p[3] * q[1] - p[1] * q[3]
               [] i = 3 -> p[3] * q[4] + p[4] * q[3] + p[1] * q[2] - p[2] * q[1]
               [] i = 4 -> p[4] * q[4] - p[1] * q[1] - p[2] * q[2] - p[3] * q[3], One)]

QuaternionMultiply(p, q) ==
    [i \in 1..4 |->
        Over(CASE i = 1 -> p[1] * q[4] + p[4] * q[1] + p[2] * q[3] - p[3] * q[2]
               [] i = 2 -> p[2] * q[4] + p[4] * q[2] + p[3] * q[1] - p[1] * q[3]
               [] i = 3 -> p[3] * q[4] + p[4] * q[3] + p[1] * q[2] - p[2] * q[1]
               [] i = 4 -> p[4] * q[4] - p[1] * q[1] - p[2] * q[2] - p[3] * q[3], One)]

Vector3RotateByQuaternion(v, q) ==
    LET x == q[1]
        y == q[2]
        z == q[3]
        w == q[4]
    IN  [i \in 1..3 |->
          Over(CASE i = 1 -> v[1] * (x * x + w * w - y * y - z * z)
                               + v[2] * (2 * x * y - 2 * w * z) + v[3] * (2 * x * z + 2 * w * y)
                 [] i = 2 -> v[1] * (2 * w * z + 2 * x * y)
                               + v[2] * (w * w - x * x + y * y - z * z) + v[3] * (2 * y * z - 2 * w * x)
                 [] i = 3 -> v[1] * (2 * x * z - 2 * w * y)
                               + v[2] * (2 * w * x + 2 * y * z) + v[3] * (w * w - x * x - y * y + z * z),
               One * One)]

\* What the half angle's sine a and cosine b come to: 2ab and 2aa.
Vector3RotateByAxisAngle(v, axis, turns) ==
    LET sum(uv, uuv) == [i \in 1..3 |-> v[i] + Sin(turns) * uv[i] + (1 - Cos(turns)) * uuv[i]]
        about(u, uv) == sum(uv, Vector3CrossProduct(u, uv))
        turned(u) == about(u, Vector3CrossProduct(u, v))
    IN  turned(Vector3Normalize(axis))

QuaternionToMatrix(q) ==
    LET over(n) == Over(2 * n, One * One)
        a2 == q[1] * q[1]
        b2 == q[2] * q[2]
        c2 == q[3] * q[3]
        ac == q[1] * q[3]
        ab == q[1] * q[2]
        bc == q[2] * q[3]
        ad == q[4] * q[1]
        bd == q[4] * q[2]
        cd == q[4] * q[3]
    IN  [MatrixIdentity EXCEPT
          ![0] = 1 - over(b2 + c2), ![1] = over(ab + cd), ![2] = over(ac - bd),
          ![4] = over(ab - cd), ![5] = 1 - over(a2 + c2), ![6] = over(bc + ad),
          ![8] = over(ac + bd), ![9] = over(bc - ad), ![10] = 1 - over(a2 + b2)]

\* The first of the four that is the greatest decides how the rest follows.
QuaternionFromMatrix(A) ==
    LET w == A[0] + A[5] + A[10]
        x == A[0] - A[5] - A[10]
        y == A[5] - A[0] - A[10]
        z == A[10] - A[0] - A[5]
        most == Greatest(Greatest(w, x), Greatest(y, z))
        big == Sqrt(most + 1)                \* the code's biggestVal, in halves
        rest(n) == Over(n, big)              \* n * mult, in halves
    IN  CASE w = most -> <<rest(A[6] - A[9]), rest(A[8] - A[2]), rest(A[1] - A[4]), big>>
          [] x = most /\ w < most ->
               <<big, rest(A[1] + A[4]), rest(A[8] + A[2]), rest(A[6] - A[9])>>
          [] y = most /\ w < most /\ x < most ->
               <<rest(A[1] + A[4]), big, rest(A[6] + A[9]), rest(A[8] - A[2])>>
          [] OTHER -> <<rest(A[8] + A[2]), rest(A[6] + A[9]), big, rest(A[1] - A[4])>>

\* By a number of half turns.
QuaternionFromAxisAngle(axis, turns) ==
    IF Vector3LengthSqr(axis) = 0 THEN QuaternionIdentity
    ELSE LET u == Vector3Scale(Vector3Normalize(axis), One * Sin(turns \div 2))
         IN  <<u[1], u[2], u[3], One * Cos(turns \div 2)>>

QuaternionFromEuler(pitch, yaw, roll) ==
    LET x0 == Cos(pitch \div 2)
        x1 == Sin(pitch \div 2)
        y0 == Cos(yaw \div 2)
        y1 == Sin(yaw \div 2)
        z0 == Cos(roll \div 2)
        z1 == Sin(roll \div 2)
    IN  QuaternionScale(<<x1 * y0 * z0 - x0 * y1 * z1, x0 * y1 * z0 + x1 * y0 * z1,
                          x0 * y0 * z1 - x1 * y1 * z0, x0 * y0 * z0 + x1 * y1 * z1>>, One)

\* Before it is given the length 1.  The square root is exact for vectors of
\* whole lengths with a whole product: it is the product of their lengths.
QuaternionFromVector3ToVector3(from, to) ==
    LET cross == Vector3CrossProduct(from, to)
        dot == Vector3DotProduct(from, to)
    IN  <<cross[1], cross[2], cross[3], Sqrt(Vector3LengthSqr(cross) + dot * dot) + dot>>

QuaternionTransform(q, A) ==
    [i \in 1..4 |->
        A[i - 1] * q[1] + A[i + 3] * q[2] + A[i + 7] * q[3] + A[i + 11] * q[4]]

QuaternionEquals(p, q) == p = q \/ p = [i \in 1..4 |-> -q[i]]

MatrixCompose(translation, rotation, scale) ==
    LET right   == Vector3RotateByQuaternion(Vector3Scale(<<1, 0, 0>>, scale[1]), rotation)
        up      == Vector3RotateByQuaternion(Vector3Scale(<<0, 1, 0>>, scale[2]), rotation)
        forward == Vector3RotateByQuaternion(Vector3Scale(<<0, 0, 1>>, scale[3]), rotation)
    IN  Initialised(<<right[1], up[1], forward[1], translation[1],
                      right[2], up[2], forward[2], translation[2],
                      right[3], up[3], forward[3], translation[3],  0, 0, 0, 1>>)

\* For a matrix without shear whose lines are apart and of whole lengths; the
\* factor the code divides by and multiplies with again is left out.
MatrixDecompose(A) ==
    LET line(i) == <<A[i], A[i + 4], A[i + 8]>>
        scl == <<Vector3Length(line(0)), Vector3Length(line(1)), Vector3Length(line(2))>>
        unit(i) == Vector3Normalize(line(i))
        sign == IF Vector3DotProduct(unit(0), Vector3CrossProduct(unit(1), unit(2))) < 0
                THEN -1 ELSE 1
        c(i) == Vector3Scale(unit(i), sign)
    IN  [translation |-> <<A[12], A[13], A[14]>>,
         scale |-> Vector3Scale(scl, sign),
         rotation |-> QuaternionFromMatrix(Initialised(
            <<c(0)[1], c(0)[2], c(0)[3], 0,  c(1)[1], c(1)[2], c(1)[3], 0,
              c(2)[1], c(2)[2], c(2)[3], 0,  0, 0, 0, 1>>))]
-----------------------------------------------------------------------------
(* Between the world and the screen. *)

Near == 1   \* rlGetCullDistanceNear and Far, in units the checks can count in
Far  == 3

Projection(camera, width, height) ==
    IF camera.projection = "perspective"
    THEN MatrixPerspective(camera.fovy, width, height, Near, Far)
    ELSE \* everything times height: right is a fraction of top
         MatrixMultiply(MatrixScale(height, height, 1),
                        MatrixOrtho(-camera.fovy * width, camera.fovy * width,
                                    -camera.fovy * height, camera.fovy * height, Near, Far))

GetCameraMatrix(camera) == MatrixLookAt(camera.position, camera.target, camera.up)

\* A point in lowest terms, with a divisor that is not negative.
LowestTerms(point) ==
    LET gcd[m \in Nat, n \in Nat] == IF n = 0 THEN m ELSE gcd[n, m % n]
        common == gcd[gcd[Abs(point[1]), Abs(point[2])], gcd[Abs(point[3]), Abs(point[4])]]
    IN  [i \in 1..4 |-> Over(point[i], IF point[4] < 0 THEN -common ELSE common)]

\* From the point <<x/d, y/d>> of the screen: where the ray starts, with its
\* divisor, and its direction, of any length.
GetScreenToWorldRayEx(position, camera, width, height) ==
    LET d == position[3]
        device(z) == <<(2 * position[1] - d * width) * height,
                       (d * height - 2 * position[2]) * width,
                       z * d * width * height, d * width * height>>
        unprojected(z) == LowestTerms(Vector3Unproject(device(z),
                              Projection(camera, width, height), GetCameraMatrix(camera)))
        direction(near, far) == [i \in 1..3 |-> far[i] * near[4] - near[i] * far[4]]
    IN  [position |-> IF camera.projection = "perspective"
                      THEN Append(camera.position, 1) ELSE unprojected(-1),
         direction |-> direction(unprojected(0), unprojected(1))]

\* Where the point <<x/w, y/w, z/w>> is on the screen, with its divisor.
GetWorldToScreenEx(position, camera, width, height) ==
    LET viewed == QuaternionTransform(position, GetCameraMatrix(camera))
        shown(clip) == <<(clip[1] + clip[4]) * width, (-clip[2] + clip[4]) * height, 2 * clip[4]>>
    IN  shown(QuaternionTransform(viewed, Projection(camera, width, height)))

GetCameraMatrix2D(camera) ==
    LET origin == MatrixTranslate(-camera.target[1], -camera.target[2], 0)
        rotation == MatrixRotate(<<0, 0, 1>>, camera.rotation)
        scale == MatrixScale(camera.zoom, camera.zoom, 1)
        translation == MatrixTranslate(camera.offset[1], camera.offset[2], 0)
    IN  MatrixMultiply(MatrixMultiply(origin, MatrixMultiply(scale, rotation)), translation)

GetWorldToScreen2D(position, camera) ==
    LET transform == Vector3Transform(<<position[1], position[2], 0>>, GetCameraMatrix2D(camera))
    IN  <<transform[1], transform[2]>>

\* With its divisor, the determinant.
GetScreenToWorld2D(position, camera) ==
    LET found(transform, divisor) == <<transform[1], transform[2], divisor>>
        through(A) == found(Vector3Transform(<<position[1], position[2], 0>>, MatrixInvert(A)), MatrixDeterminant(A))
    IN  through(GetCameraMatrix2D(camera))
-----------------------------------------------------------------------------
(* Moves of a camera; angles are in quarter turns. *)

GetCameraForward(camera) == Vector3Normalize(Vector3Subtract(camera.target, camera.position))
GetCameraUp(camera)      == Vector3Normalize(camera.up)
GetCameraRight(camera)   ==
    Vector3Normalize(Vector3CrossProduct(GetCameraForward(camera), GetCameraUp(camera)))

\* Without what goes along the axis that up is on (over 0.7071 of it).
InWorldPlane(camera, v) ==
    LET axis == IF camera.up[3] # 0 THEN 3 ELSE IF camera.up[1] # 0 THEN 1 ELSE 2
    IN  Vector3Normalize([v EXCEPT ![axis] = 0])

Moved(camera, by) == [camera EXCEPT !.position = Vector3Add(@, by), !.target = Vector3Add(@, by)]

CameraMoveForward(camera, distance, moveInWorldPlane) ==
    LET forward == GetCameraForward(camera)
        along == IF moveInWorldPlane THEN InWorldPlane(camera, forward) ELSE forward
    IN  Moved(camera, Vector3Scale(along, distance))

CameraMoveUp(camera, distance) == Moved(camera, Vector3Scale(GetCameraUp(camera), distance))

CameraMoveRight(camera, distance, moveInWorldPlane) ==
    LET right == GetCameraRight(camera)
        along == IF moveInWorldPlane THEN InWorldPlane(camera, right) ELSE right
    IN  Moved(camera, Vector3Scale(along, distance))

\* The distance stays above 0: a thousandth of a unit, which is `least` here.
CameraMoveToTarget(camera, delta, least) ==
    LET wanted == Vector3Length(Vector3Subtract(camera.target, camera.position)) + delta
        distance == IF wanted <= 0 THEN least ELSE wanted
    IN  [camera EXCEPT !.position =
           Vector3Add(camera.target, Vector3Scale(GetCameraForward(camera), -distance))]

\* The view turned about an axis, at the end that is not held.
Turned(camera, axis, turns, rotateAroundTarget) ==
    LET view == Vector3RotateByAxisAngle(
                  Vector3Subtract(camera.target, camera.position), axis, turns)
    IN  IF rotateAroundTarget
        THEN [camera EXCEPT !.position = Vector3Subtract(camera.target, view)]
        ELSE [camera EXCEPT !.target = Vector3Add(camera.position, view)]

CameraYaw(camera, turns, rotateAroundTarget) ==
    Turned(camera, GetCameraUp(camera), turns, rotateAroundTarget)

\* Without lockView, which stops it short of looking straight up or down.
CameraPitch(camera, turns, rotateAroundTarget, rotateUp) ==
    LET right == GetCameraRight(camera)
        turned == Turned(camera, right, turns, rotateAroundTarget)
    IN  IF rotateUp THEN [turned EXCEPT !.up = Vector3RotateByAxisAngle(@, right, turns)]
        ELSE turned

CameraRoll(camera, turns) ==
    [camera EXCEPT !.up = Vector3RotateByAxisAngle(@, GetCameraForward(camera), turns)]
=============================================================================
